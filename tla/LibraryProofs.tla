---------------------------- MODULE LibraryProofs ----------------------------
(***************************************************************************)
(* For any value of their constants: ListenersAreCalled (NoticeCenter),    *)
(* LendingSafe (ResourcePool, SqlPool), NoTaskStranded (ThreadPool),       *)
(* UdpClientServed (UdpClient) and MessagesKept (Logger).                  *)
(***************************************************************************)
EXTENDS NoticeCenter, SqlPool, ThreadPool, UdpClient, Logger, FiniteSetTheorems, SequenceTheorems,
        TLAPS

-----------------------------------------------------------------------------
(* NoticeCenter: ListenersAreCalled.                                        *)

Ops == {"none", "add", "del", "drop", "copy", "emit", "emitted"}
Calls == [op : Ops, on : Nat, tag : Tags \cup {NoTag}, left : SUBSET Listeners,
          called : SUBSET Listeners, must : SUBSET Listeners, never : SUBSET Listeners]

Typed ==
  /\ dispatcher \in Nat /\ next \in Nat /\ adds \in 0 .. MaxAdds
  /\ holds \in [Listeners -> SUBSET Listeners]
  /\ tagOf \in [Listeners -> Tags \cup {NoTag}]
  /\ call \in [Callers -> Calls]
  /\ sure \in SUBSET Listeners /\ removed \in SUBSET Listeners

Adding == {t \in Callers : call[t].op = "add"}

(* Dispatchers are numbered as they are made, and none comes back.          *)
Numbers ==
  /\ dispatcher \in {NoDispatcher, next} /\ next <= MaxAdds
  /\ \A t \in Callers : call[t].op \in {"add", "del", "drop", "copy"} => call[t].on \in 1 .. next
  /\ \A d \in Listeners : d > next => holds[d] = {}

(* A listener has a tag from the moment it is in a dispatcher, and not      *)
(* before.                                                                  *)
Tagged ==
  /\ \A d \in Listeners : \A l \in holds[d] : tagOf[l] # NoTag
  /\ \A l \in removed : tagOf[l] # NoTag
  /\ \A t \in Adding : call[t].tag # NoTag /\ \A l \in call[t].left : l <= adds /\ tagOf[l] = NoTag
  /\ \A t, u \in Adding : t # u => call[t].left \cap call[u].left = {}
  /\ \A t \in Callers : call[t].op = "del" =>
       call[t].tag # NoTag /\ \A l \in call[t].left : tagOf[l] = call[t].tag
  /\ \A l \in Listeners : l > adds => tagOf[l] = NoTag

(* What is promised is in the dispatcher of the event, and no removal under *)
(* way concerns it.                                                         *)
Promised ==
  /\ dispatcher = NoDispatcher => sure = {}
  /\ dispatcher # NoDispatcher => sure \subseteq holds[dispatcher]
  /\ \A t \in Adding : call[t].must # {} =>
       call[t].must = call[t].left /\ call[t].on = dispatcher /\ Removals(dispatcher) = {}
  /\ \A t \in Callers : call[t].on = dispatcher =>
       /\ call[t].op = "del" => \A l \in sure : tagOf[l] # call[t].tag
       /\ call[t].op = "drop" => sure = {}

(* What an emission has to call is still to be copied, to be called, or     *)
(* was called.                                                              *)
Due ==
  \A t \in Callers :
    /\ call[t].op = "copy" =>
         /\ call[t].must \subseteq holds[call[t].on]
         /\ \A u \in Callers : call[u].op = "del" /\ call[u].on = call[t].on =>
              \A l \in call[t].must : tagOf[l] # call[u].tag
    /\ call[t].op = "emit" => call[t].must \subseteq call[t].called \cup call[t].left
    /\ call[t].op = "emitted" => call[t].must \subseteq call[t].called

(* What was removed is in no dispatcher that an emission can still take.    *)
Gone ==
  /\ dispatcher # NoDispatcher => holds[dispatcher] \cap removed = {}
  /\ \A t \in Callers :
       /\ call[t].never \subseteq removed
       /\ call[t].op = "del" => \A d \in Listeners : d > call[t].on => holds[d] \cap call[t].left = {}
       /\ call[t].op = "copy" => call[t].called = {} /\ holds[call[t].on] \cap call[t].never = {}
       /\ call[t].op = "emit" => (call[t].left \cup call[t].called) \cap call[t].never = {}
       /\ call[t].op = "emitted" => call[t].called \cap call[t].never = {}

NotInv == Typed /\ Numbers /\ Tagged /\ Promised /\ Due /\ Gone

LEMMA InitHolds == NotInit => NotInv
  <1> SUFFICES ASSUME NotInit PROVE NotInv
    OBVIOUS
  <1> USE NoticeAssumption DEF NotInit
  <1>1. Idle \in Calls /\ Idle.op = "none" /\ Idle.never = {}
    BY DEF Idle, Calls, Ops, NoDispatcher
  <1>2. Typed
    BY <1>1 DEF Typed, NoDispatcher, Listeners
  <1>3. Numbers /\ Tagged
    BY <1>1 DEF Numbers, Tagged, Adding, NoDispatcher, Listeners
  <1>4. Promised /\ Due /\ Gone
    BY <1>1 DEF Promised, Due, Gone, Adding, NoDispatcher, Listeners
  <1> QED
    BY <1>2, <1>3, <1>4 DEF NotInv

LEMMA AddListenerKeeps ==
  ASSUME NotInv, NEW t \in Callers, NEW tag \in Tags, AddListener(t, tag)
  PROVE  NotInv'
  <1> USE NoticeAssumption
  <1> DEFINE c == [Idle EXCEPT !.op = "add", !.on = dispatcher', !.tag = tag, !.left = {adds'},
                     !.must = IF Removals(dispatcher') = {} THEN {adds'} ELSE {}]
  <1>1. /\ adds' = adds + 1 /\ adds' \in Listeners
        /\ call' = [call EXCEPT ![t] = c] /\ call[t].op = "none"
        /\ UNCHANGED <<holds, tagOf, sure, removed>>
    BY DEF AddListener, Sets, NotInv, Typed, Listeners
  <1>2. /\ dispatcher' = next' /\ next' \in 1 .. MaxAdds /\ next' >= next
        /\ dispatcher # NoDispatcher => dispatcher' = dispatcher
        /\ dispatcher = NoDispatcher => next' = next + 1
    BY DEF AddListener, GetDispatcher, NotInv, Typed, Numbers, NoDispatcher
  <1>3. /\ c.op = "add" /\ c.on = dispatcher' /\ c.tag = tag /\ c.left = {adds'}
        /\ c.called = {} /\ c.never = {}
        /\ c.must = IF Removals(dispatcher') = {} THEN {adds'} ELSE {}
    BY DEF Idle
  <1>4. c \in Calls
    <2>1. Idle \in Calls
      BY DEF Idle, Calls, Ops, NoDispatcher
    <2>2. /\ "add" \in Ops /\ dispatcher' \in Nat /\ {adds'} \in SUBSET Listeners
          /\ (IF Removals(dispatcher') = {} THEN {adds'} ELSE {}) \in SUBSET Listeners
      BY <1>1, <1>2 DEF Ops
    <2> QED
      BY <2>1, <2>2 DEF Calls
  <1>5. /\ call' \in [Callers -> Calls] /\ call'[t] = c
        /\ \A u \in Callers : u # t => call'[u] = call[u]
    BY <1>1, <1>4 DEF NotInv, Typed
  <1> HIDE DEF c
  <1>6. Typed'
    BY <1>1, <1>2, <1>5 DEF NotInv, Typed, Listeners
  <1>7. Numbers'
    BY <1>1, <1>2, <1>3, <1>5 DEF NotInv, Typed, Numbers, Listeners, NoDispatcher
  <1>8. Tagged'
    <2> USE DEF NotInv, Typed, Tagged, Adding
    <2>1. \A l \in Listeners : l > adds' => tagOf[l] = NoTag
      BY <1>1 DEF Listeners
    <2>2. \A u \in Adding' : u # t => u \in Adding
      BY <1>5
    <2>3. ASSUME NEW u \in Adding'
          PROVE  call'[u].tag # NoTag /\ \A l \in call'[u].left : l <= adds' /\ tagOf[l] = NoTag
      <3>1. CASE u = t
        <4>1. tagOf[adds'] = NoTag /\ adds' <= adds'
          BY <1>1
        <4> QED
          BY <1>3, <1>5, <3>1, <4>1
      <3>2. CASE u # t
        <4>1. u \in Adding /\ call'[u] = call[u]
          BY <1>5, <2>2, <3>2
        <4>2. \A l \in call[u].left : l \in Listeners
          BY <4>1 DEF Calls
        <4> QED
          BY <1>1, <4>1, <4>2 DEF Listeners
      <3> QED
        BY <3>1, <3>2
    <2>4. ASSUME NEW u \in Adding', NEW v \in Adding', u # v
          PROVE  call'[u].left \cap call'[v].left = {}
      BY <1>1, <1>3, <1>5, <2>2, <2>4
    <2>5. \A u \in Callers : call'[u].op = "del" =>
            call'[u].tag # NoTag /\ \A l \in call'[u].left : tagOf[l] = call'[u].tag
      BY <1>3, <1>5
    <2> QED
      BY <1>1, <2>1, <2>3, <2>4, <2>5
  <1>9. Removals(dispatcher)' = {u \in Callers : call[u].op \in {"del", "drop"} /\ call[u].on = dispatcher'}
    BY <1>1, <1>3, <1>5 DEF Removals
  <1>10. Promised'
    <2> USE DEF NotInv, Typed, Numbers, Promised, Adding
    <2>1. dispatcher' # NoDispatcher /\ sure \subseteq holds[dispatcher']
      BY <1>1, <1>2 DEF NoDispatcher, Listeners
    <2>2. ASSUME NEW u \in Adding', call'[u].must # {}
          PROVE  /\ call'[u].must = call'[u].left /\ call'[u].on = dispatcher'
                 /\ Removals(dispatcher)' = {}
      <3>1. CASE u = t
        BY <1>3, <1>5, <1>9, <2>2, <3>1 DEF Removals
      <3>2. CASE u # t
        BY <1>2, <1>5, <1>9, <2>2, <3>2 DEF Removals, NoDispatcher
      <3> QED
        BY <3>1, <3>2
    <2>3. ASSUME NEW u \in Callers, call'[u].on = dispatcher'
          PROVE  /\ call'[u].op = "del" => \A l \in sure : tagOf[l] # call'[u].tag
                 /\ call'[u].op = "drop" => sure = {}
      BY <1>2, <1>3, <1>5, <2>3 DEF NoDispatcher
    <2> QED
      BY <1>1, <2>1, <2>2, <2>3
  <1>11. Due'
    BY <1>1, <1>3, <1>5 DEF NotInv, Due
  <1>12. Gone'
    BY <1>1, <1>2, <1>3, <1>5 DEF NotInv, Typed, Numbers, Gone, Listeners, NoDispatcher
  <1> QED
    BY <1>6, <1>7, <1>8, <1>10, <1>11, <1>12 DEF NotInv
LEMMA CurrentIsListener ==
  ASSUME NotInv, dispatcher # NoDispatcher
  PROVE  dispatcher = next /\ dispatcher \in Listeners
  BY NoticeAssumption DEF NotInv, Typed, Numbers, Listeners, NoDispatcher

LEMMA IdleIsIdle ==
  /\ Idle \in Calls /\ Idle.op = "none" /\ Idle.on = NoDispatcher
  /\ Idle.left = {} /\ Idle.called = {} /\ Idle.must = {} /\ Idle.never = {}
  BY DEF Idle, Calls, Ops, NoDispatcher

LEMMA AddToKeeps ==
  ASSUME NotInv, NEW t \in Callers, AddTo(t)
  PROVE  NotInv'
  <1> USE NoticeAssumption
  <1> DEFINE on == call[t].on  new == call[t].left
  <1>1. /\ holds' = [holds EXCEPT ![on] = @ \cup new]
        /\ tagOf' = [l \in Listeners |-> IF l \in new THEN call[t].tag ELSE tagOf[l]]
        /\ sure' = sure \cup call[t].must
        /\ call[t].op = "add" /\ t \in Adding
        /\ UNCHANGED <<dispatcher, next, adds, removed>>
    BY DEF AddTo, Adding
  <1>2. /\ call' \in [Callers -> Calls] /\ call'[t] = Idle
        /\ \A u \in Callers : u # t => call'[u] = call[u]
    BY IdleIsIdle DEF AddTo, Sets, NotInv, Typed
  <1>3. /\ on \in 1 .. next /\ on \in Listeners
        /\ new \in SUBSET Listeners /\ call[t].must \in SUBSET Listeners
        /\ call[t].tag \in Tags \cup {NoTag} /\ call[t].tag # NoTag
        /\ \A l \in new : l <= adds /\ tagOf[l] = NoTag
    BY <1>1 DEF NotInv, Typed, Calls, Numbers, Tagged, Listeners
  <1>4. /\ holds'[on] = holds[on] \cup new
        /\ \A d \in Listeners : d # on => holds'[d] = holds[d]
        /\ \A l \in new : tagOf'[l] = call[t].tag
        /\ \A l \in Listeners \ new : tagOf'[l] = tagOf[l]
    BY <1>1, <1>3 DEF NotInv, Typed
  <1> HIDE DEF on, new
  <1>5. Typed'
    <2>1. holds' \in [Listeners -> SUBSET Listeners]
      BY <1>1, <1>3 DEF NotInv, Typed
    <2>2. tagOf' \in [Listeners -> Tags \cup {NoTag}]
      BY <1>1, <1>3 DEF NotInv, Typed
    <2> QED
      BY <1>1, <1>2, <1>3, <2>1, <2>2, ZenonT(40) DEF NotInv, Typed
  <1>6. Numbers'
    <2>1. /\ dispatcher \in {NoDispatcher, next} /\ next <= MaxAdds /\ on \in 1 .. next
          /\ \A u \in Callers : call[u].op \in {"add", "del", "drop", "copy"} => call[u].on \in 1 .. next
      BY <1>1 DEF NotInv, Numbers, on
    <2>2. \A u \in Callers : call'[u].op \in {"add", "del", "drop", "copy"} => call'[u].on \in 1 .. next
      BY <1>2, <2>1, IdleIsIdle
    <2>3. ASSUME NEW d \in Listeners, d > next PROVE holds'[d] = {}
      <3>1. d # on
        BY <2>1, <2>3 DEF NotInv, Typed, Listeners
      <3> QED
        BY <1>4, <2>3, <3>1 DEF NotInv, Numbers
    <2> QED
      BY <1>1, <2>1, <2>2, <2>3 DEF Numbers
  <1>7. Tagged'
    <2> USE DEF NotInv, Typed, Tagged
    <2>1. \A u \in Adding' : u # t /\ u \in Adding /\ call'[u] = call[u]
      BY <1>2, IdleIsIdle DEF Adding
    <2>2. \A d \in Listeners : \A l \in holds'[d] : tagOf'[l] # NoTag
      BY <1>3, <1>4
    <2>3. \A l \in removed' : tagOf'[l] # NoTag
      BY <1>1, <1>3, <1>4
    <2>4. ASSUME NEW u \in Adding'
          PROVE  call'[u].tag # NoTag /\ \A l \in call'[u].left : l <= adds' /\ tagOf'[l] = NoTag
      <3>1. call[u].left \cap call[t].left = {} /\ call[u].left \subseteq Listeners
        BY <1>1, <2>1 DEF Adding, Calls
      <3> QED
        BY <1>1, <1>4, <2>1, <3>1 DEF new
    <2>5. \A u, v \in Adding' : u # v => call'[u].left \cap call'[v].left = {}
      BY <2>1
    <2>6. ASSUME NEW u \in Callers, call'[u].op = "del"
          PROVE  call'[u].tag # NoTag /\ \A l \in call'[u].left : tagOf'[l] = call'[u].tag
      <3>1. u # t /\ call'[u] = call[u] /\ call[u].left \subseteq Listeners
        BY <1>2, <2>6, IdleIsIdle DEF Calls
      <3>2. call[u].tag # NoTag /\ \A l \in call[u].left : tagOf[l] = call[u].tag
        BY <2>6, <3>1
      <3> QED
        BY <1>3, <1>4, <3>1, <3>2
    <2>7. \A l \in Listeners : l > adds' => tagOf'[l] = NoTag
      BY <1>1, <1>3, <1>4 DEF Listeners
    <2> QED
      BY <2>2, <2>3, <2>4, <2>5, <2>6, <2>7
  <1>8. call[t].must # {} => call[t].must = new /\ on = dispatcher /\ Removals(dispatcher) = {}
    BY <1>1 DEF NotInv, Promised, on, new
  <1>9. Removals(dispatcher)' = Removals(dispatcher)
    BY <1>1, <1>2, IdleIsIdle DEF Removals
  <1>10. Promised'
    <2> USE DEF NotInv, Typed, Numbers, Promised
    <2>1. dispatcher = NoDispatcher => sure' = {}
      <3>1. on # NoDispatcher
        BY <1>3 DEF NoDispatcher
      <3> QED
        BY <1>1, <1>8, <3>1
    <2>2. dispatcher # NoDispatcher => sure' \subseteq holds'[dispatcher]
      <3> SUFFICES ASSUME dispatcher # NoDispatcher PROVE sure' \subseteq holds'[dispatcher]
        OBVIOUS
      <3>1. holds[dispatcher] \subseteq holds'[dispatcher]
        BY <1>4, CurrentIsListener
      <3>2. call[t].must \subseteq holds'[dispatcher]
        BY <1>4, <1>8
      <3> QED
        BY <1>1, <3>1, <3>2
    <2>3. ASSUME NEW u \in Adding', call'[u].must # {}
          PROVE  /\ call'[u].must = call'[u].left /\ call'[u].on = dispatcher'
                 /\ Removals(dispatcher)' = {}
      BY <1>1, <1>2, <1>9, <2>3, IdleIsIdle DEF Adding
    <2>4. ASSUME NEW u \in Callers, call'[u].on = dispatcher'
          PROVE  /\ call'[u].op = "del" => \A l \in sure' : tagOf'[l] # call'[u].tag
                 /\ call'[u].op = "drop" => sure' = {}
      <3>1. CASE call[u].op \in {"del", "drop"} /\ u # t
        <4>1. call'[u] = call[u] /\ u \in Removals(dispatcher)
          BY <1>1, <1>2, <2>4, <3>1 DEF Removals
        <4>2. sure' = sure /\ sure \subseteq Listeners
          BY <1>1, <1>8, <4>1
        <4>3. \A l \in sure : l \notin new
          BY <1>1, <1>3, <1>4, <2>2, <4>2, <4>1 DEF Tagged, Listeners, NoDispatcher
        <4> QED
          BY <1>1, <1>4, <2>4, <4>1, <4>2, <4>3
      <3>2. CASE ~(call[u].op \in {"del", "drop"} /\ u # t)
        BY <1>2, <3>2, IdleIsIdle
      <3> QED
        BY <3>1, <3>2
    <2> QED
      BY <1>1, <2>1, <2>2, <2>3, <2>4
  <1>11. Due'
    <2> SUFFICES ASSUME NEW u \in Callers
                 PROVE  /\ call'[u].op = "copy" =>
                             /\ call'[u].must \subseteq holds'[call'[u].on]
                             /\ \A v \in Callers : call'[v].op = "del" /\ call'[v].on = call'[u].on =>
                                  \A l \in call'[u].must : tagOf'[l] # call'[v].tag
                        /\ call'[u].op = "emit" => call'[u].must \subseteq call'[u].called \cup call'[u].left
                        /\ call'[u].op = "emitted" => call'[u].must \subseteq call'[u].called
      BY DEF Due
    <2>1. CASE u = t
      BY <1>2, <2>1, IdleIsIdle
    <2>2. CASE u # t /\ call[u].op = "copy"
      <3>1. call'[u] = call[u] /\ call[u].on \in Listeners /\ call[u].must \subseteq holds[call[u].on]
        BY <1>2, <2>2 DEF NotInv, Typed, Numbers, Due, Listeners
      <3>2. \A l \in call[u].must : l \in Listeners /\ l \notin new /\ tagOf'[l] = tagOf[l]
        <4>1. holds[call[u].on] \subseteq Listeners
          BY <3>1 DEF NotInv, Typed
        <4>2. \A l \in holds[call[u].on] : tagOf[l] # NoTag
          BY <3>1 DEF NotInv, Tagged
        <4> QED
          BY <1>3, <1>4, <3>1, <4>1, <4>2
      <3>3. call[u].must \subseteq holds'[call[u].on]
        BY <1>4, <3>1
      <3> QED
        BY <1>2, <2>2, <3>1, <3>2, <3>3, IdleIsIdle DEF NotInv, Due
    <2>3. CASE u # t /\ call[u].op # "copy"
      BY <1>2, <2>3 DEF NotInv, Due
    <2> QED
      BY <2>1, <2>2, <2>3
  <1>12. Gone'
    <2> USE DEF NotInv, Typed, Gone
    <2>1. new \cap removed = {}
      BY <1>3 DEF Tagged
    <2>2. dispatcher' # NoDispatcher => holds'[dispatcher'] \cap removed' = {}
      BY <1>1, <1>4, <2>1, CurrentIsListener
    <2>3. \A u \in Callers : call'[u].never \subseteq removed'
      BY <1>1, <1>2, IdleIsIdle
    <2>4. ASSUME NEW u \in Callers, call'[u].op = "del", NEW d \in Listeners, d > call'[u].on
          PROVE  holds'[d] \cap call'[u].left = {}
      <3>1. u # t /\ call'[u] = call[u] /\ call[u].op = "del" /\ holds[d] \cap call[u].left = {}
        BY <1>2, <2>4, IdleIsIdle
      <3>2. new \cap call[u].left = {}
        <4>1. call[u].tag # NoTag /\ \A l \in call[u].left : tagOf[l] = call[u].tag
          BY <3>1 DEF Tagged
        <4> QED
          BY <1>3, <4>1
      <3> QED
        BY <1>4, <3>1, <3>2
    <2>5. ASSUME NEW u \in Callers, call'[u].op = "copy"
          PROVE  call'[u].called = {} /\ holds'[call'[u].on] \cap call'[u].never = {}
      <3>1. u # t /\ call'[u] = call[u] /\ call[u].never \subseteq removed /\ call[u].on \in Listeners
        BY <1>2, <2>5, IdleIsIdle DEF Numbers, Listeners
      <3> QED
        BY <1>4, <2>1, <2>5, <3>1
    <2>6. \A u \in Callers :
            /\ call'[u].op = "emit" => (call'[u].left \cup call'[u].called) \cap call'[u].never = {}
            /\ call'[u].op = "emitted" => call'[u].called \cap call'[u].never = {}
      BY <1>2, IdleIsIdle
    <2> QED
      BY <2>2, <2>3, <2>4, <2>5, <2>6
  <1> QED
    BY <1>5, <1>6, <1>7, <1>10, <1>11, <1>12 DEF NotInv

(* A removal begins: only `must' of the other threads changes.              *)
LEMMA DoubtEffect ==
  ASSUME Typed, NEW t \in Callers, NEW gone \in SUBSET Listeners, NEW c \in Calls,
         Doubt(gone, t, c)
  PROVE  /\ call' \in [Callers -> Calls] /\ call'[t] = c
         /\ \A u \in Callers : u # t =>
              /\ call'[u].op = call[u].op /\ call'[u].on = call[u].on /\ call'[u].tag = call[u].tag
              /\ call'[u].left = call[u].left /\ call'[u].called = call[u].called
              /\ call'[u].never = call[u].never
              /\ call'[u].must \subseteq call[u].must
              /\ call[u].op # "add" => call'[u].must \cap gone = {}
              /\ call[u].op = "add" /\ call[u].on = dispatcher => call'[u].must = {}
  <1>1. \A u \in Callers : call[u] \in Calls
    BY DEF Typed
  <1>2. call' = [u \in Callers |->
                  IF u = t THEN c
                  ELSE IF call[u].op = "add" /\ call[u].on = dispatcher
                       THEN [call[u] EXCEPT !.must = {}]
                       ELSE [call[u] EXCEPT !.must = call[u].must \ gone]]
    BY DEF Doubt
  <1>3. \A u \in Callers : [call[u] EXCEPT !.must = {}] \in Calls
    BY <1>1 DEF Calls
  <1>4. \A u \in Callers : [call[u] EXCEPT !.must = call[u].must \ gone] \in Calls
    BY <1>1 DEF Calls
  <1>5. call' \in [Callers -> Calls] /\ call'[t] = c
    BY <1>2, <1>3, <1>4
  <1>6. ASSUME NEW u \in Callers, u # t
        PROVE  /\ call'[u].op = call[u].op /\ call'[u].on = call[u].on /\ call'[u].tag = call[u].tag
               /\ call'[u].left = call[u].left /\ call'[u].called = call[u].called
               /\ call'[u].never = call[u].never
               /\ call'[u].must \subseteq call[u].must
               /\ call[u].op # "add" => call'[u].must \cap gone = {}
               /\ call[u].op = "add" /\ call[u].on = dispatcher => call'[u].must = {}
    BY <1>1, <1>2, <1>6 DEF Calls
  <1> QED
    BY <1>5, <1>6

LEMMA DelListenerKeeps ==
  ASSUME NotInv, NEW t \in Callers, NEW tag \in Tags, DelListener(t, tag)
  PROVE  NotInv'
  <1> USE NoticeAssumption
  <1> DEFINE c == [Idle EXCEPT !.op = "del", !.on = dispatcher, !.tag = tag, !.left = With(tag)]
  <1>1. /\ call[t].op = "none" /\ dispatcher # NoDispatcher /\ Doubt(With(tag), t, c)
        /\ sure' = sure \ With(tag)
        /\ UNCHANGED <<dispatcher, next, holds, tagOf, adds, removed>>
    BY DEF DelListener
  <1>2. /\ c.op = "del" /\ c.on = dispatcher /\ c.tag = tag /\ c.left = With(tag)
        /\ c.called = {} /\ c.must = {} /\ c.never = {}
    BY DEF Idle
  <1>3. With(tag) \in SUBSET Listeners /\ \A l \in Listeners : l \in With(tag) <=> tagOf[l] = tag
    BY DEF With
  <1>4. c \in Calls
    BY <1>3, IdleIsIdle DEF Calls, Ops, NotInv, Typed
  <1> HIDE DEF c
  <1>5. /\ call' \in [Callers -> Calls] /\ call'[t] = c
        /\ \A u \in Callers : u # t =>
             /\ call'[u].op = call[u].op /\ call'[u].on = call[u].on /\ call'[u].tag = call[u].tag
             /\ call'[u].left = call[u].left /\ call'[u].called = call[u].called
             /\ call'[u].never = call[u].never
             /\ call'[u].must \subseteq call[u].must
             /\ call[u].op # "add" => call'[u].must \cap With(tag) = {}
             /\ call[u].op = "add" /\ call[u].on = dispatcher => call'[u].must = {}
    <2>1. Typed /\ Doubt(With(tag), t, c) /\ With(tag) \in SUBSET Listeners /\ c \in Calls
      BY <1>1, <1>3, <1>4 DEF NotInv
    <2> QED
      BY <2>1, DoubtEffect, ZenonT(40)
  <1>6. Typed'
    BY <1>1, <1>5 DEF NotInv, Typed
  <1>7. Numbers'
    <2>1. Numbers /\ dispatcher \in 1 .. next
      BY <1>1, CurrentIsListener DEF NotInv, Typed, Numbers, Listeners
    <2>2. \A u \in Callers :
            call'[u].op \in {"add", "del", "drop", "copy"} => call'[u].on \in 1 .. next
      <3>1. call'[t].on \in 1 .. next
        BY <1>2, <1>5, <2>1
      <3>2. \A u \in Callers : u # t => call'[u].op = call[u].op /\ call'[u].on = call[u].on
        BY <1>5
      <3> QED
        BY <2>1, <3>1, <3>2 DEF Numbers
    <2> QED
      BY <1>1, <2>1, <2>2 DEF Numbers
  <1>8. Tagged'
    BY <1>1, <1>2, <1>3, <1>5 DEF NotInv, Typed, Tagged, Adding
  <1>9. Promised'
    <2> USE DEF Promised
    <2>1. /\ dispatcher = NoDispatcher => sure' = {}
          /\ dispatcher # NoDispatcher => sure' \subseteq holds[dispatcher]
      BY <1>1 DEF NotInv
    <2>2. \A u \in Adding' : call'[u].must = {}
      BY <1>2, <1>5 DEF NotInv, Adding
    <2>3. ASSUME NEW u \in Callers, call'[u].on = dispatcher
          PROVE  /\ call'[u].op = "del" => \A l \in sure' : tagOf[l] # call'[u].tag
                 /\ call'[u].op = "drop" => sure' = {}
      BY <1>1, <1>2, <1>3, <1>5, <2>3 DEF NotInv, Typed
    <2> QED
      BY <1>1, <2>1, <2>2, <2>3
  <1>10. Due'
    <2> SUFFICES ASSUME NEW u \in Callers
                 PROVE  /\ call'[u].op = "copy" =>
                             /\ call'[u].must \subseteq holds[call'[u].on]
                             /\ \A v \in Callers : call'[v].op = "del" /\ call'[v].on = call'[u].on =>
                                  \A l \in call'[u].must : tagOf[l] # call'[v].tag
                        /\ call'[u].op = "emit" => call'[u].must \subseteq call'[u].called \cup call'[u].left
                        /\ call'[u].op = "emitted" => call'[u].must \subseteq call'[u].called
      BY <1>1 DEF Due
    <2>1. CASE u = t
      BY <1>2, <1>5, <2>1
    <2>2. CASE u # t
      <3>1. call'[u].must \subseteq Listeners
        BY <1>5 DEF Calls
      <3>2. ASSUME NEW v \in Callers, call'[u].op = "copy", call'[v].op = "del",
                   call'[v].on = call'[u].on, NEW l \in call'[u].must
            PROVE  tagOf[l] # call'[v].tag
        <4>1. CASE v = t
          BY <1>2, <1>3, <1>5, <2>2, <3>1, <3>2, <4>1
        <4>2. CASE v # t
          BY <1>5, <2>2, <3>2, <4>2 DEF NotInv, Due
        <4> QED
          BY <4>1, <4>2
      <3> QED
        BY <1>5, <2>2, <3>2 DEF NotInv, Due
    <2> QED
      BY <2>1, <2>2
  <1>11. Gone'
    BY <1>1, <1>2, <1>5, CurrentIsListener DEF NotInv, Numbers, Gone
  <1> QED
    BY <1>6, <1>7, <1>8, <1>9, <1>10, <1>11 DEF NotInv
LEMMA DelFromKeeps ==
  ASSUME NotInv, NEW t \in Callers, DelFrom(t)
  PROVE  NotInv'
  <1> USE NoticeAssumption
  <1> DEFINE on == call[t].on  tag == call[t].tag  gone == call[t].left  c == call'[t]
  <1>1. /\ call[t].op = "del" /\ holds' = [holds EXCEPT ![on] = @ \ With(tag)]
        /\ removed' = removed \cup gone
        /\ Sets(t, IF holds'[on] = {} THEN [call[t] EXCEPT !.op = "drop"] ELSE Idle)
        /\ UNCHANGED <<dispatcher, next, tagOf, adds, sure>>
    BY DEF DelFrom
  <1>2. /\ on \in 1 .. next /\ on \in Listeners /\ gone \in SUBSET Listeners
        /\ tag # NoTag /\ \A l \in gone : tagOf[l] = tag
    BY <1>1 DEF NotInv, Typed, Calls, Numbers, Tagged, Listeners
  <1>3. /\ [call[t] EXCEPT !.op = "drop"] \in Calls
        /\ [call[t] EXCEPT !.op = "drop"].op = "drop" /\ [call[t] EXCEPT !.op = "drop"].on = on
        /\ [call[t] EXCEPT !.op = "drop"].never = call[t].never
    BY DEF NotInv, Typed, Calls, Ops
  <1>4. /\ call' \in [Callers -> Calls]
        /\ \A u \in Callers : u # t => call'[u] = call[u]
        /\ \/ c.op = "drop" /\ c.on = on /\ c.never = call[t].never /\ holds'[on] = {}
           \/ c.op = "none" /\ c.on = NoDispatcher /\ c.never = {}
    BY <1>1, <1>3, IdleIsIdle DEF Sets, NotInv, Typed
  <1>5. /\ holds'[on] = holds[on] \ With(tag)
        /\ \A d \in Listeners : d # on => holds'[d] = holds[d]
        /\ holds' \in [Listeners -> SUBSET Listeners]
    BY <1>1, <1>2 DEF NotInv, Typed
  <1>6. \A d \in Listeners : holds'[d] \subseteq holds[d]
    BY <1>5
  <1>7. \A l \in Listeners : l \in With(tag) <=> tagOf[l] = tag
    BY DEF With
  <1> HIDE DEF on, tag, gone, c
  <1>8. Typed'
    BY <1>1, <1>2, <1>4, <1>5 DEF NotInv, Typed
  <1>9. Numbers'
    BY <1>1, <1>2, <1>4, <1>6 DEF NotInv, Numbers, c, NoDispatcher
  <1>10. Tagged'
    <2> USE DEF NotInv, Tagged
    <2>1. \A u \in Callers : call'[u].op \in {"add", "del"} => call'[u] = call[u]
      BY <1>4 DEF c
    <2>2. \A u \in Adding' : u \in Adding /\ call'[u] = call[u]
      BY <2>1 DEF Adding
    <2>3. \A d \in Listeners : \A l \in holds'[d] : tagOf[l] # NoTag
      BY <1>6
    <2>4. \A l \in removed' : tagOf[l] # NoTag
      BY <1>1, <1>2
    <2> QED
      BY <1>1, <2>1, <2>2, <2>3, <2>4
  <1>11. Promised'
    <2> USE DEF NotInv, Promised
    <2>1. dispatcher # NoDispatcher => sure \subseteq holds'[dispatcher]
      <3> SUFFICES ASSUME dispatcher # NoDispatcher, NEW l \in sure PROVE l \in holds'[dispatcher]
        OBVIOUS
      <3>1. l \in holds[dispatcher] /\ l \in Listeners /\ dispatcher \in Listeners
        BY CurrentIsListener DEF Typed
      <3>2. CASE dispatcher = on
        <4>1. tagOf[l] # tag
          BY <1>1, <3>2 DEF on, tag
        <4> QED
          BY <1>5, <1>7, <3>1, <3>2, <4>1
      <3>3. CASE dispatcher # on
        BY <1>5, <3>1, <3>3
      <3> QED
        BY <3>2, <3>3
    <2>2. Removals(dispatcher)' \subseteq Removals(dispatcher)
      BY <1>1, <1>2, <1>4 DEF Removals, c, on, NoDispatcher
    <2>3. \A u \in Adding' : u \in Adding /\ call'[u] = call[u]
      BY <1>4 DEF Adding, c
    <2>4. ASSUME NEW u \in Callers, call'[u].on = dispatcher
          PROVE  /\ call'[u].op = "del" => \A l \in sure : tagOf[l] # call'[u].tag
                 /\ call'[u].op = "drop" => sure = {}
      <3>1. CASE u = t
        <4>1. dispatcher = on => holds'[dispatcher] = {} \/ c.op = "none"
          BY <1>4
        <4>2. on # NoDispatcher
          BY <1>2 DEF NoDispatcher
        <4> QED
          BY <1>4, <2>1, <2>4, <3>1, <4>1, <4>2 DEF c
      <3>2. CASE u # t
        BY <1>4, <2>4, <3>2
      <3> QED
        BY <3>1, <3>2
    <2> QED
      BY <1>1, <2>1, <2>2, <2>3, <2>4
  <1>12. Due'
    <2> SUFFICES ASSUME NEW u \in Callers
                 PROVE  /\ call'[u].op = "copy" =>
                             /\ call'[u].must \subseteq holds'[call'[u].on]
                             /\ \A v \in Callers : call'[v].op = "del" /\ call'[v].on = call'[u].on =>
                                  \A l \in call'[u].must : tagOf[l] # call'[v].tag
                        /\ call'[u].op = "emit" => call'[u].must \subseteq call'[u].called \cup call'[u].left
                        /\ call'[u].op = "emitted" => call'[u].must \subseteq call'[u].called
      BY <1>1 DEF Due
    <2>1. CASE u = t
      BY <1>4, <2>1 DEF c
    <2>2. CASE u # t
      <3>1. ASSUME call[u].op = "copy", NEW l \in call[u].must PROVE l \in holds'[call[u].on]
        <4>1. call[u].on \in Listeners /\ l \in holds[call[u].on] /\ l \in Listeners
          BY <3>1 DEF NotInv, Typed, Calls, Numbers, Due, Listeners
        <4>2. call[u].on = on => tagOf[l] # tag
          BY <1>1, <3>1 DEF NotInv, Due, on, tag
        <4> QED
          BY <1>5, <1>7, <4>1, <4>2
      <3>2. \A v \in Callers : call'[v].op = "del" => call'[v] = call[v]
        BY <1>4 DEF c
      <3> QED
        BY <1>4, <2>2, <3>1, <3>2 DEF NotInv, Due
    <2> QED
      BY <2>1, <2>2
  <1>13. Gone'
    <2> USE DEF NotInv, Gone
    <2>1. dispatcher # NoDispatcher => holds'[dispatcher] \cap removed' = {}
      <3> SUFFICES ASSUME dispatcher # NoDispatcher, NEW l \in holds'[dispatcher], l \in removed'
                   PROVE  FALSE
        OBVIOUS
      <3>1. dispatcher = next /\ dispatcher \in Listeners /\ l \in holds[dispatcher]
        BY <1>6, CurrentIsListener
      <3>2. l \in gone
        BY <1>1, <3>1
      <3>3. CASE dispatcher = on
        BY <1>2, <1>5, <1>7, <3>2, <3>3
      <3>4. CASE dispatcher # on
        <4>1. dispatcher > on
          BY <1>2, <3>1, <3>4 DEF Listeners
        <4> QED
          BY <1>1, <3>1, <3>2, <4>1 DEF on, gone
      <3> QED
        BY <3>3, <3>4
    <2>2. \A u \in Callers : call'[u].never \subseteq removed'
      BY <1>1, <1>4 DEF c
    <2>3. \A u \in Callers : call'[u].op \in {"del", "copy", "emit", "emitted"} => call'[u] = call[u]
      BY <1>4 DEF c
    <2>4. \A u \in Callers : call'[u].op = "del" =>
            \A d \in Listeners : d > call'[u].on => holds'[d] \cap call'[u].left = {}
      BY <1>6, <2>3
    <2>5. \A u \in Callers : call[u].op = "copy" => call[u].on \in Listeners
      BY DEF Typed, Numbers, Listeners
    <2>6. \A u \in Callers : call'[u].op = "copy" =>
            call'[u].called = {} /\ holds'[call'[u].on] \cap call'[u].never = {}
      BY <1>6, <2>3, <2>5
    <2> QED
      BY <1>1, <2>1, <2>2, <2>3, <2>4, <2>6
  <1> QED
    BY <1>8, <1>9, <1>10, <1>11, <1>12, <1>13 DEF NotInv

LEMMA DelDispatcherKeeps ==
  ASSUME NotInv, NEW t \in Callers, DelDispatcher(t)
  PROVE  NotInv'
  <1> USE NoticeAssumption
  <1>1. /\ call[t].op = "drop" /\ t \in Removals(call[t].on)
        /\ dispatcher' = IF dispatcher = call[t].on THEN NoDispatcher ELSE dispatcher
        /\ UNCHANGED <<next, holds, tagOf, adds, sure, removed>>
    BY DEF DelDispatcher, Removals
  <1>2. /\ call' \in [Callers -> Calls] /\ call'[t] = Idle
        /\ \A u \in Callers : u # t => call'[u] = call[u]
    BY IdleIsIdle DEF DelDispatcher, Sets, NotInv, Typed
  <1>3. Typed' /\ Numbers'
    BY <1>1, <1>2, IdleIsIdle DEF NotInv, Typed, Numbers, NoDispatcher
  <1>4. Tagged'
    BY <1>1, <1>2, IdleIsIdle DEF NotInv, Tagged, Adding
  <1>5. Promised'
    <2> USE DEF NotInv, Promised
    <2>1. dispatcher' = NoDispatcher => sure = {}
      BY <1>1
    <2>2. ASSUME NEW u \in Adding', call'[u].must # {}
          PROVE  /\ call'[u].must = call'[u].left /\ call'[u].on = dispatcher'
                 /\ Removals(dispatcher)' = {}
      <3>1. u # t /\ u \in Adding /\ call'[u] = call[u]
        BY <1>2, <2>2, IdleIsIdle DEF Adding
      <3>2. call[u].on = dispatcher /\ Removals(dispatcher) = {}
        BY <2>2, <3>1
      <3>3. dispatcher' = dispatcher
        BY <1>1, <3>2
      <3>4. Removals(dispatcher)' \subseteq Removals(dispatcher)
        BY <1>2, <3>3, IdleIsIdle DEF Removals
      <3> QED
        BY <2>2, <3>1, <3>2, <3>3, <3>4
    <2>3. ASSUME NEW u \in Callers, call'[u].on = dispatcher', call'[u].op \in {"del", "drop"}
          PROVE  call'[u] = call[u] /\ call[u].on = dispatcher
      <3>1. u # t /\ call'[u] = call[u] /\ call[u].on # NoDispatcher
        BY <1>2, <2>3, IdleIsIdle DEF Numbers, NoDispatcher
      <3> QED
        BY <1>1, <2>3, <3>1
    <2> QED
      BY <1>1, <2>1, <2>2, <2>3
  <1>6. Due'
    BY <1>1, <1>2, IdleIsIdle DEF NotInv, Due
  <1>7. Gone'
    BY <1>1, <1>2, IdleIsIdle DEF NotInv, Gone
  <1> QED
    BY <1>3, <1>4, <1>5, <1>6, <1>7 DEF NotInv

(* delListener(tag) and the emptying of the whole center.                   *)
LEMMA WithdrawnKeeps ==
  ASSUME NotInv, NEW t \in Callers, NEW gone \in SUBSET Listeners, NEW some \in SUBSET Listeners,
         dispatcher # NoDispatcher, call[t].op = "none", Doubt(gone, t, Idle),
         dispatcher' \in {NoDispatcher, dispatcher}, dispatcher' = NoDispatcher => sure' = {},
         holds' \in [Listeners -> SUBSET Listeners],
         \A d \in Listeners : holds'[d] \subseteq holds[d] /\ holds[d] \ gone \subseteq holds'[d],
         dispatcher' # NoDispatcher => holds'[dispatcher] \cap some = {},
         sure' = sure \ gone, removed' = removed \cup some,
         \A l \in some : tagOf[l] # NoTag,
         UNCHANGED <<next, tagOf, adds>>
  PROVE  NotInv'
  <1> USE NoticeAssumption
  <1>1. /\ call' \in [Callers -> Calls] /\ call'[t] = Idle
        /\ \A u \in Callers : u # t =>
             /\ call'[u].op = call[u].op /\ call'[u].on = call[u].on /\ call'[u].tag = call[u].tag
             /\ call'[u].left = call[u].left /\ call'[u].called = call[u].called
             /\ call'[u].never = call[u].never
             /\ call'[u].must \subseteq call[u].must
             /\ call[u].op # "add" => call'[u].must \cap gone = {}
             /\ call[u].op = "add" /\ call[u].on = dispatcher => call'[u].must = {}
    <2> DEFINE c == Idle
    <2>1. Typed /\ Doubt(gone, t, c) /\ gone \in SUBSET Listeners /\ c \in Calls
      BY IdleIsIdle DEF NotInv
    <2>2. c = Idle
      OBVIOUS
    <2> HIDE DEF c
    <2>3. /\ call' \in [Callers -> Calls] /\ call'[t] = c
          /\ \A u \in Callers : u # t =>
               /\ call'[u].op = call[u].op /\ call'[u].on = call[u].on /\ call'[u].tag = call[u].tag
               /\ call'[u].left = call[u].left /\ call'[u].called = call[u].called
               /\ call'[u].never = call[u].never
               /\ call'[u].must \subseteq call[u].must
               /\ call[u].op # "add" => call'[u].must \cap gone = {}
               /\ call[u].op = "add" /\ call[u].on = dispatcher => call'[u].must = {}
      BY ONLY <2>1, DoubtEffect, t \in Callers, ZenonT(30)
    <2> QED
      BY <2>2, <2>3
  <1>2. Typed'
    BY <1>1, CurrentIsListener DEF NotInv, Typed, NoDispatcher
  <1>3. Numbers'
    BY <1>1, IdleIsIdle DEF NotInv, Typed, Numbers, Listeners
  <1>4. Tagged'
    <2> USE DEF NotInv, Tagged
    <2>1. \A u \in Adding' : u \in Adding /\ call'[u].left = call[u].left /\ call'[u].tag = call[u].tag
      BY <1>1, IdleIsIdle DEF Adding
    <2>2. \A u \in Callers : call'[u].op = "del" =>
            call[u].op = "del" /\ call'[u].left = call[u].left /\ call'[u].tag = call[u].tag
      BY <1>1, IdleIsIdle
    <2>3. \A d \in Listeners : \A l \in holds'[d] : tagOf[l] # NoTag
      OBVIOUS
    <2>4. \A l \in removed' : tagOf[l] # NoTag
      OBVIOUS
    <2> QED
      BY <2>1, <2>2, <2>3, <2>4
  <1>5. Promised'
    <2> USE DEF NotInv, Promised
    <2>1. dispatcher' # NoDispatcher => sure' \subseteq holds'[dispatcher']
      BY CurrentIsListener
    <2>2. \A u \in Adding' : call'[u].must = {}
      BY <1>1, IdleIsIdle DEF Adding
    <2>3. ASSUME NEW u \in Callers, call'[u].on = dispatcher', call'[u].op \in {"del", "drop"}
          PROVE  /\ call'[u].op = "del" => \A l \in sure' : tagOf'[l] # call'[u].tag
                 /\ call'[u].op = "drop" => sure' = {}
      <3>1. u # t /\ call[u].on # NoDispatcher
        BY <1>1, <2>3, IdleIsIdle DEF Numbers, NoDispatcher
      <3>2. call[u].on = dispatcher
        BY <1>1, <2>3, <3>1
      <3> QED
        BY <1>1, <2>3, <3>1, <3>2
    <2> QED
      BY <2>1, <2>2, <2>3
  <1>6. Due'
    <2> SUFFICES ASSUME NEW u \in Callers
                 PROVE  /\ call'[u].op = "copy" =>
                             /\ call'[u].must \subseteq holds'[call'[u].on]
                             /\ \A v \in Callers : call'[v].op = "del" /\ call'[v].on = call'[u].on =>
                                  \A l \in call'[u].must : tagOf[l] # call'[v].tag
                        /\ call'[u].op = "emit" => call'[u].must \subseteq call'[u].called \cup call'[u].left
                        /\ call'[u].op = "emitted" => call'[u].must \subseteq call'[u].called
      BY DEF Due
    <2>1. CASE u = t
      BY <1>1, <2>1, IdleIsIdle
    <2>2. CASE u # t
      <3>1. ASSUME call[u].op = "copy", NEW l \in call'[u].must PROVE l \in holds'[call[u].on]
        <4>1. call[u].on \in Listeners /\ l \in holds[call[u].on] /\ l \notin gone
          BY <1>1, <2>2, <3>1 DEF NotInv, Typed, Numbers, Due, Listeners
        <4> QED
          BY <4>1
      <3>2. ASSUME call[u].op = "copy", NEW v \in Callers, call'[v].op = "del",
                   call'[v].on = call'[u].on, NEW l \in call'[u].must
            PROVE  tagOf[l] # call'[v].tag
        <4>1. v # t
          BY <1>1, <3>2, IdleIsIdle
        <4> QED
          BY <1>1, <2>2, <3>2, <4>1 DEF NotInv, Due
      <3> QED
        BY <1>1, <2>2, <3>1, <3>2 DEF NotInv, Due
    <2> QED
      BY <2>1, <2>2
  <1>7. Gone'
    <2> USE DEF NotInv, Gone
    <2>1. dispatcher' # NoDispatcher => holds'[dispatcher'] \cap removed' = {}
      BY CurrentIsListener
    <2>2. \A u \in Callers : call'[u].never \subseteq removed'
      BY <1>1, IdleIsIdle
    <2>3. \A u \in Callers : call'[u].op = "del" =>
            \A d \in Listeners : d > call'[u].on => holds'[d] \cap call'[u].left = {}
      BY <1>1, IdleIsIdle
    <2>4. ASSUME NEW u \in Callers, call'[u].op = "copy"
          PROVE  call'[u].called = {} /\ holds'[call'[u].on] \cap call'[u].never = {}
      <3>1. u # t /\ call[u].op = "copy" /\ call[u].on \in Listeners
        BY <1>1, <2>4, IdleIsIdle DEF Typed, Numbers, Listeners
      <3> QED
        BY <1>1, <3>1
    <2>5. \A u \in Callers :
            /\ call'[u].op = "emit" => (call'[u].left \cup call'[u].called) \cap call'[u].never = {}
            /\ call'[u].op = "emitted" => call'[u].called \cap call'[u].never = {}
      BY <1>1, IdleIsIdle
    <2> QED
      BY <2>1, <2>2, <2>3, <2>4, <2>5
  <1> QED
    BY <1>2, <1>3, <1>4, <1>5, <1>6, <1>7 DEF NotInv

LEMMA DelEverywhereKeeps ==
  ASSUME NotInv, NEW t \in Callers, NEW tag \in Tags, DelEverywhere(t, tag)
  PROVE  NotInv'
  <1>1. With(tag) \in SUBSET Listeners /\ \A l \in With(tag) : tagOf[l] # NoTag
    BY NoticeAssumption DEF With
  <1>2. /\ dispatcher # NoDispatcher /\ call[t].op = "none" /\ Doubt(With(tag), t, Idle)
        /\ holds' = [holds EXCEPT ![dispatcher] = @ \ With(tag)]
        /\ dispatcher' = IF holds'[dispatcher] = {} THEN NoDispatcher ELSE dispatcher
        /\ sure' = sure \ With(tag) /\ removed' = removed \cup With(tag)
        /\ UNCHANGED <<next, tagOf, adds>>
    BY DEF DelEverywhere
  <1>3. dispatcher \in Listeners /\ sure \subseteq holds[dispatcher]
    BY <1>2, CurrentIsListener DEF NotInv, Promised
  <1>4. /\ holds' \in [Listeners -> SUBSET Listeners]
        /\ holds'[dispatcher] = holds[dispatcher] \ With(tag)
        /\ \A d \in Listeners : holds'[d] \subseteq holds[d] /\ holds[d] \ With(tag) \subseteq holds'[d]
    BY <1>2, <1>3 DEF NotInv, Typed
  <1>5. /\ dispatcher' \in {NoDispatcher, dispatcher} /\ dispatcher' = NoDispatcher => sure' = {}
        /\ dispatcher' # NoDispatcher => holds'[dispatcher] \cap With(tag) = {}
    BY <1>2, <1>3, <1>4
  <1> QED
    BY <1>1, <1>2, <1>4, <1>5, WithdrawnKeeps

LEMMA ClearAllKeeps ==
  ASSUME NotInv, NEW t \in Callers, ClearAll(t)
  PROVE  NotInv'
  <1> DEFINE some == {l \in Listeners : tagOf[l] # NoTag}
  <1>1. /\ dispatcher # NoDispatcher /\ call[t].op = "none" /\ Doubt(Listeners, t, Idle)
        /\ dispatcher' = NoDispatcher /\ sure' = {} /\ removed' = removed \cup some
        /\ UNCHANGED <<next, holds, tagOf, adds>>
    BY DEF ClearAll
  <1>2. /\ Listeners \in SUBSET Listeners /\ some \in SUBSET Listeners
        /\ \A l \in some : tagOf[l] # NoTag
        /\ holds' \in [Listeners -> SUBSET Listeners] /\ sure' = sure \ Listeners
        /\ \A d \in Listeners : holds'[d] \subseteq holds[d] /\ holds[d] \ Listeners \subseteq holds'[d]
    BY <1>1 DEF NotInv, Typed
  <1> HIDE DEF some
  <1> QED
    BY <1>1, <1>2, WithdrawnKeeps

(* The steps of an emission change the thread's own call alone.             *)
LEMMA OwnStepKeeps ==
  ASSUME NotInv, NEW t \in Callers, NEW c \in Calls, Sets(t, c),
         UNCHANGED <<dispatcher, next, holds, tagOf, adds, sure, removed>>,
         call[t].op \in {"none", "copy", "emit", "emitted"},
         c.op \in {"none", "copy", "emit", "emitted"}, c.never \subseteq removed,
         c.op = "copy" =>
           /\ c.on \in 1 .. next /\ c.must \subseteq holds[c.on] /\ c.called = {}
           /\ holds[c.on] \cap c.never = {}
           /\ \A u \in Callers : call[u].op = "del" /\ call[u].on = c.on =>
                \A l \in c.must : tagOf[l] # call[u].tag,
         c.op = "emit" => /\ c.must \subseteq c.called \cup c.left
                          /\ (c.left \cup c.called) \cap c.never = {},
         c.op = "emitted" => c.must \subseteq c.called /\ c.called \cap c.never = {}
  PROVE  NotInv'
  <1>1. /\ call' \in [Callers -> Calls] /\ call'[t] = c
        /\ \A u \in Callers : u # t => call'[u] = call[u]
    BY DEF Sets, NotInv, Typed
  <1>2. Typed' /\ Numbers'
    BY <1>1 DEF NotInv, Typed, Numbers
  <1>3. Tagged'
    BY <1>1 DEF NotInv, Tagged, Adding
  <1>4. Removals(dispatcher)' = Removals(dispatcher)
    BY <1>1 DEF Removals
  <1>5. Promised'
    BY <1>1, <1>4 DEF NotInv, Promised, Adding
  <1>6. Due'
    <2>1. \A v \in Callers : call'[v].op = "del" => call'[v] = call[v]
      BY <1>1
    <2> QED
      BY <1>1, <2>1 DEF NotInv, Due
  <1>7. Gone'
    BY <1>1 DEF NotInv, Gone
  <1> QED
    BY <1>2, <1>3, <1>5, <1>6, <1>7 DEF NotInv

LEMMA EmissionKeeps ==
  ASSUME NotInv, NEW t \in Callers,
         EmitEvent(t) \/ CopyListeners(t) \/ CallListener(t) \/ EmitDone(t) \/ EmitReturns(t)
  PROVE  NotInv'
  <1>1. call[t] \in Calls /\ call[t].never \subseteq removed
    BY DEF NotInv, Typed, Gone
  <1>2. CASE EmitEvent(t)
    <2> DEFINE c == [Idle EXCEPT !.op = IF dispatcher = NoDispatcher THEN "emitted" ELSE "copy",
                                 !.on = dispatcher, !.must = sure, !.never = removed]
    <2>1. /\ c \in Calls /\ c.on = dispatcher /\ c.must = sure /\ c.never = removed /\ c.called = {}
          /\ c.op = IF dispatcher = NoDispatcher THEN "emitted" ELSE "copy"
      BY IdleIsIdle DEF Calls, Ops, NotInv, Typed
    <2>2. /\ Sets(t, c) /\ call[t].op = "none"
          /\ UNCHANGED <<dispatcher, next, holds, tagOf, adds, sure, removed>>
      BY <1>2 DEF EmitEvent
    <2> HIDE DEF c
    <2>3. dispatcher = NoDispatcher => sure = {}
      BY DEF NotInv, Promised
    <2>4. dispatcher # NoDispatcher =>
            /\ dispatcher \in 1 .. next /\ sure \subseteq holds[dispatcher]
            /\ holds[dispatcher] \cap removed = {}
            /\ \A u \in Callers : call[u].op = "del" /\ call[u].on = dispatcher =>
                 \A l \in sure : tagOf[l] # call[u].tag
      BY DEF NotInv, Typed, Numbers, Promised, Gone, NoDispatcher
    <2> QED
      BY <2>1, <2>2, <2>3, <2>4, OwnStepKeeps
  <1>3. CASE CopyListeners(t)
    <2> DEFINE c == [call[t] EXCEPT !.op = "emit", !.left = holds[call[t].on]]
    <2>1. /\ Sets(t, c)
          /\ UNCHANGED <<dispatcher, next, holds, tagOf, adds, sure, removed>>
      BY <1>3 DEF CopyListeners
    <2>4. call[t].op = "copy"
      BY <1>3 DEF CopyListeners
    <2>2. /\ holds[call[t].on] \in SUBSET Listeners /\ call[t].called = {}
          /\ call[t].must \subseteq holds[call[t].on] /\ holds[call[t].on] \cap call[t].never = {}
      <3>1. call[t].on \in Listeners
        BY <2>4, NoticeAssumption DEF NotInv, Numbers, Typed, Listeners
      <3> QED
        <4>1. Typed /\ Due /\ Gone
          BY DEF NotInv
        <4>2. holds[call[t].on] \in SUBSET Listeners
          BY <3>1, <4>1 DEF Typed
        <4>3. call[t].must \subseteq holds[call[t].on]
          BY <2>4, <4>1 DEF Due
        <4>4. call[t].called = {} /\ holds[call[t].on] \cap call[t].never = {}
          BY <2>4, <4>1 DEF Gone
        <4> QED
          BY <4>2, <4>3, <4>4
    <2>3. /\ c \in Calls /\ c.op = "emit" /\ c.left = holds[call[t].on] /\ c.must = call[t].must
          /\ c.called = call[t].called /\ c.never = call[t].never
      BY <1>1, <2>2 DEF Calls, Ops
    <2> HIDE DEF c
    <2> QED
      BY <1>1, <2>1, <2>2, <2>3, <2>4, OwnStepKeeps
  <1>4. CASE CallListener(t)
    <2>1. PICK l \in call[t].left, interrupt \in BOOLEAN :
            Sets(t, [call[t] EXCEPT !.called = @ \cup {l},
                                    !.left = IF interrupt THEN {} ELSE @ \ {l},
                                    !.must = IF interrupt THEN {} ELSE @])
      BY <1>4 DEF CallListener
    <2> DEFINE c == [call[t] EXCEPT !.called = @ \cup {l},
                                    !.left = IF interrupt THEN {} ELSE @ \ {l},
                                    !.must = IF interrupt THEN {} ELSE @]
    <2>2. /\ Sets(t, c) /\ call[t].op = "emit"
          /\ UNCHANGED <<dispatcher, next, holds, tagOf, adds, sure, removed>>
      BY <1>4, <2>1 DEF CallListener
    <2>3. /\ call[t].must \subseteq call[t].called \cup call[t].left
          /\ (call[t].left \cup call[t].called) \cap call[t].never = {}
      BY <2>2 DEF NotInv, Due, Gone
    <2>4. /\ c \in Calls /\ c.op = "emit" /\ c.never = call[t].never
          /\ c.called = call[t].called \cup {l}
          /\ c.left = IF interrupt THEN {} ELSE call[t].left \ {l}
          /\ c.must = IF interrupt THEN {} ELSE call[t].must
      BY <1>1, <2>1, <2>2 DEF Calls
    <2> HIDE DEF c
    <2> QED
      BY <1>1, <2>2, <2>3, <2>4, OwnStepKeeps
  <1>5. CASE EmitDone(t)
    <2> DEFINE c == [call[t] EXCEPT !.op = "emitted"]
    <2>1. /\ Sets(t, c) /\ call[t].op = "emit" /\ call[t].left = {}
          /\ UNCHANGED <<dispatcher, next, holds, tagOf, adds, sure, removed>>
      BY <1>5 DEF EmitDone
    <2>2. /\ call[t].must \subseteq call[t].called /\ call[t].called \cap call[t].never = {}
      BY <2>1 DEF NotInv, Due, Gone
    <2>3. /\ c \in Calls /\ c.op = "emitted" /\ c.never = call[t].never
          /\ c.called = call[t].called /\ c.must = call[t].must
      BY <1>1 DEF Calls, Ops
    <2> HIDE DEF c
    <2> QED
      BY <1>1, <2>1, <2>2, <2>3, OwnStepKeeps
  <1>6. CASE EmitReturns(t)
    <2>1. /\ Sets(t, Idle) /\ call[t].op = "emitted"
          /\ UNCHANGED <<dispatcher, next, holds, tagOf, adds, sure, removed>>
      BY <1>6 DEF EmitReturns
    <2> QED
      BY <2>1, IdleIsIdle, OwnStepKeeps
  <1> QED
    BY <1>2, <1>3, <1>4, <1>5, <1>6

LEMMA NotInductive == NotSpec => []NotInv
  <1>1. NotInit => NotInv
    BY InitHolds
  <1>2. NotInv /\ [NotNext]_notVars => NotInv'
    <2> SUFFICES ASSUME NotInv, [NotNext]_notVars PROVE NotInv'
      OBVIOUS
    <2>1. CASE UNCHANGED notVars
      BY <2>1 DEF notVars, NotInv, Typed, Numbers, Tagged, Promised, Due, Gone, Adding, Removals
    <2>2. CASE NotNext
      BY <2>2, AddListenerKeeps, AddToKeeps, DelListenerKeeps, DelFromKeeps, DelDispatcherKeeps,
         DelEverywhereKeeps, ClearAllKeeps, EmissionKeeps DEF NotNext
    <2> QED
      BY <2>1, <2>2
  <1> QED
    BY <1>1, <1>2, PTL DEF NotSpec

(* Whatever other threads add, remove and emit meanwhile, an emission calls *)
(* every listener that is promised to it and none whose removal had ended.  *)
THEOREM ListenersCalled == NotSpec => []ListenersAreCalled
  <1>1. NotInv => ListenersAreCalled
    BY DEF NotInv, Due, Gone, ListenersAreCalled
  <1> QED
    BY <1>1, NotInductive, PTL

-----------------------------------------------------------------------------
(* ResourcePool and SqlPool: LendingSafe.                                   *)

ListTyped ==
  /\ objs \in Seq(Objects) /\ poolSize \in PoolSizes /\ flag \in Threads \cup {NoObject}
  /\ lent \in [Threads -> Objects \cup {NoObject}] /\ stage \in [Threads -> Stages]
  /\ exists \subseteq Objects /\ quits \subseteq Objects

(* Who has an object uses it or puts it back, and who is inside getPtr or   *)
(* recycle has the flag.                                                    *)
UserInv ==
  \A t \in Threads :
    /\ stage[t] \in {"uses", "puts"} <=> lent[t] # NoObject
    /\ stage[t] \in {"gets", "puts"} => flag = t
    /\ stage[t] = "puts" => lent[t] \notin quits

LentInv == ListTyped /\ UserInv /\ LentToOne

(* A reserve under way has copied what is in the list, and nobody has the   *)
(* flag to change it.                                                       *)
ReserveInv ==
  growTo # 0 => copied = objs /\ \A t \in Threads : stage[t] \notin {"gets", "puts"}

Queries == [text : Statements, tryCnt : Nat, as : {"given", "formatted"}]

SqlTyped ==
  /\ jobs \in Seq(Queries) /\ errors \in Seq(Queries)
  /\ job \in [Threads -> Queries \cup {NoJob}]
  /\ issued \in SUBSET Statements /\ failures \in Nat
  /\ tries \in [Statements -> Nat]
  /\ done \in SUBSET [text : Statements, as : {"given", "formatted"}]

(* A connection that failed has quit, and its user has no query.            *)
SpoiltInv ==
  /\ spoilt \subseteq quits
  /\ \A t \in Threads : lent[t] \in spoilt => job[t] = NoJob

(* A statement under way is in one place, was issued and is not done.       *)
Working == {t \in Threads : job[t] # NoJob}

OnePlace ==
  /\ \A i, j \in 1 .. Len(jobs) : jobs[i].text = jobs[j].text => i = j
  /\ \A i, j \in 1 .. Len(errors) : errors[i].text = errors[j].text => i = j
  /\ \A s, t \in Working : job[s].text = job[t].text => s = t
  /\ \A i \in 1 .. Len(jobs), j \in 1 .. Len(errors) : jobs[i].text # errors[j].text
  /\ \A t \in Working : \A i \in 1 .. Len(jobs) : job[t].text # jobs[i].text
  /\ \A t \in Working : \A i \in 1 .. Len(errors) : job[t].text # errors[i].text

(* What is true of each query under way.                                    *)
Pending(q) ==
  /\ q.text \in issued
  /\ \A d \in done : d.text # q.text
  /\ q.as = "formatted" => q.text \in Formats /\ failures > 0

(* The attempts left and those that failed are not less than the count.     *)
Left(q) == q.tryCnt + tries[q.text] >= 3

PendingInv ==
  /\ \A i \in 1 .. Len(jobs) : Pending(jobs[i]) /\ Left(jobs[i])
  /\ \A i \in 1 .. Len(errors) : Pending(errors[i])
  /\ \A t \in Working : Pending(job[t]) /\ (t = Executor => Left(job[t]))
  /\ errors # <<>> => failures > 0

DoneInv ==
  \A d \in done : d.text \in issued /\ (d.as = "formatted" => d.text \in Formats /\ failures > 0)

Under(s) ==
  \/ \E i \in 1 .. Len(jobs) : jobs[i].text = s
  \/ \E i \in 1 .. Len(errors) : errors[i].text = s
  \/ \E t \in Working : job[t].text = s

Found ==
  \A s \in issued : s \in thrown \/ Under(s) \/ tries[s] >= 3 \/ \E d \in done : d.text = s

StatementInv == SqlTyped /\ OnePlace /\ PendingInv /\ DoneInv /\ Found

SqlInv == LentInv /\ SpoiltInv /\ StatementInv

(* Nothing is known once a reserve has raced.                               *)
LendingInv == torn \/ (SqlInv /\ ReserveInv)

-----------------------------------------------------------------------------
(* ResourcePool.                                                            *)

LEMMA FrontIs ==
  ASSUME NEW S, NEW s \in Seq(S), s # <<>>
  PROVE  LET r == SubSeq(s, 1, Len(s) - 1) IN
         /\ r \in Seq(S) /\ Len(r) = Len(s) - 1 /\ DOMAIN r = 1 .. Len(s) - 1
         /\ \A i \in 1 .. Len(s) - 1 : r[i] = s[i]
         /\ Len(s) \in 1 .. Len(s)
  <1> DEFINE r == SubSeq(s, 1, Len(s) - 1)
  <1>1. PICK n \in Nat : n = Len(s) /\ n >= 1
    OBVIOUS
  <1>2. n - 1 \in Nat /\ 1 .. n - 1 \subseteq 1 .. Len(s)
    BY <1>1
  <1>3. r \in Seq(S)
    BY <1>1
  <1>4. Len(r) = n - 1
    BY <1>1, <1>2
  <1>5. \A i \in 1 .. n - 1 : r[i] = s[i]
    BY <1>1, <1>2
  <1>6. DOMAIN r = 1 .. n - 1
    BY <1>3, <1>4
  <1> QED
    BY <1>1, <1>3, <1>4, <1>5, <1>6

LEMMA PutIs ==
  ASSUME NEW S, NEW s \in Seq(S), NEW e \in S
  PROVE  LET r == Append(s, e) IN
         /\ r \in Seq(S) /\ Len(r) = Len(s) + 1 /\ DOMAIN r = 1 .. Len(s) + 1
         /\ \A i \in 1 .. Len(s) : r[i] = s[i]
         /\ r[Len(s) + 1] = e
  OBVIOUS

(* A thread without an object gets a new one.                               *)
LEMMA AllocKeeps ==
  ASSUME LentInv, NEW t \in Threads, stage[t] \in {"idle", "gets"}, Alloc(t),
         UNCHANGED <<objs, poolSize, quits>>, flag' \in {flag, NoObject},
         flag' # flag => stage[t] = "gets"
  PROVE  LentInv' /\ lent'[t] \notin exists /\ \A u \in Threads \ {t} : lent'[u] = lent[u]
  <1> USE ResourcePoolAssumption
  <1> USE DEF LentInv, ListTyped, UserInv
  <1>1. PICK o \in Objects \ exists :
          /\ stage' = [stage EXCEPT ![t] = "uses"] /\ lent' = [lent EXCEPT ![t] = o]
          /\ exists' = exists \cup {o}
    BY DEF Alloc, Uses, Goes
  <1>2. /\ lent[t] = NoObject /\ lent'[t] = o /\ o # NoObject /\ stage'[t] = "uses"
        /\ \A u \in Threads : u # t => lent'[u] = lent[u] /\ stage'[u] = stage[u]
    BY <1>1
  <1>3. Pooled' = Pooled
    BY DEF Pooled
  <1>4. Lent' = Lent \cup {o}
    BY <1>2 DEF Lent
  <1>5. LentToOne'
    <2> USE DEF LentToOne
    <2>1. \A u \in Threads : lent[u] # o
      BY DEF Lent
    <2>2. o \notin Pooled
      BY DEF Lent
    <2>3. \A s, u \in Threads : lent'[s] = lent'[u] => s = u \/ lent'[s] = NoObject
      BY <1>2, <2>1
    <2> QED
      BY <1>1, <1>3, <1>4, <2>2, <2>3
  <1>6. ListTyped'
    BY <1>1 DEF Stages
  <1>7. o \notin quits
    BY DEF LentToOne
  <1>8. UserInv'
    <2>1. ASSUME NEW u \in Threads, u # t
          PROVE  stage[u] \in {"gets", "puts"} => flag' = u
      BY <2>1
    <2> QED
      BY <1>2, <2>1
  <1> QED
    BY <1>2, <1>5, <1>6, <1>8

LEMMA DeleteKeeps ==
  ASSUME LentInv, NEW t \in Threads, stage[t] \in {"uses", "puts"}, DeleteObj(t),
         UNCHANGED <<objs, poolSize>>, flag' \in {flag, NoObject},
         flag' # flag => stage[t] = "puts"
  PROVE  LentInv'
  <1> USE ResourcePoolAssumption
  <1> USE DEF LentInv, ListTyped, UserInv
  <1>1. /\ stage' = [stage EXCEPT ![t] = "idle"] /\ lent' = [lent EXCEPT ![t] = NoObject]
        /\ exists' = exists \ {lent[t]} /\ quits' = quits \ {lent[t]}
    BY DEF DeleteObj, Goes
  <1>2. /\ lent[t] # NoObject /\ lent'[t] = NoObject /\ stage'[t] = "idle"
        /\ \A u \in Threads : u # t => lent'[u] = lent[u] /\ stage'[u] = stage[u]
    BY <1>1
  <1>3. Pooled' = Pooled
    BY DEF Pooled
  <1>4. \A u \in Threads : u # t => lent[u] # lent[t]
    BY <1>2 DEF LentToOne
  <1>5. Lent' = Lent \ {lent[t]}
    BY <1>2, <1>4 DEF Lent
  <1>6. LentToOne'
    <2> USE DEF LentToOne
    <2>1. lent[t] \in Lent /\ lent[t] \notin Pooled
      BY <1>2 DEF Lent
    <2>2. \A s, u \in Threads : lent'[s] = lent'[u] => s = u \/ lent'[s] = NoObject
      BY <1>2
    <2> QED
      BY <1>1, <1>3, <1>5, <2>1, <2>2
  <1>7. ListTyped'
    BY <1>1 DEF Stages
  <1>8. UserInv'
    BY <1>1, <1>2
  <1> QED
    BY <1>6, <1>7, <1>8

(* obtain and getPtr.                                                       *)
LEMMA GetKeeps ==
  ASSUME LentInv, NEW t \in Threads, Obtain(t) \/ GetPtr(t)
  PROVE  /\ LentInv' /\ quits' = quits
         /\ \A u \in Threads \ {t} : lent'[u] = lent[u]
         /\ lent'[t] \notin quits
  <1> USE ResourcePoolAssumption
  <1> USE DEF LentInv, ListTyped, UserInv
  <1>1. /\ stage[t] \in {"idle", "gets"} /\ lent[t] = NoObject /\ NoObject \notin quits
        /\ quits' = quits /\ poolSize' = poolSize
    BY DEF Obtain, GetPtr
  <1>2. quits \subseteq exists /\ quits \cap Pooled = {}
    BY DEF LentToOne
  <1>3. CASE Alloc(t) /\ objs' = objs /\ flag' \in {flag, NoObject}
             /\ (flag' # flag => stage[t] = "gets")
    BY <1>1, <1>2, <1>3, AllocKeeps
  <1>4. CASE /\ stage' = [stage EXCEPT ![t] = IF flag' = t THEN stage'[t] ELSE "idle"]
             /\ stage'[t] \in {"idle", "gets"} /\ (stage'[t] = "gets" => flag' = t)
             /\ flag' = flag \/ (flag = NoObject /\ flag' = t)
             /\ UNCHANGED <<objs, lent, exists>>
    <2>1. stage' \in [Threads -> Stages] /\ \A u \in Threads : u # t => stage'[u] = stage[u]
      BY <1>4 DEF Stages
    <2>2. ListTyped'
      BY <1>1, <1>4, <2>1
    <2>3. UserInv'
      BY <1>1, <1>4, <2>1
    <2>4. Pooled' = Pooled /\ Lent' = Lent /\ UNCHANGED <<objs, lent, exists, quits>>
      BY <1>1, <1>4 DEF Pooled, Lent
    <2>5. LentToOne'
      BY <2>4 DEF LentToOne
    <2> QED
      BY <1>1, <1>4, <2>2, <2>3, <2>5
  <1>5. CASE /\ stage[t] = "gets" /\ objs # <<>> /\ Uses(t, objs[Len(objs)])
             /\ objs' = SubSeq(objs, 1, Len(objs) - 1) /\ flag' = NoObject /\ exists' = exists
    <2> DEFINE n == Len(objs)  o == objs[n]
    <2>1. /\ objs' \in Seq(Objects) /\ Len(objs') = n - 1 /\ DOMAIN objs' = 1 .. n - 1
          /\ \A i \in 1 .. n - 1 : objs'[i] = objs[i]
          /\ n \in 1 .. n /\ DOMAIN objs = 1 .. n
      BY <1>5, FrontIs
    <2>2. o \in Objects /\ o \in Pooled
      BY <2>1 DEF Pooled
    <2>3. /\ stage' = [stage EXCEPT ![t] = "uses"] /\ lent' = [lent EXCEPT ![t] = o]
      BY <1>5 DEF Uses, Goes
    <2>4. n \in Nat
      OBVIOUS
    <2> HIDE DEF n, o
    <2>5. /\ lent'[t] = o /\ o # NoObject /\ stage'[t] = "uses"
          /\ \A u \in Threads : u # t => lent'[u] = lent[u] /\ stage'[u] = stage[u]
      BY <2>2, <2>3
    <2>6. \A i \in 1 .. n : objs[i] = o => i = n
      BY <2>1, <2>4 DEF LentToOne, o
    <2>7. Pooled' = Pooled \ {o}
      <3>1. Pooled = {objs[i] : i \in 1 .. n} /\ Pooled' = {objs[i] : i \in 1 .. n - 1}
        BY <2>1 DEF Pooled
      <3>2. ASSUME NEW i \in 1 .. n - 1 PROVE i \in 1 .. n /\ objs[i] # o
        BY <2>4, <2>6
      <3>3. ASSUME NEW i \in 1 .. n, objs[i] # o PROVE i \in 1 .. n - 1
        BY <2>4, <3>3 DEF o
      <3> QED
        BY <3>1, <3>2, <3>3
    <2>8. Lent' = Lent \cup {o}
      BY <1>1, <2>5 DEF Lent
    <2>9. LentToOne'
      <3> USE DEF LentToOne
      <3>1. \A u \in Threads : lent[u] # o
        BY <2>2, <2>5 DEF Lent
      <3>2. \A s, u \in Threads : lent'[s] = lent'[u] => s = u \/ lent'[s] = NoObject
        BY <2>5, <3>1
      <3>3. \A i, j \in 1 .. n - 1 : objs'[i] = objs'[j] => i = j
        BY <2>1, <2>4
      <3> QED
        BY <1>1, <1>5, <2>1, <2>2, <2>7, <2>8, <3>2, <3>3
    <2>10. ListTyped'
      BY <1>1, <1>5, <2>1, <2>2, <2>3 DEF Stages
    <2>11. UserInv'
      BY <1>1, <1>2, <1>5, <2>2, <2>5
    <2> QED
      BY <1>1, <1>2, <2>2, <2>5, <2>9, <2>10, <2>11
  <1>6. CASE Obtain(t) /\ flag = NoObject
    <2>1. flag' = t /\ stage' = [stage EXCEPT ![t] = "gets"] /\ UNCHANGED <<objs, lent, exists>>
      BY <1>6 DEF Obtain, SetFlag, Goes
    <2> QED
      BY <1>4, <1>6, <2>1
  <1>7. CASE Obtain(t) /\ flag # NoObject
    <2>1. CASE Alloc(t)
      BY <1>3, <1>7, <2>1 DEF Obtain
    <2>2. CASE AllocThrows(t)
      <3>1. /\ stage' = [stage EXCEPT ![t] = "idle"] /\ stage'[t] = "idle" /\ flag' = flag
            /\ UNCHANGED <<objs, lent, exists>>
        BY <1>7, <2>2 DEF Obtain, AllocThrows, Goes
      <3> QED
        BY <1>4, <3>1
    <2> QED
      BY <1>7, <2>1, <2>2 DEF Obtain
  <1>8. CASE GetPtr(t) /\ objs = <<>>
    <2>1. CASE Alloc(t) /\ flag' = NoObject
      BY <1>3, <1>8, <2>1 DEF GetPtr
    <2>2. CASE AllocThrows(t) /\ flag' = flag
      <3>1. /\ stage' = [stage EXCEPT ![t] = "idle"] /\ stage'[t] = "idle"
            /\ UNCHANGED <<objs, lent, exists>>
        BY <1>8, <2>2 DEF GetPtr, AllocThrows, Goes
      <3> QED
        BY <1>4, <2>2, <3>1
    <2> QED
      BY <1>8, <2>1, <2>2 DEF GetPtr
  <1>9. CASE GetPtr(t) /\ objs # <<>>
    BY <1>5, <1>9 DEF GetPtr
  <1> QED
    BY <1>6, <1>7, <1>8, <1>9
(* The deleter and recycle.                                                 *)
LEMMA GiveBackKeeps ==
  ASSUME LentInv, NEW t \in Threads, ReleasePtr(t) \/ Recycle(t)
  PROVE  /\ LentInv'
         /\ \/ exists' = exists /\ quits' = quits /\ lent[t] \notin quits
            \/ exists' = exists \ {lent[t]} /\ quits' = quits \ {lent[t]}
         /\ \A u \in Threads \ {t} : lent'[u] = lent[u]
         /\ lent[t] # NoObject /\ lent'[t] \in {lent[t], NoObject}
  <1> USE ResourcePoolAssumption
  <1> USE DEF LentInv, ListTyped, UserInv
  <1>1. stage[t] \in {"uses", "puts"} /\ lent[t] # NoObject /\ lent[t] \in Objects /\ poolSize' = poolSize
    BY DEF ReleasePtr, Recycle
  <1>2. CASE ReleasePtr(t) /\ flag = NoObject /\ lent[t] \notin quits
    <2>1. /\ flag' = t /\ stage' = [stage EXCEPT ![t] = "puts"]
          /\ UNCHANGED <<objs, lent, exists, quits>>
      BY <1>2 DEF ReleasePtr, SetFlag, Goes
    <2>2. /\ stage' \in [Threads -> Stages] /\ stage'[t] = "puts"
          /\ \A u \in Threads : u # t => stage'[u] = stage[u]
      BY <2>1 DEF Stages
    <2>3. Pooled' = Pooled /\ Lent' = Lent
      BY <2>1 DEF Pooled, Lent
    <2>4. LentToOne'
      BY <2>1, <2>3 DEF LentToOne
    <2>5. ListTyped' /\ UserInv'
      BY <1>1, <1>2, <2>1, <2>2
    <2> QED
      BY <1>1, <1>2, <2>1, <2>4, <2>5
  <1>3. CASE DeleteObj(t) /\ objs' = objs /\ flag' \in {flag, NoObject} /\ (flag' # flag => stage[t] = "puts")
    <2>1. LentInv'
      BY <1>1, <1>3, DeleteKeeps
    <2>2. /\ lent' = [lent EXCEPT ![t] = NoObject]
          /\ exists' = exists \ {lent[t]} /\ quits' = quits \ {lent[t]}
      BY <1>3 DEF DeleteObj
    <2> QED
      BY <1>1, <2>1, <2>2
  <1>4. CASE Recycle(t) /\ ~(Len(objs) >= poolSize)
    <2> DEFINE n == Len(objs)  o == lent[t]
    <2>1. /\ objs' = Append(objs, o) /\ stage' = [stage EXCEPT ![t] = "idle"]
          /\ lent' = [lent EXCEPT ![t] = NoObject] /\ flag' = NoObject
          /\ UNCHANGED <<exists, quits>>
      BY <1>4 DEF Recycle, Goes
    <2>2. /\ objs' \in Seq(Objects) /\ Len(objs') = n + 1 /\ DOMAIN objs' = 1 .. n + 1
          /\ \A i \in 1 .. n : objs'[i] = objs[i]
          /\ objs'[n + 1] = o
      BY <1>1, <2>1, PutIs
    <2>3. n \in Nat /\ DOMAIN objs = 1 .. n
      OBVIOUS
    <2>4. /\ stage' \in [Threads -> Stages] /\ stage'[t] = "idle" /\ lent'[t] = NoObject
          /\ \A u \in Threads : u # t => stage'[u] = stage[u] /\ lent'[u] = lent[u]
      BY <2>1 DEF Stages
    <2>5. stage[t] = "puts" /\ o \notin quits
      BY <1>4 DEF Recycle
    <2>6. o \in Lent /\ o \notin Pooled /\ \A u \in Threads : u # t => lent[u] # o
      BY <1>1 DEF LentToOne, Lent
    <2>7. Lent' = Lent \ {o}
      BY <1>1, <2>4, <2>6 DEF Lent
    <2> HIDE DEF n
    <2>8. Pooled' = Pooled \cup {o}
      <3>1. Pooled = {objs[i] : i \in 1 .. n} /\ Pooled' = {objs'[i] : i \in 1 .. n + 1}
        BY <2>2, <2>3 DEF Pooled
      <3>2. \A i \in 1 .. n : i \in 1 .. n + 1 /\ n + 1 \in 1 .. n + 1
        BY <2>3
      <3>3. \A i \in 1 .. n + 1 : i \in 1 .. n \/ i = n + 1
        BY <2>3
      <3>4. n + 1 \in 1 .. n + 1
        BY <2>3
      <3> QED
        BY <2>2, <3>1, <3>2, <3>3, <3>4
    <2>9. LentToOne'
      <3> USE DEF LentToOne
      <3>1. \A s, u \in Threads : lent'[s] = lent'[u] => s = u \/ lent'[s] = NoObject
        BY <2>4
      <3>2. \A i \in 1 .. n : objs[i] # o
        BY <2>3, <2>6 DEF Pooled
      <3>3. \A i, j \in 1 .. n + 1 : objs'[i] = objs'[j] => i = j
        BY <2>2, <2>3, <3>2, SMTT(30)
      <3>4. exists' = Pooled' \cup Lent' /\ Pooled' \cap Lent' = {} /\ quits' \subseteq Lent'
        BY <2>1, <2>5, <2>6, <2>7, <2>8
      <3> QED
        BY <2>2, <3>1, <3>3, <3>4
    <2>10. ListTyped'
      BY <1>1, <2>1, <2>2, <2>4
    <2>11. UserInv'
      BY <1>1, <2>1, <2>4, <2>5
    <2> QED
      BY <1>1, <2>1, <2>4, <2>5, <2>9, <2>10, <2>11
  <1>5. CASE ReleasePtr(t) /\ ~(flag = NoObject /\ lent[t] \notin quits)
    BY <1>3, <1>5 DEF ReleasePtr
  <1>6. CASE Recycle(t) /\ Len(objs) >= poolSize
    BY <1>3, <1>6 DEF Recycle
  <1> QED
    BY <1>2, <1>4, <1>5, <1>6

LEMMA QuitKeeps ==
  ASSUME LentInv, NEW t \in Threads, Quit(t)
  PROVE  LentInv' /\ quits' = quits \cup {lent[t]} /\ lent' = lent
  <1> USE ResourcePoolAssumption
  <1> USE DEF LentInv, ListTyped, UserInv
  <1>1. /\ stage[t] = "uses" /\ quits' = quits \cup {lent[t]} /\ lent[t] # NoObject /\ lent[t] \in Lent
        /\ UNCHANGED <<objs, poolSize, flag, lent, stage, exists>>
    BY DEF Quit, Lent
  <1>2. Pooled' = Pooled /\ Lent' = Lent
    BY <1>1 DEF Pooled, Lent
  <1>3. LentToOne'
    BY <1>1, <1>2 DEF LentToOne
  <1>4. ListTyped'
    BY <1>1
  <1>5. UserInv'
    BY <1>1 DEF LentToOne
  <1> QED
    BY <1>1, <1>3, <1>4, <1>5

LEMMA PoolSame ==
  ASSUME LentInv, poolSize' \in PoolSizes,
         UNCHANGED <<objs, flag, lent, stage, exists, quits>>
  PROVE  LentInv'
  <1>1. Pooled' = Pooled /\ Lent' = Lent
    BY DEF Pooled, Lent
  <1>2. LentToOne'
    BY <1>1 DEF LentInv, LentToOne
  <1>3. ListTyped' /\ UserInv'
    BY DEF LentInv, ListTyped, UserInv
  <1> QED
    BY <1>2, <1>3 DEF LentInv

-----------------------------------------------------------------------------
(* The statements.                                                          *)

LEMMA RestIs ==
  ASSUME NEW S, NEW s \in Seq(S), s # <<>>
  PROVE  LET r == Tail(s) IN
         /\ r \in Seq(S) /\ Len(r) = Len(s) - 1
         /\ \A i \in 1 .. Len(s) - 1 : r[i] = s[i + 1] /\ i + 1 \in 1 .. Len(s)
         /\ Len(s) >= 1 /\ Head(s) = s[1] /\ Head(s) \in S
  OBVIOUS

LEMMA JoinIs ==
  ASSUME NEW S, NEW s \in Seq(S), NEW q \in Seq(S), NEW r, r = s \o q
  PROVE  /\ r \in Seq(S) /\ Len(r) = Len(s) + Len(q)
         /\ \A i \in 1 .. Len(s) : r[i] = s[i]
         /\ \A i \in 1 .. Len(q) : r[Len(s) + i] = q[i]
  OBVIOUS

LEMMA JobIs ==
  ASSUME NEW s \in Statements, NEW n \in Nat, NEW as \in {"given", "formatted"}
  PROVE  /\ Job(s, n, as) \in Queries /\ Job(s, n, as) # NoJob
         /\ Job(s, n, as).text = s /\ Job(s, n, as).tryCnt = n /\ Job(s, n, as).as = as
  <1>1. Job(s, n, as) \in Queries
    BY DEF Job, Queries
  <1>2. NoJob \notin Queries
    BY SqlAssumption DEF Queries
  <1>3. Job(s, n, as) # NoJob
    BY <1>1, <1>2
  <1>4. Job(s, n, as).text = s /\ Job(s, n, as).tryCnt = n /\ Job(s, n, as).as = as
    BY DEF Job
  <1> QED
    BY <1>1, <1>3, <1>4

LEMMA QueryIsJob ==
  ASSUME SqlTyped, NEW t \in Working
  PROVE  t \in Threads /\ job[t] \in Queries /\ job[t].text \in Statements
         /\ job[t].as \in {"given", "formatted"} /\ job[t].tryCnt \in Nat
  BY DEF SqlTyped, Working, Queries

LEMMA StatementsSame ==
  ASSUME StatementInv, UNCHANGED <<jobs, errors, job, issued, tries, thrown, done, failures>>
  PROVE  StatementInv'
  <1>1. Working' = Working
    BY DEF Working
  <1>2. SqlTyped'
    BY DEF StatementInv, SqlTyped
  <1>3. OnePlace'
    BY <1>1 DEF StatementInv, OnePlace
  <1>4. PendingInv'
    BY <1>1 DEF StatementInv, PendingInv, Pending, Left
  <1>5. DoneInv'
    BY DEF StatementInv, DoneInv
  <1>6. Found'
    BY <1>1 DEF StatementInv, Found, Under
  <1> QED
    BY <1>2, <1>3, <1>4, <1>5, <1>6 DEF StatementInv

LEMMA AsyncQueryKeeps ==
  ASSUME StatementInv, NEW s \in Statements, AsyncQuery(s)
  PROVE  StatementInv'
  <1> USE DEF StatementInv, SqlTyped
  <1> DEFINE q == Job(s, 3, "given")  n == Len(jobs)
  <1>1. /\ s \notin issued /\ issued' = issued \cup {s} /\ jobs' = Append(jobs, q)
        /\ UNCHANGED <<errors, job, tries, thrown, done, failures>>
    BY DEF AsyncQuery
  <1>2. q \in Queries /\ q.text = s /\ q.tryCnt = 3 /\ q.as = "given" /\ tries[s] \in Nat
    BY JobIs
  <1> HIDE DEF q
  <1>3. /\ jobs' \in Seq(Queries) /\ Len(jobs') = n + 1 /\ n \in Nat
        /\ \A i \in 1 .. n : jobs'[i] = jobs[i]
        /\ jobs'[n + 1] = q
    BY <1>1, <1>2, PutIs
  <1>4. \A i \in 1 .. Len(jobs') : i \in 1 .. n \/ i = n + 1
    BY <1>3
  <1>5. Working' = Working
    BY <1>1 DEF Working
  <1> HIDE DEF n
  <1>6. /\ \A i \in 1 .. n : Pending(jobs[i]) /\ Left(jobs[i]) /\ jobs[i].text # s
        /\ \A i \in 1 .. Len(errors) : Pending(errors[i]) /\ errors[i].text # s
        /\ \A t \in Working : Pending(job[t]) /\ job[t].text # s
    BY <1>1 DEF PendingInv, Pending, Left, n
  <1>7. OnePlace'
    <2> HIDE DEF SqlTyped
    <2>1. \A i, j \in 1 .. Len(jobs') : jobs'[i].text = jobs'[j].text => i = j
      <3>1. \A i, j \in 1 .. n : jobs'[i].text = jobs'[j].text => i = j
        BY <1>3 DEF OnePlace, n
      <3>2. \A i \in 1 .. n : jobs'[i].text # jobs'[n + 1].text
        BY <1>2, <1>3, <1>6
      <3> QED
        BY <1>4, <3>1, <3>2
    <2>2. \A i \in 1 .. Len(jobs'), j \in 1 .. Len(errors) : jobs'[i].text # errors[j].text
      BY <1>2, <1>3, <1>4, <1>6 DEF OnePlace, n
    <2>3. \A t \in Working : \A i \in 1 .. Len(jobs') : job[t].text # jobs'[i].text
      BY <1>2, <1>3, <1>4, <1>6 DEF OnePlace, n
    <2>4. /\ \A i, j \in 1 .. Len(errors) : errors[i].text = errors[j].text => i = j
          /\ \A t, u \in Working : job[t].text = job[u].text => t = u
          /\ \A t \in Working : \A i \in 1 .. Len(errors) : job[t].text # errors[i].text
      BY DEF OnePlace
    <2> QED
      BY <1>1, <1>5, <2>1, <2>2, <2>3, <2>4 DEF OnePlace
  <1>8. PendingInv'
    <2>1. \A d \in done : d.text # s
      BY <1>1 DEF DoneInv
    <2>2. ASSUME NEW i \in 1 .. Len(jobs')
          PROVE  Pending(jobs[i])' /\ Left(jobs[i])'
      <3>1. CASE i = n + 1
        <4>1. jobs'[i] = q
          BY <1>3, <3>1
        <4> QED
          BY <1>1, <1>2, <2>1, <4>1 DEF Pending, Left
      <3>2. CASE i \in 1 .. n
        <4>1. Pending(jobs[i]) /\ Left(jobs[i]) /\ jobs'[i] = jobs[i]
          BY <1>3, <1>6, <3>2
        <4> QED
          BY <1>1, <4>1 DEF Pending, Left
      <3> QED
        BY <1>4, <3>1, <3>2
    <2> QED
      BY <1>1, <1>5, <2>2 DEF PendingInv, Pending, Left
  <1>9. DoneInv'
    BY <1>1 DEF DoneInv
  <1>10. Found'
    <2>1. Under(s)'
      BY <1>2, <1>3 DEF Under
    <2>2. \A x : Under(x) => Under(x)'
      BY <1>1, <1>3, <1>5 DEF Under, n
    <2> QED
      BY <1>1, <2>1, <2>2 DEF Found
  <1>11. SqlTyped'
    BY <1>1, <1>3
  <1> QED
    BY <1>7, <1>8, <1>9, <1>10, <1>11

LEMMA SyncQueryKeeps ==
  ASSUME StatementInv, NEW t \in Threads, NEW s \in Statements, SyncQuery(t, s)
  PROVE  StatementInv'
  <1> USE DEF StatementInv, SqlTyped
  <1> DEFINE q == Job(s, 0, "given")
  <1>1. /\ s \notin issued /\ issued' = issued \cup {s} /\ job' = [job EXCEPT ![t] = q]
        /\ t # Executor /\ job[t] = NoJob
        /\ UNCHANGED <<jobs, errors, tries, thrown, done, failures>>
    BY DEF SyncQuery
  <1>2. q \in Queries /\ q.text = s /\ q.as = "given" /\ q # NoJob
    BY JobIs
  <1> HIDE DEF q
  <1>3. /\ job' \in [Threads -> Queries \cup {NoJob}] /\ job'[t] = q
        /\ \A u \in Threads : u # t => job'[u] = job[u]
    BY <1>1, <1>2
  <1>4. Working' = Working \cup {t} /\ t \notin Working /\ Working \subseteq Threads
    BY <1>1, <1>2, <1>3 DEF Working
  <1>5. /\ \A i \in 1 .. Len(jobs) : Pending(jobs[i]) /\ Left(jobs[i]) /\ jobs[i].text # s
        /\ \A i \in 1 .. Len(errors) : Pending(errors[i]) /\ errors[i].text # s
        /\ \A u \in Working : Pending(job[u]) /\ job[u].text # s
    BY <1>1 DEF PendingInv, Pending, Left
  <1>6. OnePlace'
    <2>1. \A u, v \in Working' : job'[u].text = job'[v].text => u = v
      BY <1>2, <1>3, <1>4, <1>5 DEF OnePlace
    <2>2. \A u \in Working' : \A i \in 1 .. Len(jobs) : job'[u].text # jobs[i].text
      BY <1>2, <1>3, <1>4, <1>5 DEF OnePlace
    <2>3. \A u \in Working' : \A i \in 1 .. Len(errors) : job'[u].text # errors[i].text
      BY <1>2, <1>3, <1>4, <1>5 DEF OnePlace
    <2> QED
      BY <1>1, <2>1, <2>2, <2>3 DEF OnePlace
  <1>7. PendingInv'
    <2>1. ASSUME NEW u \in Working'
          PROVE  Pending(job[u])' /\ (u = Executor => Left(job[u])')
      <3>1. CASE u = t
        BY <1>1, <1>2, <1>3, <3>1 DEF Pending, Left, DoneInv
      <3>2. CASE u # t
        BY <1>1, <1>3, <1>4, <3>2 DEF Pending, Left, PendingInv
      <3> QED
        BY <3>1, <3>2
    <2> QED
      BY <1>1, <2>1 DEF PendingInv, Pending, Left
  <1>8. DoneInv'
    BY <1>1 DEF DoneInv
  <1>9. Found'
    <2>1. Under(s)'
      BY <1>2, <1>3, <1>4 DEF Under
    <2>2. \A x : Under(x) => Under(x)'
      BY <1>1, <1>3, <1>4 DEF Under
    <2> QED
      BY <1>1, <2>1, <2>2 DEF Found
  <1>10. SqlTyped'
    BY <1>1, <1>3
  <1> QED
    BY <1>6, <1>7, <1>8, <1>9, <1>10

LEMMA RunJobKeeps ==
  ASSUME StatementInv, RunJob
  PROVE  StatementInv'
  <1> USE SqlAssumption DEF StatementInv, SqlTyped
  <1> DEFINE t == Executor  q == Head(jobs)  n == Len(jobs)
  <1>1. /\ job[t] = NoJob /\ job' = [job EXCEPT ![t] = q] /\ jobs' = Tail(jobs) /\ jobs # <<>>
        /\ UNCHANGED <<errors, issued, tries, thrown, done, failures>>
    BY DEF RunJob
  <1>2. /\ jobs' \in Seq(Queries) /\ Len(jobs') = n - 1 /\ n \in Nat /\ n >= 1
        /\ \A i \in 1 .. n - 1 : jobs'[i] = jobs[i + 1] /\ i + 1 \in 1 .. n
        /\ q = jobs[1] /\ q \in Queries
    BY <1>1, RestIs
  <1>3. q # NoJob /\ t \in Threads
    BY <1>2 DEF Queries
  <1> HIDE DEF q, t
  <1>4. /\ job' \in [Threads -> Queries \cup {NoJob}] /\ job'[t] = q
        /\ \A u \in Threads : u # t => job'[u] = job[u]
    BY <1>1, <1>2, <1>3
  <1>5. Working' = Working \cup {t} /\ t \notin Working /\ Working \subseteq Threads
    BY <1>1, <1>3, <1>4 DEF Working
  <1>6. 1 \in 1 .. n /\ \A i \in 1 .. n - 1 : i + 1 # 1
    BY <1>2
  <1> HIDE DEF n
  <1>7. OnePlace'
    <2> HIDE DEF SqlTyped
    <2> USE DEF n, OnePlace
    <2>1. \A i, j \in 1 .. n - 1 : jobs'[i].text = jobs'[j].text => i = j
      <3>1. ASSUME NEW i \in 1 .. n - 1, NEW j \in 1 .. n - 1, jobs'[i].text = jobs'[j].text
            PROVE  i = j
        <4>1. i + 1 = j + 1
          BY <1>2, <3>1
        <4> QED
          BY <4>1
      <3> QED
        BY <3>1
    <2>2. \A i \in 1 .. n - 1 : \A j \in 1 .. Len(errors) : jobs'[i].text # errors[j].text
      BY <1>2
    <2>3. \A u, v \in Working' : job'[u].text = job'[v].text => u = v
      BY <1>2, <1>4, <1>5, <1>6
    <2>4. \A u \in Working' : \A i \in 1 .. n - 1 : job'[u].text # jobs'[i].text
      <3>1. ASSUME NEW u \in Working', NEW i \in 1 .. n - 1
            PROVE  job'[u].text # jobs'[i].text
        <4>1. jobs'[i] = jobs[i + 1] /\ i + 1 \in 1 .. n /\ i + 1 # 1 /\ 1 \in 1 .. n
          BY <1>2, <1>6
        <4>2. CASE u = t
          BY <1>2, <1>4, <4>1, <4>2
        <4>3. CASE u # t
          <5>1. u \in Working /\ job'[u] = job[u]
            BY <1>4, <1>5, <4>3
          <5> QED
            BY <4>1, <5>1
        <4> QED
          BY <4>2, <4>3
      <3> QED
        BY <3>1
    <2>5. \A u \in Working' : \A i \in 1 .. Len(errors) : job'[u].text # errors[i].text
      BY <1>2, <1>4, <1>5, <1>6
    <2> QED
      BY <1>1, <1>2, <2>1, <2>2, <2>3, <2>4, <2>5
  <1>8. PendingInv'
    <2>1. \A i \in 1 .. n : Pending(jobs[i]) /\ Left(jobs[i])
      BY DEF PendingInv, n
    <2>2. \A u \in Working' : Pending(job'[u]) /\ (u = Executor => Left(job'[u]))
      <3>1. ASSUME NEW u \in Working'
            PROVE  Pending(job'[u]) /\ (u = Executor => Left(job'[u]))
        <4>1. CASE u = t
          BY <1>2, <1>4, <1>6, <2>1, <4>1
        <4>2. CASE u # t
          <5>1. u \in Working /\ job'[u] = job[u] /\ u # Executor
            BY <1>4, <1>5, <4>2 DEF t
          <5> QED
            BY <5>1 DEF PendingInv
        <4> QED
          BY <4>1, <4>2
      <3> QED
        BY <3>1
    <2>3. \A i \in 1 .. n - 1 : Pending(jobs'[i]) /\ Left(jobs'[i])
      BY <1>2, <2>1
    <2> QED
      BY <1>1, <1>2, <2>2, <2>3 DEF PendingInv, Pending, Left
  <1>9. DoneInv'
    BY <1>1 DEF DoneInv
  <1>10. Found'
    <2>1. ASSUME NEW x, Under(x) PROVE Under(x)'
      <3>1. CASE \E i \in 1 .. n : jobs[i].text = x
        <4>1. PICK i \in 1 .. n : jobs[i].text = x
          BY <3>1
        <4>2. CASE i = 1
          BY <1>2, <1>4, <1>5, <4>1, <4>2 DEF Under
        <4>3. CASE i # 1
          <5>1. i - 1 \in 1 .. n - 1 /\ jobs'[i - 1] = jobs[i]
            BY <1>2, <4>3
          <5> QED
            BY <1>2, <4>1, <5>1 DEF Under
        <4> QED
          BY <4>2, <4>3
      <3>2. CASE \E i \in 1 .. Len(errors) : errors[i].text = x
        BY <1>1, <3>2 DEF Under
      <3>3. CASE \E u \in Working : job[u].text = x
        BY <1>4, <1>5, <3>3 DEF Under
      <3> QED
        BY <2>1, <3>1, <3>2, <3>3 DEF Under, n
    <2> QED
      BY <1>1, <2>1 DEF Found
  <1>11. SqlTyped'
    BY <1>1, <1>2, <1>4
  <1> QED
    BY <1>7, <1>8, <1>9, <1>10, <1>11

(* A thread ends its query: what the others have stays.                     *)
LEMMA EndedIs ==
  ASSUME StatementInv, NEW t \in Working, job' = [job EXCEPT ![t] = NoJob]
  PROVE  /\ t \in Threads /\ job' \in [Threads -> Queries \cup {NoJob}]
         /\ Working' = Working \ {t}
         /\ \A u \in Working' : job'[u] = job[u] /\ job[u].text # job[t].text
  <1> USE DEF StatementInv, SqlTyped
  <1>1. t \in Threads /\ job' \in [Threads -> Queries \cup {NoJob}] /\ job'[t] = NoJob
        /\ \A u \in Threads : u # t => job'[u] = job[u]
    BY DEF Working
  <1>2. Working' = Working \ {t} /\ Working \subseteq Threads
    BY <1>1 DEF Working
  <1>3. \A u \in Working : u # t => job[u].text # job[t].text
    BY DEF OnePlace
  <1> QED
    BY <1>1, <1>2, <1>3

LEMMA FewerTries ==
  ASSUME NEW q \in Queries, q.tryCnt - 1 > 0
  PROVE  LET e == [q EXCEPT !.tryCnt = @ - 1] IN
         e \in Queries /\ e.text = q.text /\ e.as = q.as
  <1> DEFINE e == [q EXCEPT !.tryCnt = @ - 1]
  <1>1. PICK n \in Nat : n = q.tryCnt - 1
    BY DEF Queries
  <1>2. e = [q EXCEPT !.tryCnt = n]
    BY <1>1
  <1>3. [q EXCEPT !.tryCnt = n] \in Queries
    BY DEF Queries
  <1>4. [q EXCEPT !.tryCnt = n].text = q.text /\ [q EXCEPT !.tryCnt = n].as = q.as
    BY DEF Queries
  <1> QED
    BY <1>2, <1>3, <1>4

LEMMA ThrownKeeps ==
  ASSUME StatementInv, NEW t \in Working, Thrown(t), UNCHANGED Rest
  PROVE  StatementInv'
  <1> USE SqlAssumption DEF StatementInv, SqlTyped
  <1> DEFINE q == job[t]  e == [q EXCEPT !.tryCnt = @ - 1]  n == Len(errors)
  <1>1. /\ failures' = failures + 1 /\ job' = [job EXCEPT ![t] = NoJob]
        /\ UNCHANGED <<jobs, issued, done>>
    BY DEF Thrown, Failed, Rest
  <1>2. /\ t \in Threads /\ job' \in [Threads -> Queries \cup {NoJob}]
        /\ Working' = Working \ {t}
        /\ \A u \in Working' : job'[u] = job[u] /\ job[u].text # q.text
    BY <1>1, EndedIs
  <1>3. q \in Queries /\ Pending(q) /\ q.text \in Statements
    BY QueryIsJob DEF PendingInv
  <1>4. failures' \in Nat /\ failures' > 0 /\ \A x : Pending(x) => Pending(x)'
    BY <1>1 DEF Pending
  <1>5. DoneInv'
    BY <1>1, <1>4 DEF DoneInv
  <1>11. /\ tries' \in [Statements -> Nat] /\ tries'[q.text] = tries[q.text] + 1
         /\ \A x \in Statements : tries'[x] >= tries[x]
    <2>1. tries' = [tries EXCEPT ![q.text] = @ + 1]
      BY DEF Thrown, Failed
    <2> HIDE DEF q
    <2> QED
      BY <1>3, <2>1
  <1>12. \A x \in Queries : Left(x) => Left(x)'
    BY <1>11 DEF Left, Queries
  <1>16. \A x \in Statements : tries[x] >= 3 => tries'[x] >= 3
    BY <1>11
  <1>13. (\A i \in 1 .. Len(jobs) : jobs[i] \in Queries) /\ \A u \in Working' : job'[u] \in Queries
    BY <1>2 DEF Working
  <1>6. \A u \in Working' : Pending(job'[u]) /\ (u = Executor => Left(job'[u]))
    BY <1>2 DEF PendingInv
  <1>7. \A i \in 1 .. Len(jobs) : Pending(jobs[i]) /\ Left(jobs[i])
    BY DEF PendingInv
  <1>14. /\ \A i \in 1 .. Len(jobs) : (Pending(jobs[i]) /\ Left(jobs[i]))'
         /\ \A u \in Working' : Pending(job[u])' /\ (u = Executor => Left(job[u])')
    <2>1. jobs' = jobs
      BY <1>1
    <2>2. ASSUME NEW i \in 1 .. Len(jobs) PROVE (Pending(jobs[i]) /\ Left(jobs[i]))'
      <3>1. PICK x \in Queries : x = jobs[i]
        BY <1>13
      <3>2. Pending(x)' /\ Left(x)'
        BY <1>4, <1>7, <1>12, <3>1
      <3> QED
        BY <2>1, <3>1, <3>2 DEF Pending, Left
    <2>3. ASSUME NEW u \in Working' PROVE Pending(job[u])' /\ (u = Executor => Left(job[u])')
      <3>1. PICK x \in Queries : x = job'[u]
        BY <1>13
      <3>2. Pending(x)' /\ (u = Executor => Left(x)')
        BY <1>4, <1>6, <1>12, <3>1
      <3> QED
        BY <3>1, <3>2 DEF Pending, Left
    <2> QED
      BY <2>2, <2>3
  <1>8. /\ \A u, v \in Working' : job'[u].text = job'[v].text => u = v
        /\ \A u \in Working' : \A i \in 1 .. Len(jobs) : job'[u].text # jobs[i].text
        /\ \A u \in Working' : \A i \in 1 .. Len(errors) : job'[u].text # errors[i].text
    BY <1>2 DEF OnePlace
  <1>9. CASE t # Executor
    <2>1. thrown' = thrown \cup {q.text} /\ errors' = errors
      BY <1>9 DEF Thrown
    <2>2. OnePlace'
      <3>1. /\ \A i, j \in 1 .. Len(jobs) : jobs[i].text = jobs[j].text => i = j
            /\ \A i, j \in 1 .. Len(errors) : errors[i].text = errors[j].text => i = j
            /\ \A i \in 1 .. Len(jobs), j \in 1 .. Len(errors) : jobs[i].text # errors[j].text
        BY DEF OnePlace
      <3>2. jobs' = jobs
        BY <1>1
      <3> HIDE DEF StatementInv, SqlTyped, q, n
      <3> QED
        BY <1>8, <2>1, <3>1, <3>2 DEF OnePlace
    <2>3. PendingInv'
      <3>1. \A i \in 1 .. Len(errors) : Pending(errors[i])
        BY DEF PendingInv
      <3> QED
        BY <1>1, <1>4, <1>14, <2>1, <3>1 DEF PendingInv
    <2>4. Found'
      <3>1. \A x : Under(x) => Under(x)' \/ x = q.text
        BY <1>1, <1>2, <2>1 DEF Under
      <3> QED
        BY <1>1, <1>16, <2>1, <3>1 DEF Found
    <2> QED
      BY <1>1, <1>2, <1>4, <1>5, <1>11, <2>1, <2>2, <2>3, <2>4
  <1>15. CASE t = Executor /\ ~(q.tryCnt - 1 > 0)
    <2>1. errors' = errors /\ thrown' = thrown
      BY <1>15 DEF Thrown
    <2>2. OnePlace'
      <3>1. /\ \A i, j \in 1 .. Len(jobs) : jobs[i].text = jobs[j].text => i = j
            /\ \A i, j \in 1 .. Len(errors) : errors[i].text = errors[j].text => i = j
            /\ \A i \in 1 .. Len(jobs), j \in 1 .. Len(errors) : jobs[i].text # errors[j].text
        BY DEF OnePlace
      <3>2. jobs' = jobs
        BY <1>1
      <3> HIDE DEF StatementInv, SqlTyped, q, n
      <3> QED
        BY <1>8, <2>1, <3>1, <3>2 DEF OnePlace
    <2>3. PendingInv'
      <3>1. \A i \in 1 .. Len(errors) : Pending(errors[i])
        BY DEF PendingInv
      <3> QED
        BY <1>1, <1>4, <1>14, <2>1, <3>1 DEF PendingInv
    <2>4. Found'
      <3>1. \A x : Under(x) => Under(x)' \/ x = q.text
        BY <1>1, <1>2, <2>1 DEF Under
      <3>2. tries'[q.text] >= 3
        <4>1. Left(q) /\ q.tryCnt \in Nat /\ tries[q.text] \in Nat
          BY <1>3, <1>15 DEF PendingInv, Queries
        <4> QED
          BY <1>11, <1>15, <4>1 DEF Left
      <3> QED
        BY <1>1, <1>16, <2>1, <3>1, <3>2 DEF Found
    <2> QED
      BY <1>1, <1>2, <1>4, <1>5, <1>11, <2>1, <2>2, <2>3, <2>4
  <1>10. CASE t = Executor /\ q.tryCnt - 1 > 0
    <2>1. q.tryCnt - 1 > 0
      BY <1>10
    <2>2. errors' = Append(errors, e) /\ thrown' = thrown
      BY <1>10, <2>1 DEF Thrown
    <2>3. e \in Queries /\ e.text = q.text /\ e.as = q.as
      BY <1>3, <2>1, FewerTries
    <2>4. Pending(e)
      BY <1>3, <2>3 DEF Pending, Left
    <2> HIDE DEF e, q
    <2>5. /\ errors' \in Seq(Queries) /\ Len(errors') = n + 1 /\ n \in Nat
          /\ \A i \in 1 .. n : errors'[i] = errors[i]
          /\ errors'[n + 1] = e
      BY <2>2, <2>3, PutIs
    <2>6. \A i \in 1 .. n + 1 : i \in 1 .. n \/ i = n + 1
      BY <2>5
    <2> HIDE DEF n
    <2>7. OnePlace'
      <3> HIDE DEF SqlTyped
      <3>1. \A i, j \in 1 .. n + 1 : errors'[i].text = errors'[j].text => i = j
        <4>1. \A i, j \in 1 .. n : errors'[i].text = errors'[j].text => i = j
          BY <2>5 DEF OnePlace, n
        <4>2. \A i \in 1 .. n : errors'[i].text # errors'[n + 1].text
          BY <2>3, <2>5 DEF OnePlace, n, q
        <4> QED
          BY <2>6, <4>1, <4>2
      <3>2. \A i \in 1 .. Len(jobs) : \A j \in 1 .. n + 1 : jobs[i].text # errors'[j].text
        BY <2>3, <2>5, <2>6 DEF OnePlace, n, q
      <3>3. \A u \in Working' : \A i \in 1 .. n + 1 : job'[u].text # errors'[i].text
        <4>1. \A u \in Working' : \A i \in 1 .. n : job'[u].text # errors'[i].text
          BY <1>8, <2>5 DEF n
        <4>2. \A u \in Working' : job'[u].text # errors'[n + 1].text
          BY <1>2, <2>3, <2>5
        <4> QED
          BY <2>6, <4>1, <4>2
      <3> QED
        BY <1>1, <1>8, <2>5, <3>1, <3>2, <3>3 DEF OnePlace
    <2>8. PendingInv'
      <3>1. \A i \in 1 .. n + 1 : Pending(errors'[i])
        BY <2>4, <2>5, <2>6 DEF PendingInv, n
      <3> QED
        BY <1>1, <1>4, <1>14, <2>5, <3>1 DEF PendingInv, Pending
    <2>9. Found'
      <3>1. \A i \in 1 .. n : i \in 1 .. n + 1
        BY <2>5
      <3>2. n + 1 \in 1 .. n + 1
        BY <2>5
      <3>3. \A x : Under(x) => Under(x)' \/ x = q.text
        BY <1>1, <1>2, <2>5, <3>1 DEF Under, n, q
      <3>4. \A x : x = q.text => Under(x)'
        BY <2>3, <2>5, <3>2 DEF Under
      <3> QED
        BY <1>1, <1>16, <2>2, <3>3, <3>4 DEF Found
    <2> QED
      BY <1>1, <1>2, <1>4, <1>5, <1>11, <2>5, <2>7, <2>8, <2>9
  <1> QED
    BY <1>9, <1>10, <1>15

LEMMA SucceededKeeps ==
  ASSUME StatementInv, NEW t \in Working, job' = [job EXCEPT ![t] = NoJob],
         done' = done \cup {[text |-> job[t].text, as |-> job[t].as]},
         UNCHANGED <<jobs, errors, issued, tries, thrown, failures>>
  PROVE  StatementInv'
  <1> USE DEF StatementInv, SqlTyped
  <1> DEFINE q == job[t]  d == [text |-> q.text, as |-> q.as]
  <1>1. /\ t \in Threads /\ job' \in [Threads -> Queries \cup {NoJob}]
        /\ Working' = Working \ {t}
        /\ \A u \in Working' : job'[u] = job[u] /\ job[u].text # q.text
    BY EndedIs
  <1>2. /\ q.text \in Statements /\ q.as \in {"given", "formatted"} /\ Pending(q)
    BY QueryIsJob DEF PendingInv
  <1>3. /\ d \in [text : Statements, as : {"given", "formatted"}]
        /\ d.text = q.text /\ d.as = q.as
    BY <1>2
  <1>4. done' = done \cup {d}
    OBVIOUS
  <1> HIDE DEF d, q
  <1>5. OnePlace'
    BY <1>1 DEF OnePlace
  <1>6. PendingInv'
    <2>1. \A x : Pending(x) /\ x.text # q.text => Pending(x)'
      BY <1>3, <1>4 DEF Pending, Left
    <2>2. /\ \A i \in 1 .. Len(jobs) : jobs[i].text # q.text /\ Pending(jobs[i]) /\ Left(jobs[i])
          /\ \A i \in 1 .. Len(errors) : errors[i].text # q.text /\ Pending(errors[i])
      BY DEF OnePlace, PendingInv, q
    <2>3. /\ \A i \in 1 .. Len(jobs) : Pending(jobs[i])' /\ Left(jobs[i])'
          /\ \A i \in 1 .. Len(errors) : Pending(errors[i])'
      BY <1>3, <1>4, <2>2 DEF Pending, Left
    <2>4. \A u \in Working' : Pending(job[u])' /\ (u = Executor => Left(job[u])')
      BY <1>1, <1>3, <1>4 DEF Pending, Left, PendingInv
    <2> QED
      BY <2>3, <2>4 DEF PendingInv
  <1>7. DoneInv'
    BY <1>2, <1>3, <1>4 DEF DoneInv, Pending, Left
  <1>8. Found'
    <2>1. \A x : Under(x) => Under(x)' \/ x = q.text
      BY <1>1 DEF Under, q
    <2> QED
      BY <1>3, <1>4, <2>1 DEF Found
  <1> QED
    BY <1>1, <1>3, <1>4, <1>5, <1>6, <1>7, <1>8

LEMMA FlushErrorKeeps ==
  ASSUME StatementInv, FlushError
  PROVE  StatementInv'
  <1> USE DEF StatementInv, SqlTyped
  <1> DEFINE f == [i \in DOMAIN errors |-> Job(errors[i].text, 3, Formatted(errors[i]))]
             n == Len(jobs)  m == Len(errors)
  <1>1. /\ jobs' = jobs \o f /\ errors' = <<>> /\ errors # <<>>
        /\ UNCHANGED <<job, issued, tries, thrown, done, failures>>
    BY DEF FlushError
  <1>2. DOMAIN errors = 1 .. m /\ m \in Nat /\ n \in Nat
    OBVIOUS
  <1>3. ASSUME NEW i \in 1 .. m
        PROVE  /\ f[i] \in Queries /\ f[i].text = errors[i].text /\ Left(f[i])
               /\ Pending(f[i])
    <2>1. errors[i] \in Queries /\ Pending(errors[i]) /\ failures > 0
      BY <1>1 DEF PendingInv
    <2>2. /\ errors[i].text \in Statements /\ Formatted(errors[i]) \in {"given", "formatted"}
          /\ tries[errors[i].text] \in Nat
      BY <2>1 DEF Queries, Formatted
    <2>3. f[i] = Job(errors[i].text, 3, Formatted(errors[i]))
      BY <1>2
    <2>4. /\ f[i] \in Queries /\ f[i].text = errors[i].text /\ f[i].tryCnt = 3
          /\ f[i].as = Formatted(errors[i])
      BY <2>2, <2>3, JobIs
    <2> QED
      BY <2>1, <2>2, <2>4 DEF Pending, Left, Formatted
  <1>4. f \in Seq(Queries) /\ Len(f) = m
    <2>1. f \in [1 .. m -> Queries]
      BY <1>2, <1>3
    <2> QED
      BY <1>2, <2>1
  <1> HIDE DEF f
  <1>5. /\ jobs' \in Seq(Queries) /\ Len(jobs') = n + m
        /\ \A i \in 1 .. n : jobs'[i] = jobs[i]
        /\ \A i \in 1 .. m : jobs'[n + i] = f[i]
        /\ \A i \in 1 .. n + m : i \in 1 .. n \/ (i - n \in 1 .. m /\ jobs'[i] = f[i - n])
    <2>1. /\ jobs' \in Seq(Queries) /\ Len(jobs') = Len(jobs) + Len(f)
          /\ \A i \in 1 .. Len(jobs) : jobs'[i] = jobs[i]
          /\ \A i \in 1 .. Len(f) : jobs'[Len(jobs) + i] = f[i]
      <3>1. PICK q \in Seq(Queries) : q = f
        BY <1>4
      <3>2. PICK js \in Seq(Queries) : js = jobs
        OBVIOUS
      <3>3. PICK r : r = jobs'
        OBVIOUS
      <3>4. r = js \o q
        BY <1>1, <3>1, <3>2, <3>3
      <3>5. /\ r \in Seq(Queries) /\ Len(r) = Len(js) + Len(q)
            /\ \A i \in 1 .. Len(js) : r[i] = js[i]
            /\ \A i \in 1 .. Len(q) : r[Len(js) + i] = q[i]
        BY <3>4, JoinIs
      <3> QED
        BY <3>1, <3>2, <3>3, <3>5
    <2>2. /\ jobs' \in Seq(Queries) /\ Len(jobs') = n + m
          /\ \A i \in 1 .. n : jobs'[i] = jobs[i]
          /\ \A i \in 1 .. m : jobs'[n + i] = f[i]
      BY <1>4, <2>1
    <2> HIDE DEF n, m
    <2>3. ASSUME NEW i \in 1 .. n + m
          PROVE  i \in 1 .. n \/ (i - n \in 1 .. m /\ jobs'[i] = f[i - n])
      <3>1. i \in 1 .. n \/ (i - n \in 1 .. m /\ i = n + (i - n))
        BY <1>2
      <3> QED
        BY <2>2, <3>1
    <2> QED
      BY <2>2, <2>3
  <1>6. Working' = Working
    BY <1>1 DEF Working
  <1>7. errors' \in Seq(Queries) /\ Len(errors') = 0
    BY <1>1
  <1> HIDE DEF n, m
  <1>8. OnePlace'
    <2> USE DEF OnePlace
    <2>1. ASSUME NEW i \in 1 .. n + m, NEW j \in 1 .. n + m, jobs'[i].text = jobs'[j].text
          PROVE  i = j
      <3>1. i \in 1 .. n \/ (i - n \in 1 .. m /\ jobs'[i] = f[i - n])
        BY <1>5
      <3>2. j \in 1 .. n \/ (j - n \in 1 .. m /\ jobs'[j] = f[j - n])
        BY <1>5
      <3>3. \A k \in 1 .. n : \A l \in 1 .. m : jobs[k].text # f[l].text
        BY <1>3 DEF n, m
      <3>4. CASE i \in 1 .. n /\ j \in 1 .. n
        BY <1>5, <2>1, <3>4 DEF n
      <3>5. CASE i \in 1 .. n /\ j - n \in 1 .. m /\ jobs'[j] = f[j - n]
        BY <1>5, <2>1, <3>3, <3>5
      <3>6. CASE j \in 1 .. n /\ i - n \in 1 .. m /\ jobs'[i] = f[i - n]
        BY <1>5, <2>1, <3>3, <3>6
      <3>7. CASE /\ i - n \in 1 .. m /\ jobs'[i] = f[i - n]
                 /\ j - n \in 1 .. m /\ jobs'[j] = f[j - n]
        <4>1. errors[i - n].text = errors[j - n].text
          BY <1>3, <2>1, <3>7
        <4>2. i - n = j - n
          BY <3>7, <4>1 DEF m
        <4> QED
          BY <1>2, <4>2
      <3> QED
        BY <3>1, <3>2, <3>4, <3>5, <3>6, <3>7
    <2>2. ASSUME NEW u \in Working, NEW i \in 1 .. n + m
          PROVE  job[u].text # jobs'[i].text
      <3>1. CASE i \in 1 .. n
        <4>1. jobs'[i] = jobs[i]
          BY <1>5, <3>1
        <4>2. i \in 1 .. Len(jobs)
          BY <3>1 DEF n
        <4>3. job[u].text # jobs[i].text
          BY <1>1, <4>2
        <4> QED
          BY <4>1, <4>3
      <3>2. CASE i - n \in 1 .. m /\ jobs'[i] = f[i - n]
        BY <1>3, <3>2 DEF m
      <3>3. i \in 1 .. n \/ (i - n \in 1 .. m /\ jobs'[i] = f[i - n])
        BY <1>5
      <3> QED
        BY <3>1, <3>2, <3>3
    <2> QED
      BY <1>1, <1>5, <1>6, <1>7, <2>1, <2>2
  <1>9. PendingInv'
    <2>1. \A i \in 1 .. n + m : Pending(jobs'[i]) /\ Left(jobs'[i])
      <3>1. \A i \in 1 .. n : Pending(jobs[i]) /\ Left(jobs[i])
        BY DEF PendingInv, n
      <3>2. ASSUME NEW i \in 1 .. n + m
            PROVE  Pending(jobs'[i]) /\ Left(jobs'[i])
        <4>1. CASE i \in 1 .. n /\ jobs'[i] = jobs[i]
          BY <3>1, <4>1
        <4>2. CASE i - n \in 1 .. m /\ jobs'[i] = f[i - n]
          BY <1>3, <4>2
        <4> QED
          BY <1>5, <4>1, <4>2
      <3> QED
        BY <3>2
    <2>2. \A u \in Working : Pending(job[u]) /\ (u = Executor => Left(job[u]))
      BY DEF PendingInv
    <2> QED
      BY <1>1, <1>5, <1>6, <1>7, <2>1, <2>2 DEF PendingInv, Pending, Left
  <1>10. DoneInv'
    BY <1>1 DEF DoneInv
  <1>11. Found'
    <2>1. ASSUME NEW x, Under(x) PROVE Under(x)'
      <3>1. CASE \E i \in 1 .. n : jobs[i].text = x
        <4>1. PICK i \in 1 .. n : jobs[i].text = x
          BY <3>1
        <4>2. i \in 1 .. n + m /\ jobs'[i].text = x
          BY <1>2, <1>5, <4>1
        <4> QED
          BY <1>5, <4>2 DEF Under
      <3>2. CASE \E i \in 1 .. m : errors[i].text = x
        <4>1. PICK i \in 1 .. m : errors[i].text = x
          BY <3>2
        <4>2. n + i \in 1 .. n + m
          BY <1>2
        <4>3. jobs'[n + i] = f[i] /\ f[i].text = x
          BY <1>3, <1>5, <4>1
        <4> QED
          BY <1>5, <4>2, <4>3 DEF Under
      <3>3. CASE \E u \in Working : job[u].text = x
        BY <1>1, <1>6, <3>3 DEF Under
      <3> QED
        BY <2>1, <3>1, <3>2, <3>3 DEF Under, n, m
    <2> QED
      BY <1>1, <2>1 DEF Found
  <1>12. SqlTyped'
    BY <1>1, <1>5, <1>7
  <1> QED
    BY <1>8, <1>9, <1>10, <1>11, <1>12

-----------------------------------------------------------------------------
(* Both together.                                                           *)

(* Connections that failed stay with users that have no query.              *)
LEMMA SpoiltKeeps ==
  ASSUME LentInv, SpoiltInv, NEW t \in Threads, ReleasePtr(t) \/ Recycle(t)
  PROVE  /\ spoilt \cap exists' \subseteq quits'
         /\ lent[t] \notin spoilt => spoilt \subseteq quits'
         /\ \A u \in Threads : lent'[u] \in spoilt => lent[u] \in spoilt
  <1>1. /\ \/ exists' = exists /\ quits' = quits /\ lent[t] \notin quits
           \/ exists' = exists \ {lent[t]} /\ quits' = quits \ {lent[t]}
        /\ \A u \in Threads \ {t} : lent'[u] = lent[u]
        /\ lent[t] # NoObject /\ lent'[t] \in {lent[t], NoObject}
    BY GiveBackKeeps
  <1>2. spoilt \subseteq quits /\ NoObject \notin spoilt
    BY ResourcePoolAssumption DEF SpoiltInv, LentInv, ListTyped
  <1> QED
    BY <1>1, <1>2

LEMMA TakesKeeps ==
  ASSUME SqlInv, NEW t \in Threads, Takes(t)
  PROVE  SqlInv'
  <1> USE DEF SqlInv
  <1>1. t \in Working /\ job[t] # NoJob
    BY DEF Takes, Working
  <1>2. Obtain(t) \/ GetPtr(t)
    BY DEF Takes
  <1>3. /\ LentInv' /\ quits' = quits
        /\ \A u \in Threads \ {t} : lent'[u] = lent[u]
        /\ lent'[t] \notin quits
    BY <1>2, GetKeeps
  <1>4. spoilt' = spoilt /\ UNCHANGED Rest
    BY DEF Takes
  <1>5. CASE stage'[t] = "idle"
    <2>1. Thrown(t)
      BY <1>5 DEF Takes
    <2>2. StatementInv'
      BY <1>1, <1>4, <2>1, ThrownKeeps
    <2>3. job' = [job EXCEPT ![t] = NoJob]
      BY <2>1 DEF Thrown, Failed
    <2>4. SpoiltInv'
      BY <1>3, <1>4, <2>3 DEF SpoiltInv, StatementInv, SqlTyped
    <2> QED
      BY <1>3, <2>2, <2>4
  <1>6. CASE stage'[t] # "idle"
    <2>1. UNCHANGED <<job, errors, tries, thrown, failures, jobs, issued, done>>
      BY <1>4, <1>6 DEF Takes, Rest
    <2>2. SpoiltInv'
      BY <1>3, <1>4, <2>1 DEF SpoiltInv
    <2>3. StatementInv'
      BY <2>1, StatementsSame
    <2> QED
      BY <1>3, <2>2, <2>3
  <1> QED
    BY <1>5, <1>6

LEMMA QuerySucceedsKeeps ==
  ASSUME SqlInv, NEW t \in Threads, QuerySucceeds(t)
  PROVE  SqlInv'
  <1> USE DEF SqlInv
  <1>1. /\ t \in Working /\ ReleasePtr(t) /\ job' = [job EXCEPT ![t] = NoJob] /\ job[t] # NoJob
        /\ done' = done \cup {[text |-> job[t].text, as |-> job[t].as]}
        /\ UNCHANGED <<jobs, errors, issued, tries, thrown, spoilt, failures>>
    BY DEF QuerySucceeds, Working
  <1>2. LentInv'
    BY <1>1, GiveBackKeeps
  <1>3. StatementInv'
    BY <1>1, SucceededKeeps
  <1>4. lent[t] \notin spoilt
    BY <1>1 DEF SpoiltInv
  <1>5. spoilt \subseteq quits' /\ \A u \in Threads : lent'[u] \in spoilt => lent[u] \in spoilt
    BY <1>1, <1>4, SpoiltKeeps
  <1>6. \A u \in Threads : job[u] = NoJob => job'[u] = NoJob
    BY <1>1 DEF StatementInv, SqlTyped
  <1>7. SpoiltInv'
    BY <1>1, <1>5, <1>6 DEF SpoiltInv
  <1> QED
    BY <1>2, <1>3, <1>7

LEMMA QueryFailsKeeps ==
  ASSUME SqlInv, NEW t \in Threads, QueryFails(t)
  PROVE  SqlInv'
  <1> USE DEF SqlInv
  <1>1. /\ t \in Working /\ stage[t] = "uses" /\ Quit(t) /\ Thrown(t) /\ UNCHANGED Rest
        /\ spoilt' = spoilt \cup {lent[t]}
    BY DEF QueryFails, Working
  <1>2. LentInv' /\ quits' = quits \cup {lent[t]} /\ lent' = lent
    BY <1>1, QuitKeeps
  <1>3. StatementInv'
    BY <1>1, ThrownKeeps
  <1>4. job' = [job EXCEPT ![t] = NoJob] /\ job \in [Threads -> Queries \cup {NoJob}]
    BY <1>1 DEF Thrown, Failed, StatementInv, SqlTyped
  <1>5. \A u \in Threads : lent[u] = lent[t] => u = t
    BY <1>1 DEF LentInv, UserInv, LentToOne
  <1>6. SpoiltInv'
    BY <1>1, <1>2, <1>4, <1>5 DEF SpoiltInv
  <1> QED
    BY <1>2, <1>3, <1>6

LEMMA ReturnsKeeps ==
  ASSUME SqlInv, NEW t \in Threads, Returns(t)
  PROVE  SqlInv'
  <1> USE DEF SqlInv
  <1>1. /\ ReleasePtr(t) \/ Recycle(t)
        /\ spoilt' = spoilt \cap exists'
        /\ UNCHANGED <<jobs, errors, job, issued, tries, thrown, done, failures>>
    BY DEF Returns
  <1>2. LentInv'
    BY <1>1, GiveBackKeeps
  <1>3. /\ spoilt \cap exists' \subseteq quits'
        /\ \A u \in Threads : lent'[u] \in spoilt => lent[u] \in spoilt
    BY <1>1, SpoiltKeeps
  <1>4. SpoiltInv'
    BY <1>1, <1>3 DEF SpoiltInv
  <1>5. StatementInv'
    BY <1>1, StatementsSame
  <1> QED
    BY <1>2, <1>4, <1>5

LEMMA SqlInitHolds == SqlInit => SqlInv /\ ReserveInv
  <1> SUFFICES ASSUME SqlInit PROVE SqlInv /\ ReserveInv
    OBVIOUS
  <1> USE ResourcePoolAssumption DEF SqlInit, ResInit
  <1>1. Pooled = {} /\ Lent = {}
    BY DEF Pooled, Lent
  <1>2. LentInv
    BY <1>1 DEF LentInv, ListTyped, UserInv, LentToOne, Stages
  <1>3. Working = {}
    BY DEF Working
  <1>4. StatementInv
    BY <1>3 DEF StatementInv, SqlTyped, OnePlace, PendingInv, DoneInv, Found
  <1>5. SpoiltInv
    BY DEF SpoiltInv
  <1> QED
    BY <1>2, <1>4, <1>5 DEF SqlInv, ReserveInv

LEMMA StatementStepKeeps ==
  ASSUME SqlInv, StatementInv', UNCHANGED <<resVars, spoilt>>,
         \A t \in Threads : stage[t] = "idle" \/ job'[t] = job[t]
  PROVE  SqlInv'
  <1> USE DEF SqlInv
  <1>1. UNCHANGED <<objs, poolSize, flag, lent, stage, exists, quits, spoilt>>
    BY DEF resVars
  <1>2. LentInv'
    <2>1. poolSize' \in PoolSizes
      BY <1>1 DEF LentInv, ListTyped
    <2> QED
      BY <1>1, <2>1, PoolSame
  <1>3. \A t \in Threads : stage[t] = "idle" => lent[t] = NoObject /\ NoObject \notin spoilt
    BY ResourcePoolAssumption DEF LentInv, UserInv, SpoiltInv, ListTyped
  <1>4. SpoiltInv'
    BY <1>1, <1>3 DEF SpoiltInv
  <1> QED
    BY <1>2, <1>4

(* A reserve under way, as long as it has not raced.                        *)
LEMMA ReserveKeeps ==
  ASSUME SqlInv, ReserveInv, [SqlNext]_sqlVars, ~torn'
  PROVE  ReserveInv'
  <1> USE DEF ReserveInv
  <1>1. CASE SetSize
    BY <1>1 DEF SetSize, Meets
  <1>2. CASE EndReserve
    BY <1>2 DEF EndReserve
  <1>3. ASSUME NEW t \in Threads, Obtain(t) \/ GetPtr(t) PROVE ReserveInv'
    <2>1. CASE growTo = 0
      BY <1>3, <2>1 DEF Obtain, GetPtr, SetFlag, reserveVars
    <2>2. CASE growTo # 0
      <3>1. Obtain(t) /\ (Alloc(t) \/ AllocThrows(t)) /\ objs' = objs /\ UNCHANGED reserveVars
        BY <1>3, <2>2 DEF Obtain, GetPtr, SetFlag
      <3>2. \A u \in Threads : stage'[u] = stage[u] \/ stage'[u] \in {"uses", "idle"}
        BY <3>1 DEF Alloc, AllocThrows, Uses, Goes, SqlInv, LentInv, ListTyped
      <3> QED
        BY <3>1, <3>2 DEF reserveVars
    <2> QED
      BY <2>1, <2>2
  <1>4. ASSUME NEW t \in Threads, ReleasePtr(t) \/ Recycle(t) PROVE ReserveInv'
    <2>1. CASE growTo = 0
      BY <1>4, <2>1 DEF ReleasePtr, Recycle, SetFlag, reserveVars
    <2>2. CASE growTo # 0
      <3>1. DeleteObj(t) /\ objs' = objs /\ UNCHANGED reserveVars
        BY <1>4, <2>2 DEF ReleasePtr, Recycle, SetFlag
      <3>2. \A u \in Threads : stage'[u] = stage[u] \/ stage'[u] = "idle"
        BY <3>1 DEF DeleteObj, Goes, SqlInv, LentInv, ListTyped
      <3> QED
        BY <3>1, <3>2 DEF reserveVars
    <2> QED
      BY <2>1, <2>2
  <1>5. CASE UNCHANGED <<growTo, copied, objs, stage>>
    BY <1>5
  <1>6. ASSUME NEW s \in Statements, AsyncQuery(s) \/ \E t \in Threads : SyncQuery(t, s)
        PROVE  ReserveInv'
    BY <1>5, <1>6 DEF AsyncQuery, SyncQuery, resVars, reserveVars
  <1>7. CASE RunJob \/ FlushError \/ UNCHANGED sqlVars
    BY <1>5, <1>7 DEF RunJob, FlushError, sqlVars, resVars, reserveVars
  <1>8. ASSUME NEW t \in Threads, Takes(t) \/ QuerySucceeds(t) \/ QueryFails(t) \/ Returns(t)
        PROVE  ReserveInv'
    <2>1. CASE QueryFails(t)
      BY <1>5, <2>1 DEF QueryFails, Quit, reserveVars
    <2> QED
      BY <1>3, <1>4, <1>8, <2>1 DEF Takes, QuerySucceeds, Returns
  <1> QED
    BY <1>1, <1>2, <1>6, <1>7, <1>8 DEF SqlNext

LEMMA TornStays == torn /\ [SqlNext]_sqlVars => torn'
  <1> SUFFICES ASSUME [SqlNext]_sqlVars, torn PROVE torn'
    OBVIOUS
  <1> USE DEF resVars, reserveVars
  <1>1. ASSUME NEW t \in Threads, Obtain(t) \/ GetPtr(t) \/ ReleasePtr(t) \/ Recycle(t) \/ Quit(t)
        PROVE  torn'
    BY <1>1 DEF Obtain, GetPtr, ReleasePtr, Recycle, Quit, SetFlag
  <1>2. CASE SetSize \/ EndReserve
    BY <1>2 DEF SetSize, EndReserve
  <1>3. ASSUME NEW s \in Statements, AsyncQuery(s) \/ \E t \in Threads : SyncQuery(t, s)
        PROVE  torn'
    BY <1>3 DEF AsyncQuery, SyncQuery
  <1>4. CASE RunJob \/ FlushError \/ UNCHANGED sqlVars
    BY <1>4 DEF RunJob, FlushError, sqlVars
  <1>5. ASSUME NEW t \in Threads, Takes(t) \/ QuerySucceeds(t) \/ QueryFails(t) \/ Returns(t)
        PROVE  torn'
    BY <1>1, <1>5 DEF Takes, QuerySucceeds, QueryFails, Returns
  <1> QED
    BY <1>2, <1>3, <1>4, <1>5 DEF SqlNext

LEMMA SqlStepKeeps ==
  ASSUME SqlInv, ReserveInv, [SqlNext]_sqlVars, ~torn'
  PROVE  SqlInv'
  <1>0. CASE EndReserve /\ UNCHANGED sqlOwn
    <2>1. /\ UNCHANGED <<poolSize, objs, flag, lent, stage, exists, quits>>
          /\ UNCHANGED <<jobs, errors, job, issued, tries, thrown, done, spoilt, failures>>
      BY <1>0 DEF EndReserve, sqlOwn, ReserveInv
    <2>2. LentInv'
      <3>1. poolSize' \in PoolSizes
        BY <2>1 DEF SqlInv, LentInv, ListTyped
      <3> QED
        BY <2>1, <3>1, PoolSame DEF SqlInv
    <2>3. SpoiltInv'
      BY <2>1 DEF SqlInv, SpoiltInv
    <2>4. StatementInv'
      BY <2>1, StatementsSame DEF SqlInv
    <2> QED
      BY <2>2, <2>3, <2>4 DEF SqlInv
  <1>1. CASE SetSize /\ UNCHANGED sqlOwn
    <2>1. /\ poolSize' \in PoolSizes /\ UNCHANGED <<objs, flag, lent, stage, exists, quits>>
          /\ UNCHANGED <<jobs, errors, job, issued, tries, thrown, done, spoilt, failures>>
      BY <1>1 DEF SetSize, sqlOwn
    <2>2. LentInv'
      BY <2>1, PoolSame DEF SqlInv
    <2>3. SpoiltInv'
      BY <2>1 DEF SqlInv, SpoiltInv
    <2>4. StatementInv'
      BY <2>1, StatementsSame DEF SqlInv
    <2> QED
      BY <2>2, <2>3, <2>4 DEF SqlInv
  <1>2. ASSUME NEW s \in Statements, AsyncQuery(s) PROVE SqlInv'
    <2>1. UNCHANGED <<resVars, spoilt, job>>
      BY <1>2 DEF AsyncQuery
    <2> QED
      BY <1>2, <2>1, AsyncQueryKeeps, StatementStepKeeps DEF SqlInv
  <1>3. ASSUME NEW s \in Statements, NEW t \in Threads, SyncQuery(t, s) PROVE SqlInv'
    <2>1. UNCHANGED <<resVars, spoilt>> /\ \A u \in Threads : stage[u] = "idle" \/ job'[u] = job[u]
      BY <1>3 DEF SyncQuery, SqlInv, StatementInv, SqlTyped
    <2>2. StatementInv'
      BY <1>3, SyncQueryKeeps DEF SqlInv
    <2> QED
      BY <2>1, <2>2, StatementStepKeeps
  <1>4. CASE RunJob
    <2>1. UNCHANGED <<resVars, spoilt>> /\ \A u \in Threads : stage[u] = "idle" \/ job'[u] = job[u]
      BY <1>4 DEF RunJob, SqlInv, StatementInv, SqlTyped
    <2>2. StatementInv'
      BY <1>4, RunJobKeeps DEF SqlInv
    <2> QED
      BY <2>1, <2>2, StatementStepKeeps
  <1>5. CASE FlushError
    <2>1. UNCHANGED <<resVars, spoilt, job>>
      BY <1>5 DEF FlushError
    <2> QED
      BY <1>5, <2>1, FlushErrorKeeps, StatementStepKeeps DEF SqlInv
  <1>6. ASSUME NEW t \in Threads, Takes(t) \/ QuerySucceeds(t) \/ QueryFails(t) \/ Returns(t)
        PROVE  SqlInv'
    BY <1>6, TakesKeeps, QuerySucceedsKeeps, QueryFailsKeeps, ReturnsKeeps
  <1>7. CASE UNCHANGED sqlVars
    <2>1. /\ UNCHANGED <<resVars, spoilt, job>>
          /\ UNCHANGED <<jobs, errors, job, issued, tries, thrown, done, failures>>
      BY <1>7 DEF sqlVars, sqlOwn
    <2>2. StatementInv'
      BY <2>1, StatementsSame DEF SqlInv
    <2> QED
      BY <2>1, <2>2, StatementStepKeeps
  <1> QED
    BY <1>0, <1>1, <1>2, <1>3, <1>4, <1>5, <1>6, <1>7 DEF SqlNext

LEMMA LendingStepKeeps == LendingInv /\ [SqlNext]_sqlVars => LendingInv'
  <1> SUFFICES ASSUME LendingInv, [SqlNext]_sqlVars, ~torn' PROVE SqlInv' /\ ReserveInv'
    BY DEF LendingInv
  <1>1. SqlInv /\ ReserveInv
    BY TornStays DEF LendingInv
  <1>2. SqlInv'
    BY <1>1, SqlStepKeeps
  <1>3. ReserveInv'
    BY <1>1, ReserveKeeps
  <1> QED
    BY <1>2, <1>3

(* What SqlInv says of the pool is LentToOne; that failed connections have  *)
(* quit, and are therefore lent, keeps them out of the pool.                *)
LEMMA SqlInvSafe == SqlInv => LendingSafe
  <1> SUFFICES ASSUME SqlInv PROVE LendingSafe
    OBVIOUS
  <1> USE DEF SqlInv
  <1>1. LentToOne
    BY DEF LentInv
  <1>2. SpoiltNotReused
    BY <1>1 DEF SpoiltNotReused, SpoiltInv, LentToOne
  <1>3. DOMAIN jobs = 1 .. Len(jobs) /\ DOMAIN errors = 1 .. Len(errors)
    BY DEF StatementInv, SqlTyped
  <1>4. ASSUME NEW s PROVE Waiting(s) <=> Under(s)
    BY <1>3 DEF Waiting, Under, Working
  <1>5. ASSUME NEW d \in done PROVE ~Under(d.text)
    BY DEF StatementInv, PendingInv, Pending, Left, Under
  <1>6. NoStatementLost
    BY <1>4, <1>5 DEF NoStatementLost, StatementInv, Found, DoneInv
  <1> QED
    BY <1>1, <1>2, <1>6 DEF LendingSafe

(* LendingSafe: for any threads, objects, statements and sizes of the pool, *)
(* as long as no reserve of setSize has raced: an object has one user, a    *)
(* connection that failed is not used again, and a statement is executed,   *)
(* waiting, told to its caller, or was tried three times (ResourcePool's    *)
(* getPtr and recycle, SqlPool's asyncQuery, syncQuery and flushError).     *)
THEOREM LendingIsSafe == SqlSpec => []LendingSafe
  <1>1. SqlInit => LendingInv
    BY SqlInitHolds DEF LendingInv
  <1>2. LendingInv => LendingSafe
    BY SqlInvSafe DEF LendingInv, LendingSafe
  <1> QED
    BY <1>1, <1>2, LendingStepKeeps, PTL DEF SqlSpec

-----------------------------------------------------------------------------
(* ThreadPool: NoTaskStranded.                                              *)

(* The threads of the pool that are in state x.                             *)
In(x) == {w \in Workers : worker[w] = x}

PoolTyped == PoolTypeOK /\ IsFiniteSet(posting)

(* Each task of the queue has its permit, its thread or its poster, and     *)
(* each thread that shall end one more.                                     *)
PermitInv ==
  /\ permits + Cardinality(In("takes")) + Cardinality(In("over")) + Cardinality(posting)
       = Len(queue) + IF pool = "up" THEN 0 ELSE Cardinality(Workers)
  /\ pool = "up" => In("over") = {}

(* While a thread sleeps there are no more permits than threads that were   *)
(* woken for them.                                                          *)
WokenInv == In("asleep") = {} \/ permits <= Cardinality(In("waits"))

(* A task is queued once, and was run or cancelled when it is not.          *)
RanInv ==
  /\ \A i, j \in 1 .. Len(queue) : queue[i] = queue[j] => i = j
  /\ \A i \in 1 .. Len(queue) : queue[i] <= made /\ ran[queue[i]] = 0
  /\ \A t \in PoolTasks : ran[t] <= 1 /\ (t > made => ran[t] = 0)
  /\ \A t \in 1 .. made :
       ran[t] = 1 \/ t \in cancelled \/ \E i \in 1 .. Len(queue) : queue[i] = t

(* The last thread leaves an empty queue.                                   *)
LeftInv ==
  /\ In("over") = Workers => queue = <<>>
  /\ pool = "ended" => In("over") = Workers

PoolInv == PoolTyped /\ PermitInv /\ WokenInv /\ RanInv /\ LeftInv

LEMMA CountsOfWorkers ==
  ASSUME NEW x
  PROVE  /\ IsFiniteSet(In(x)) /\ Cardinality(In(x)) \in Nat
         /\ Cardinality(In(x)) = 0 <=> In(x) = {}
         /\ IsFiniteSet(Workers) /\ Cardinality(Workers) \in Nat /\ Cardinality(Workers) # 0
  <1>1. IsFiniteSet(Workers) /\ Workers # {} /\ In(x) \in SUBSET Workers
    BY PoolAssumption DEF In
  <1>2. IsFiniteSet(In(x))
    BY <1>1, FS_Subset
  <1> QED
    BY <1>1, <1>2, FS_CardinalityType, FS_EmptySet

LEMMA BecomesIs ==
  ASSUME worker \in [Workers -> WorkerStates], NEW w \in Workers, NEW to \in WorkerStates,
         NEW from, worker[w] = from, from # to, Becomes(w, to)
  PROVE  /\ worker' \in [Workers -> WorkerStates]
         /\ In(to)' = In(to) \cup {w} /\ w \notin In(to)
         /\ In(from)' = In(from) \ {w} /\ w \in In(from)
         /\ \A x \in WorkerStates \ {to, from} : In(x)' = In(x)
  <1>1. /\ worker' \in [Workers -> WorkerStates] /\ worker'[w] = to
        /\ \A v \in Workers : v # w => worker'[v] = worker[v]
    BY DEF Becomes
  <1> QED
    BY <1>1 DEF In

LEMMA EmptyIs ==
  ASSUME NEW S, NEW s \in Seq(S), Len(s) = 0
  PROVE  s = <<>>
  OBVIOUS

LEMMA OneLess ==
  ASSUME NEW S, IsFiniteSet(S), NEW x \in S
  PROVE  IsFiniteSet(S \ {x}) /\ Cardinality(S \ {x}) = Cardinality(S) - 1
  BY FS_RemoveElement

LEMMA OneMore ==
  ASSUME NEW S, IsFiniteSet(S), NEW x, x \notin S
  PROVE  IsFiniteSet(S \cup {x}) /\ Cardinality(S \cup {x}) = Cardinality(S) + 1
  BY FS_AddElement

(* What a post changes beside the permits.                                  *)
LEMMA PostIs ==
  ASSUME PoolInv, NEW n \in Nat, SemPost(n)
  PROVE  /\ worker' \in [Workers -> WorkerStates] /\ permits' = permits + n
         /\ \A x \in {"takes", "runs", "over"} : In(x)' = In(x)
         /\ WokenInv'
  <1>1. worker \in [Workers -> WorkerStates] /\ permits \in Nat /\ permits' = permits + n
    BY DEF PoolInv, PoolTyped, PoolTypeOK, SemPost
  <1>2. Sleepers = In("asleep")
    BY DEF Sleepers, In
  <1>3. CASE Sleepers = {} /\ UNCHANGED worker
    BY <1>1, <1>2, <1>3 DEF In, WokenInv
  <1>4. ASSUME n = 1, NEW w \in Sleepers, Becomes(w, "waits")
        PROVE  /\ worker' \in [Workers -> WorkerStates]
               /\ \A x \in {"takes", "runs", "over"} : In(x)' = In(x)
               /\ WokenInv'
    <2>1. w \in Workers /\ worker[w] = "asleep"
      BY <1>4 DEF Sleepers
    <2>2. /\ worker' \in [Workers -> WorkerStates]
          /\ In("waits")' = In("waits") \cup {w} /\ w \notin In("waits") /\ w \in In("asleep")
          /\ \A x \in WorkerStates \ {"waits", "asleep"} : In(x)' = In(x)
      BY <1>1, <1>4, <2>1, BecomesIs DEF WorkerStates
    <2>3. Cardinality(In("waits") \cup {w}) = Cardinality(In("waits")) + 1
      BY <2>2, CountsOfWorkers, OneMore
    <2>4. permits <= Cardinality(In("waits")) /\ Cardinality(In("waits")) \in Nat
      BY <2>2, CountsOfWorkers DEF PoolInv, WokenInv
    <2>5. permits' <= Cardinality(In("waits"))'
      BY <1>1, <1>4, <2>2, <2>3, <2>4
    <2> QED
      BY <2>2, <2>5 DEF WokenInv, WorkerStates
  <1>5. CASE worker' = [w \in Workers |-> IF w \in Sleepers THEN "waits" ELSE worker[w]]
    <2>1. worker' \in [Workers -> WorkerStates]
      BY <1>1, <1>5 DEF WorkerStates
    <2>2. \A w \in Workers : worker'[w] = IF worker[w] = "asleep" THEN "waits" ELSE worker[w]
      BY <1>5 DEF Sleepers
    <2>3. In("asleep")' = {} /\ \A x \in {"takes", "runs", "over"} : In(x)' = In(x)
      BY <2>2 DEF In
    <2> QED
      BY <1>1, <2>1, <2>3 DEF WokenInv
  <1> QED
    BY <1>1, <1>3, <1>4, <1>5 DEF SemPost

LEMMA PoolInitHolds == PoolInit => PoolInv
  <1> SUFFICES ASSUME PoolInit PROVE PoolInv
    OBVIOUS
  <1> USE PoolAssumption DEF PoolInit
  <1>1. IsFiniteSet(posting) /\ Cardinality(posting) = 0
    BY FS_EmptySet
  <1>2. In("takes") = {} /\ In("over") = {} /\ In("asleep") = {}
    BY DEF In
  <1>3. PoolTyped
    BY <1>1 DEF PoolTyped, PoolTypeOK, WorkerStates, PoolTasks
  <1>4. PermitInv
    <2>1. Cardinality(In("takes")) = 0 /\ Cardinality(In("over")) = 0 /\ Len(queue) = 0
      BY <1>2, FS_EmptySet
    <2> QED
      BY <1>1, <1>2, <2>1 DEF PermitInv
  <1>5. WokenInv /\ RanInv /\ LeftInv
    BY <1>2 DEF WokenInv, RanInv, LeftInv, PoolTasks
  <1> QED
    BY <1>3, <1>4, <1>5 DEF PoolInv

LEMMA PushKeeps ==
  ASSUME PoolInv, NEW a \in Users \cup Workers, NEW first \in BOOLEAN, Push(a, first)
  PROVE  PoolInv'
  <1> USE PoolAssumption DEF PoolInv, PoolTyped, PoolTypeOK
  <1>1. /\ May(a) /\ made' = made + 1 /\ made' \in PoolTasks /\ made' \in 0 .. MaxPoolTasks
        /\ queue' = IF first THEN <<made'>> \o queue ELSE Append(queue, made')
        /\ posting' = posting \cup {a} /\ a \notin posting
        /\ UNCHANGED <<permits, worker, running, ran, cancelled, pool>>
    BY DEF Push, May, PoolTasks
  <1>2. PICK n \in Nat : n = Len(queue)
    OBVIOUS
  <1>3. PICK k : k = made'
    OBVIOUS
  <1>4. /\ queue' \in Seq(PoolTasks) /\ Len(queue') = n + 1
        /\ \/ queue'[1] = k /\ \A i \in 1 .. n : queue'[i + 1] = queue[i]
           \/ queue'[n + 1] = k /\ \A i \in 1 .. n : queue'[i] = queue[i]
    <2>1. CASE first
      <3>1. queue' = <<k>> \o queue /\ k \in PoolTasks
        BY <1>1, <1>3, <2>1
      <3>2. <<k>> \o queue \in Seq(PoolTasks) /\ Len(<<k>> \o queue) = n + 1
        BY <1>2, <3>1
      <3>3. (<<k>> \o queue)[1] = k /\ \A i \in 1 .. n : (<<k>> \o queue)[i + 1] = queue[i]
        BY <1>2, <3>1
      <3> QED
        BY <3>1, <3>2, <3>3
    <2>2. CASE ~first
      <3>1. queue' = Append(queue, k) /\ k \in PoolTasks
        BY <1>1, <1>3, <2>2
      <3> QED
        BY <1>2, <3>1
    <2> QED
      BY <2>1, <2>2
  <1>5. PoolTyped'
    BY <1>1, <1>4, OneMore
  <1>6. \A x : In(x)' = In(x)
    BY <1>1 DEF In
  <1>7. PermitInv'
    <2>1. Cardinality(posting') = Cardinality(posting) + 1 /\ Cardinality(posting) \in Nat
      BY <1>1, OneMore, FS_CardinalityType
    <2>2. /\ Cardinality(In("takes")) \in Nat /\ Cardinality(In("over")) \in Nat
          /\ Cardinality(Workers) \in Nat
      BY CountsOfWorkers
    <2>3. PICK e \in Nat : e = IF pool = "up" THEN 0 ELSE Cardinality(Workers)
      BY <2>2
    <2>4. permits + Cardinality(In("takes")) + Cardinality(In("over")) + (Cardinality(posting) + 1)
            = (n + 1) + e
      <3>1. PICK k1 \in Nat, o \in Nat, g \in Nat :
              k1 = Cardinality(In("takes")) /\ o = Cardinality(In("over")) /\ g = Cardinality(posting)
        BY <2>1, <2>2
      <3>2. permits + k1 + o + g = n + e
        BY <1>2, <2>3, <3>1 DEF PermitInv
      <3>3. permits + k1 + o + (g + 1) = (n + 1) + e
        BY <3>2
      <3> QED
        BY <3>1, <3>3
    <2> QED
      BY <1>1, <1>4, <1>6, <2>1, <2>3, <2>4 DEF PermitInv
  <1>8. WokenInv'
    BY <1>1, <1>6 DEF WokenInv
  <1>9. RanInv'
    <2> USE DEF RanInv
    <2>1. k = made + 1 /\ made \in Nat /\ k \in PoolTasks /\ ran[k] = 0
      BY <1>1, <1>3 DEF PoolTasks
    <2>2. \A i \in 1 .. n : queue[i] # k /\ queue[i] <= k /\ ran[queue[i]] = 0
      <3>1. \A i \in 1 .. n : queue[i] <= made /\ queue[i] \in Nat /\ ran[queue[i]] = 0
        BY <1>2 DEF PoolTasks
      <3> QED
        BY <2>1, <3>1
    <2>5. k <= k /\ \A t \in PoolTasks : ran[t] <= 1 /\ (t > k => ran[t] = 0)
      BY <2>1 DEF PoolTasks
    <2>3. CASE queue'[1] = k /\ \A i \in 1 .. n : queue'[i + 1] = queue[i]
      <3>1. \A i \in 1 .. n + 1 : i = 1 \/ (i - 1 \in 1 .. n /\ i = (i - 1) + 1)
        OBVIOUS
      <3>2. \A i \in 1 .. n + 1 : i = 1 \/ (i - 1 \in 1 .. n /\ queue'[i] = queue[i - 1])
        BY <2>3, <3>1
      <3>3. ASSUME NEW i \in 1 .. n + 1, NEW j \in 1 .. n + 1, queue'[i] = queue'[j]
            PROVE  i = j
        <4>1. CASE i = 1 /\ j = 1
          BY <4>1
        <4>2. CASE i = 1 /\ j # 1
          <5>1. j - 1 \in 1 .. n /\ queue'[j] = queue[j - 1]
            BY <3>2, <4>2
          <5> QED
            BY <2>2, <2>3, <3>3, <4>2, <5>1
        <4>3. CASE i # 1 /\ j = 1
          <5>1. i - 1 \in 1 .. n /\ queue'[i] = queue[i - 1]
            BY <3>2, <4>3
          <5> QED
            BY <2>2, <2>3, <3>3, <4>3, <5>1
        <4>4. CASE i # 1 /\ j # 1
          <5>1. i - 1 \in 1 .. n /\ j - 1 \in 1 .. n /\ queue[i - 1] = queue[j - 1]
            BY <3>2, <3>3, <4>4
          <5>2. i - 1 = j - 1
            BY <1>2, <5>1
          <5> QED
            BY <5>2
        <4> QED
          BY <4>1, <4>2, <4>3, <4>4
      <3>4. \A i \in 1 .. n + 1 : queue'[i] <= k /\ ran[queue'[i]] = 0
        <4>1. ASSUME NEW i \in 1 .. n + 1 PROVE queue'[i] <= k /\ ran[queue'[i]] = 0
          <5>1. CASE i = 1
            BY <2>1, <2>3, <2>5, <5>1
          <5>2. CASE i - 1 \in 1 .. n /\ queue'[i] = queue[i - 1]
            BY <2>2, <5>2
          <5> QED
            BY <3>2, <5>1, <5>2
        <4> QED
          BY <4>1
      <3>5. \A i \in 1 .. n : i + 1 \in 1 .. n + 1
        OBVIOUS
      <3>6. ASSUME NEW t \in 1 .. k
            PROVE  ran[t] = 1 \/ t \in cancelled \/ \E i \in 1 .. n + 1 : queue'[i] = t
        <4>1. CASE t = k
          BY <2>3, <4>1
        <4>2. CASE t # k
          <5>1. t \in 1 .. made
            BY <2>1, <4>2
          <5> QED
            BY <1>2, <2>3, <3>5, <5>1
        <4> QED
          BY <4>1, <4>2
      <3> QED
        <4>1. Len(queue') = n + 1 /\ made' = k /\ ran' = ran /\ cancelled' = cancelled
          BY <1>1, <1>3, <1>4
        <4> QED
          BY <2>5, <3>3, <3>4, <3>6, <4>1
    <2>4. CASE queue'[n + 1] = k /\ \A i \in 1 .. n : queue'[i] = queue[i]
      <3>1. \A i \in 1 .. n + 1 : i = n + 1 \/ (i \in 1 .. n /\ queue'[i] = queue[i])
        BY <2>4
      <3>2. \A i, j \in 1 .. n + 1 : queue'[i] = queue'[j] => i = j
        BY <1>2, <2>2, <2>4, <3>1
      <3>3. \A i \in 1 .. n + 1 : queue'[i] <= k /\ ran[queue'[i]] = 0
        BY <2>1, <2>2, <2>4, <2>5, <3>1
      <3>4. ASSUME NEW t \in 1 .. k
            PROVE  ran[t] = 1 \/ t \in cancelled \/ \E i \in 1 .. n + 1 : queue'[i] = t
        <4>1. CASE t = k
          BY <2>4, <4>1
        <4>2. CASE t # k
          <5>1. t \in 1 .. made
            BY <2>1, <4>2
          <5>2. \A i \in 1 .. n : i \in 1 .. n + 1
            OBVIOUS
          <5> QED
            BY <1>2, <2>4, <5>1, <5>2
        <4> QED
          BY <4>1, <4>2
      <3> QED
        <4>1. Len(queue') = n + 1 /\ made' = k /\ ran' = ran /\ cancelled' = cancelled
          BY <1>1, <1>3, <1>4
        <4> QED
          BY <2>5, <3>2, <3>3, <3>4, <4>1
    <2> QED
      BY <1>4, <2>3, <2>4
  <1>10. LeftInv'
    <2>1. In("over") # Workers /\ pool # "ended"
      <3>1. CASE a \in Users
        <4>1. pool = "up"
          BY <1>1, <3>1 DEF May
        <4> QED
          BY <4>1 DEF PermitInv
      <3>2. CASE a \notin Users
        <4>1. a \in Workers /\ worker[a] = "runs"
          BY <1>1, <3>2 DEF May
        <4>2. a \notin In("over")
          BY <4>1 DEF In
        <4> QED
          BY <4>1, <4>2 DEF LeftInv
      <3> QED
        BY <3>1, <3>2
    <2> QED
      BY <1>1, <1>6, <2>1 DEF LeftInv
  <1> QED
    BY <1>5, <1>7, <1>8, <1>9, <1>10
(* A step of the threads that leaves the tasks alone.                       *)
LEMMA RanSame ==
  ASSUME PoolInv, UNCHANGED <<queue, made, ran>>, cancelled \subseteq cancelled'
  PROVE  RanInv'
  BY DEF PoolInv, RanInv

LEMMA CancelKeeps ==
  ASSUME PoolInv, NEW t \in PoolTasks, Cancel(t)
  PROVE  PoolInv'
  <1> USE DEF PoolInv, PoolTyped, PoolTypeOK
  <1>1. /\ cancelled' = cancelled \cup {t}
        /\ UNCHANGED <<queue, permits, posting, worker, running, made, ran, pool>>
    BY DEF Cancel
  <1>2. \A x : In(x)' = In(x)
    BY <1>1 DEF In
  <1>3. PoolTyped'
    BY <1>1
  <1>4. PermitInv'
    BY <1>1, <1>2 DEF PermitInv
  <1>5. WokenInv' /\ LeftInv'
    BY <1>1, <1>2 DEF WokenInv, LeftInv
  <1>6. RanInv'
    BY <1>1, RanSame
  <1> QED
    BY <1>3, <1>4, <1>5, <1>6

LEMMA RunInlineKeeps ==
  ASSUME PoolInv, NEW w \in Workers, RunInline(w)
  PROVE  PoolInv'
  <1> USE PoolAssumption DEF PoolInv, PoolTyped, PoolTypeOK
  <1>1. /\ made' = made + 1 /\ made' \in PoolTasks /\ made' \in 0 .. MaxPoolTasks
        /\ ran' = [ran EXCEPT ![made'] = @ + 1]
        /\ May(w)
        /\ UNCHANGED <<queue, permits, posting, worker, running, cancelled, pool>>
    BY DEF RunInline, PoolTasks
  <1>2. PICK k \in PoolTasks : k = made' /\ k = made + 1 /\ ran[k] = 0 /\ made \in Nat
    BY <1>1 DEF RanInv, PoolTasks
  <1>3. /\ ran' \in [PoolTasks -> Nat] /\ ran'[k] = 1
        /\ \A t \in PoolTasks : t # k => ran'[t] = ran[t]
    BY <1>1, <1>2
  <1>4. \A x : In(x)' = In(x)
    BY <1>1 DEF In
  <1>5. PoolTyped'
    BY <1>1, <1>3
  <1>6. PermitInv'
    BY <1>1, <1>4 DEF PermitInv
  <1>7. WokenInv' /\ LeftInv'
    BY <1>1, <1>4 DEF WokenInv, LeftInv
  <1>8. RanInv'
    <2> USE DEF RanInv
    <2>1. \A i \in 1 .. Len(queue) : queue[i] \in PoolTasks /\ queue[i] <= made /\ ran[queue[i]] = 0
      OBVIOUS
    <2>2. \A t \in PoolTasks : t <= made => t # k /\ t <= k
      BY <1>2 DEF PoolTasks
    <2>3. \A i \in 1 .. Len(queue) : queue[i] <= k /\ ran'[queue[i]] = 0
      BY <1>3, <2>1, <2>2
    <2>4. \A t \in PoolTasks : ran'[t] <= 1 /\ (t > k => ran'[t] = 0)
      BY <1>2, <1>3 DEF PoolTasks
    <2>5. ASSUME NEW t \in 1 .. k
          PROVE  ran'[t] = 1 \/ t \in cancelled \/ \E i \in 1 .. Len(queue) : queue[i] = t
      <3>1. CASE t = k
        BY <1>3, <3>1
      <3>2. CASE t # k
        <4>1. t \in 1 .. made /\ t \in PoolTasks
          BY <1>2, <3>2 DEF PoolTasks
        <4> QED
          BY <1>3, <3>2, <4>1
      <3> QED
        BY <3>1, <3>2
    <2> QED
      BY <1>1, <1>2, <2>3, <2>4, <2>5
  <1> QED
    BY <1>5, <1>6, <1>7, <1>8

LEMMA PostTaskKeeps ==
  ASSUME PoolInv, NEW a \in Users \cup Workers, PostTask(a)
  PROVE  PoolInv'
  <1> USE DEF PoolInv, PoolTyped, PoolTypeOK
  <1>1. /\ a \in posting /\ posting' = posting \ {a} /\ SemPost(1)
        /\ UNCHANGED <<queue, running, made, ran, cancelled, pool>>
    BY DEF PostTask
  <1>2. /\ worker' \in [Workers -> WorkerStates] /\ permits' = permits + 1
        /\ In("takes")' = In("takes") /\ In("over")' = In("over")
        /\ WokenInv'
    BY <1>1, PostIs
  <1>3. IsFiniteSet(posting') /\ Cardinality(posting') = Cardinality(posting) - 1
    BY <1>1, OneLess
  <1>4. PoolTyped'
    BY <1>1, <1>2, <1>3
  <1>5. PermitInv'
    <2>1. Cardinality(posting) \in Nat
      BY FS_CardinalityType
    <2>2. PICK k \in Nat, o \in Nat, e \in Nat :
            /\ k = Cardinality(In("takes")) /\ o = Cardinality(In("over"))
            /\ e = IF pool = "up" THEN 0 ELSE Cardinality(Workers)
      BY CountsOfWorkers
    <2>3. permits + k + o + Cardinality(posting) = Len(queue) + e
      BY <2>2 DEF PermitInv
    <2>4. (permits + 1) + k + o + (Cardinality(posting) - 1) = Len(queue) + e
      BY <2>1, <2>3
    <2> QED
      BY <1>1, <1>2, <1>3, <2>2, <2>4 DEF PermitInv
  <1>6. LeftInv'
    BY <1>1, <1>2 DEF LeftInv
  <1>7. RanInv'
    BY <1>1, RanSame
  <1> QED
    BY <1>2, <1>4, <1>5, <1>6, <1>7

LEMMA SemWaitKeeps ==
  ASSUME PoolInv, NEW w \in Workers, SemWait(w)
  PROVE  PoolInv'
  <1> USE DEF PoolInv, PoolTyped, PoolTypeOK
  <1>1. /\ worker[w] = "waits"
        /\ UNCHANGED <<queue, posting, running, made, ran, cancelled, pool>>
    BY DEF SemWait
  <1>2. RanInv'
    BY <1>1, RanSame
  <1>3. CASE permits = 0
    <2>1. permits' = permits /\ Becomes(w, "asleep")
      BY <1>3 DEF SemWait
    <2>2. /\ worker' \in [Workers -> WorkerStates]
          /\ In("takes")' = In("takes") /\ In("over")' = In("over")
      BY <1>1, <2>1, BecomesIs DEF WorkerStates
    <2>3. PoolTyped' /\ LeftInv'
      BY <1>1, <2>1, <2>2 DEF LeftInv
    <2>4. PermitInv'
      BY <1>1, <2>1, <2>2 DEF PermitInv
    <2>5. WokenInv'
      <3>1. \A x : IsFiniteSet(In(x)') /\ Cardinality(In(x)') \in Nat
        <4>1. \A x : In(x)' \in SUBSET Workers
          BY DEF In
        <4> QED
          BY <4>1, CountsOfWorkers, FS_Subset, FS_CardinalityType
      <3>2. permits' <= Cardinality(In("waits")')
        BY <1>3, <2>1, <3>1
      <3> QED
        BY <3>2 DEF WokenInv
    <2> QED
      BY <1>2, <2>3, <2>4, <2>5
  <1>4. CASE permits # 0
    <2>1. permits' = permits - 1 /\ permits' \in Nat /\ Becomes(w, "takes")
      BY <1>4 DEF SemWait
    <2>2. /\ worker' \in [Workers -> WorkerStates]
          /\ In("takes")' = In("takes") \cup {w} /\ w \notin In("takes")
          /\ In("waits")' = In("waits") \ {w} /\ w \in In("waits")
          /\ In("over")' = In("over") /\ In("asleep")' = In("asleep")
      BY <1>1, <2>1, BecomesIs DEF WorkerStates
    <2>3. PoolTyped' /\ LeftInv'
      BY <1>1, <2>1, <2>2 DEF LeftInv
    <2>4. PICK k \in Nat, o \in Nat, e \in Nat, v \in Nat, g \in Nat :
            /\ k = Cardinality(In("takes")) /\ o = Cardinality(In("over"))
            /\ v = Cardinality(In("waits")) /\ g = Cardinality(posting)
            /\ e = IF pool = "up" THEN 0 ELSE Cardinality(Workers)
      BY CountsOfWorkers, FS_CardinalityType
    <2>5. Cardinality(In("takes")') = k + 1 /\ Cardinality(In("waits")') = v - 1
      BY <2>2, <2>4, CountsOfWorkers, OneMore, OneLess
    <2>6. PermitInv'
      <3>1. permits + k + o + g = Len(queue) + e
        BY <2>4 DEF PermitInv
      <3>2. (permits - 1) + (k + 1) + o + g = Len(queue) + e
        BY <3>1
      <3> QED
        BY <1>1, <2>1, <2>2, <2>4, <2>5, <3>2 DEF PermitInv
    <2>7. WokenInv'
      BY <2>1, <2>2, <2>4, <2>5 DEF WokenInv
    <2> QED
      BY <1>2, <2>3, <2>6, <2>7
  <1> QED
    BY <1>3, <1>4

LEMMA TakeTaskKeeps ==
  ASSUME PoolInv, NEW w \in Workers, TakeTask(w)
  PROVE  PoolInv'
  <1> USE DEF PoolInv, PoolTyped, PoolTypeOK
  <1>1. PICK n, h : n = Len(queue) /\ h = Head(queue) /\ n \in Nat
    OBVIOUS
  <1>2. /\ worker[w] = "takes" /\ queue # <<>> /\ queue' = Tail(queue)
        /\ running' = [running EXCEPT ![w] = h] /\ Becomes(w, "runs")
        /\ ran' = IF h \in cancelled THEN ran ELSE [ran EXCEPT ![h] = @ + 1]
        /\ UNCHANGED <<permits, posting, made, cancelled, pool>>
    BY <1>1 DEF TakeTask
  <1>3. /\ queue' \in Seq(PoolTasks) /\ Len(queue') = n - 1 /\ n >= 1 /\ 1 \in 1 .. n
        /\ \A i \in 1 .. n - 1 : queue'[i] = queue[i + 1] /\ i + 1 \in 1 .. n /\ i + 1 # 1
        /\ h = queue[1] /\ h \in PoolTasks
    BY <1>1, <1>2
  <1>4. /\ worker' \in [Workers -> WorkerStates]
        /\ In("takes")' = In("takes") \ {w} /\ w \in In("takes")
        /\ \A x \in {"over", "asleep", "waits"} : In(x)' = In(x)
    BY <1>2, BecomesIs DEF WorkerStates
  <1>5. ran[h] = 0 /\ h <= made
    BY <1>1, <1>3 DEF RanInv
  <1>6. /\ ran' \in [PoolTasks -> Nat] /\ \A t \in PoolTasks : t # h => ran'[t] = ran[t]
        /\ ran'[h] <= 1 /\ (h \in cancelled \/ ran'[h] = 1)
    BY <1>2, <1>3, <1>5
  <1>7. PoolTyped'
    BY <1>2, <1>3, <1>4, <1>6
  <1>8. PermitInv'
    <2>1. PICK k \in Nat, o \in Nat, e \in Nat, g \in Nat :
            /\ k = Cardinality(In("takes")) /\ o = Cardinality(In("over")) /\ g = Cardinality(posting)
            /\ e = IF pool = "up" THEN 0 ELSE Cardinality(Workers)
      BY CountsOfWorkers, FS_CardinalityType
    <2>2. Cardinality(In("takes")') = k - 1
      BY <1>4, <2>1, CountsOfWorkers, OneLess
    <2>3. PICK m \in Nat : m = permits
      OBVIOUS
    <2>4. m + k + o + g = n + e
      BY <1>1, <2>1, <2>3 DEF PermitInv
    <2>5. m + (k - 1) + o + g = (n - 1) + e
      BY ONLY <1>1, <2>4, k \in Nat, o \in Nat, e \in Nat, g \in Nat, m \in Nat
    <2> QED
      BY <1>2, <1>3, <1>4, <2>1, <2>2, <2>3, <2>5 DEF PermitInv
  <1>9. WokenInv'
    BY <1>2, <1>4 DEF WokenInv
  <1>10. RanInv'
    <2>1. /\ \A i, j \in 1 .. n : queue[i] = queue[j] => i = j
          /\ \A i \in 1 .. n : queue[i] <= made /\ ran[queue[i]] = 0 /\ queue[i] \in PoolTasks
      BY <1>1 DEF RanInv
    <2>2. ASSUME NEW i \in 1 .. n - 1, NEW j \in 1 .. n - 1, queue'[i] = queue'[j]
          PROVE  i = j
      <3>1. queue'[i] = queue[i + 1] /\ queue'[j] = queue[j + 1] /\ i + 1 \in 1 .. n /\ j + 1 \in 1 .. n
        BY <1>3
      <3>2. i + 1 = j + 1
        BY <2>1, <2>2, <3>1
      <3> QED
        BY <3>2
    <2>3. \A i \in 1 .. n - 1 : queue'[i] # h /\ queue'[i] <= made /\ ran'[queue'[i]] = 0
      <3>1. ASSUME NEW i \in 1 .. n - 1
            PROVE  queue'[i] # h /\ queue'[i] <= made /\ ran'[queue'[i]] = 0
        <4>1. queue'[i] = queue[i + 1] /\ i + 1 \in 1 .. n /\ i + 1 # 1
          BY <1>3
        <4>2. queue'[i] # h /\ queue'[i] \in PoolTasks
          BY <1>3, <2>1, <4>1
        <4> QED
          BY <1>6, <2>1, <4>1, <4>2
      <3> QED
        BY <3>1
    <2>4. \A t \in PoolTasks : ran'[t] <= 1 /\ (t > made => ran'[t] = 0)
      <3>1. ~(h > made)
        BY <1>3, <1>5 DEF PoolTasks
      <3> QED
        BY <1>6, <3>1 DEF RanInv
    <2>5. ASSUME NEW t \in 1 .. made
          PROVE  ran'[t] = 1 \/ t \in cancelled \/ \E i \in 1 .. n - 1 : queue'[i] = t
      <3>1. t \in PoolTasks
        <4>1. made \in 0 .. MaxPoolTasks
          OBVIOUS
        <4> QED
          BY <4>1, PoolAssumption DEF PoolTasks
      <3>2. CASE t = h
        BY <1>6, <3>2
      <3>3. CASE t # h /\ \E i \in 1 .. n : queue[i] = t
        <4>1. PICK i \in 1 .. n : queue[i] = t
          BY <3>3
        <4>2. i # 1
          BY <1>3, <3>3, <4>1
        <4>3. i - 1 \in 1 .. n - 1 /\ (i - 1) + 1 = i
          BY <1>1, <4>2
        <4>4. queue'[i - 1] = t
          BY <1>3, <4>1, <4>3
        <4> QED
          BY <4>3, <4>4
      <3>4. CASE t # h /\ (ran[t] = 1 \/ t \in cancelled)
        BY <1>6, <3>1, <3>4
      <3> QED
        BY <1>1, <3>2, <3>3, <3>4 DEF RanInv
    <2> QED
      BY <1>2, <1>3, <2>2, <2>3, <2>4, <2>5 DEF RanInv
  <1>11. LeftInv'
    <2>1. In("over") # Workers
      BY <1>2 DEF In
    <2> QED
      BY <1>2, <1>4, <2>1 DEF LeftInv
  <1> QED
    BY <1>7, <1>8, <1>9, <1>10, <1>11

LEMMA TaskReturnsKeeps ==
  ASSUME PoolInv, NEW w \in Workers, TaskReturns(w)
  PROVE  PoolInv'
  <1> USE DEF PoolInv, PoolTyped, PoolTypeOK
  <1>1. /\ worker[w] = "runs" /\ Becomes(w, "waits")
        /\ running' = [running EXCEPT ![w] = NoTask]
        /\ UNCHANGED <<queue, permits, posting, made, ran, cancelled, pool>>
    BY DEF TaskReturns
  <1>2. /\ worker' \in [Workers -> WorkerStates]
        /\ In("waits")' = In("waits") \cup {w} /\ w \notin In("waits")
        /\ \A x \in {"over", "asleep", "takes"} : In(x)' = In(x)
    BY <1>1, BecomesIs DEF WorkerStates
  <1>3. PoolTyped'
    BY <1>1, <1>2
  <1>4. PermitInv'
    BY <1>1, <1>2 DEF PermitInv
  <1>5. WokenInv'
    <2>1. PICK v \in Nat : v = Cardinality(In("waits"))
      BY CountsOfWorkers
    <2>2. Cardinality(In("waits")') = v + 1
      BY <1>2, <2>1, CountsOfWorkers, OneMore
    <2> QED
      BY <1>1, <1>2, <2>1, <2>2 DEF WokenInv
  <1>6. RanInv'
    BY <1>1, RanSame
  <1>7. LeftInv'
    BY <1>1, <1>2 DEF LeftInv
  <1> QED
    BY <1>3, <1>4, <1>5, <1>6, <1>7

LEMMA ThreadEndsKeeps ==
  ASSUME PoolInv, NEW w \in Workers, ThreadEnds(w)
  PROVE  PoolInv'
  <1> USE DEF PoolInv, PoolTyped, PoolTypeOK
  <1>1. /\ worker[w] = "takes" /\ Becomes(w, "over") /\ queue = <<>>
        /\ UNCHANGED <<queue, permits, posting, running, made, ran, cancelled, pool>>
    BY DEF ThreadEnds
  <1>2. /\ worker' \in [Workers -> WorkerStates]
        /\ In("over")' = In("over") \cup {w} /\ w \notin In("over")
        /\ In("takes")' = In("takes") \ {w} /\ w \in In("takes")
        /\ In("asleep")' = In("asleep") /\ In("waits")' = In("waits")
    BY <1>1, BecomesIs DEF WorkerStates
  <1>3. PICK k \in Nat, o \in Nat, e \in Nat, g \in Nat :
          /\ k = Cardinality(In("takes")) /\ o = Cardinality(In("over")) /\ g = Cardinality(posting)
          /\ e = IF pool = "up" THEN 0 ELSE Cardinality(Workers)
    BY CountsOfWorkers, FS_CardinalityType
  <1>4. /\ Cardinality(In("takes")') = k - 1 /\ Cardinality(In("over")') = o + 1 /\ k # 0
    BY <1>2, <1>3, CountsOfWorkers, OneLess, OneMore
  <1>5. permits + k + o + g = e
    BY <1>1, <1>3 DEF PermitInv
  <1>6. pool # "up"
    <2>1. PICK m \in Nat : m = permits
      OBVIOUS
    <2>2. m + k + o + g = e /\ k # 0
      BY <1>4, <1>5, <2>1
    <2>3. e # 0
      BY ONLY <2>2, k \in Nat, o \in Nat, e \in Nat, g \in Nat, m \in Nat
    <2> QED
      BY <1>3, <2>3
  <1>7. PoolTyped'
    BY <1>1, <1>2
  <1>8. PermitInv'
    <2>1. permits + (k - 1) + (o + 1) + g = e /\ Len(queue) = 0
      BY <1>1, <1>5
    <2> QED
      BY <1>1, <1>3, <1>4, <1>6, <2>1 DEF PermitInv
  <1>9. WokenInv'
    BY <1>1, <1>2 DEF WokenInv
  <1>10. RanInv'
    BY <1>1, RanSame
  <1>11. LeftInv'
    <2>1. pool # "ended"
      BY <1>1 DEF LeftInv, In
    <2> QED
      BY <1>1, <2>1 DEF LeftInv
  <1> QED
    BY <1>7, <1>8, <1>9, <1>10, <1>11

LEMMA ShutdownKeeps ==
  ASSUME PoolInv, Shutdown
  PROVE  PoolInv'
  <1> USE DEF PoolInv, PoolTyped, PoolTypeOK
  <1>1. PICK c \in Nat : c = Cardinality(Workers)
    BY CountsOfWorkers
  <1>2. /\ pool = "up" /\ pool' = "ending" /\ SemPost(c)
        /\ UNCHANGED <<queue, posting, running, made, ran, cancelled>>
    BY <1>1 DEF Shutdown
  <1>3. /\ worker' \in [Workers -> WorkerStates] /\ permits' = permits + c
        /\ In("takes")' = In("takes") /\ In("over")' = In("over")
        /\ WokenInv'
    BY <1>2, PostIs
  <1>4. PoolTyped'
    BY <1>2, <1>3
  <1>5. PermitInv'
    <2>1. PICK k \in Nat, o \in Nat, g \in Nat :
            k = Cardinality(In("takes")) /\ o = Cardinality(In("over")) /\ g = Cardinality(posting)
      BY CountsOfWorkers, FS_CardinalityType
    <2>2. permits + k + o + g = Len(queue) + 0
      BY <1>2, <2>1 DEF PermitInv
    <2>3. PICK n \in Nat, m \in Nat : n = Len(queue) /\ m = permits
      OBVIOUS
    <2>4. m + k + o + g = n + 0
      BY <2>2, <2>3
    <2>5. (m + c) + k + o + g = n + c
      BY ONLY <2>4, n \in Nat, k \in Nat, o \in Nat, c \in Nat, g \in Nat, m \in Nat
    <2> QED
      BY <1>1, <1>2, <1>3, <2>1, <2>3, <2>5 DEF PermitInv
  <1>6. LeftInv'
    BY <1>2, <1>3 DEF LeftInv
  <1>7. RanInv'
    BY <1>2, RanSame
  <1> QED
    BY <1>3, <1>4, <1>5, <1>6, <1>7

LEMMA JoinAllKeeps ==
  ASSUME PoolInv, JoinAll
  PROVE  PoolInv'
  <1> USE DEF PoolInv, PoolTyped, PoolTypeOK
  <1>1. /\ pool = "ending" /\ pool' = "ended" /\ In("over") = Workers
        /\ UNCHANGED <<queue, permits, posting, worker, running, made, ran, cancelled>>
    BY DEF JoinAll, In
  <1>2. \A x : In(x)' = In(x)
    BY <1>1 DEF In
  <1>3. PoolTyped'
    BY <1>1
  <1>4. PermitInv'
    BY <1>1, <1>2 DEF PermitInv
  <1>5. WokenInv' /\ LeftInv'
    BY <1>1, <1>2 DEF WokenInv, LeftInv
  <1>6. RanInv'
    BY <1>1, RanSame
  <1> QED
    BY <1>3, <1>4, <1>5, <1>6

LEMMA PoolStepKeeps == PoolInv /\ [PoolNext]_poolVars => PoolInv'
  <1> SUFFICES ASSUME PoolInv, [PoolNext]_poolVars PROVE PoolInv'
    OBVIOUS
  <1>1. CASE UNCHANGED poolVars
    <2>1. UNCHANGED <<queue, permits, posting, worker, running, made, ran, cancelled, pool>>
      BY <1>1 DEF poolVars
    <2>2. \A x : In(x)' = In(x)
      BY <2>1 DEF In
    <2>3. PoolTyped' /\ RanInv'
      BY <2>1, RanSame DEF PoolInv, PoolTyped, PoolTypeOK
    <2>4. PermitInv'
      BY <2>1, <2>2 DEF PoolInv, PermitInv
    <2>5. WokenInv' /\ LeftInv'
      BY <2>1, <2>2 DEF PoolInv, WokenInv, LeftInv
    <2> QED
      BY <2>3, <2>4, <2>5 DEF PoolInv
  <1>2. ASSUME NEW a \in Users \cup Workers, NEW first \in BOOLEAN, PostTask(a) \/ Push(a, first)
        PROVE  PoolInv'
    BY <1>2, PostTaskKeeps, PushKeeps
  <1>3. ASSUME NEW w \in Workers,
               RunInline(w) \/ SemWait(w) \/ TakeTask(w) \/ TaskReturns(w) \/ ThreadEnds(w)
        PROVE  PoolInv'
    BY <1>3, RunInlineKeeps, SemWaitKeeps, TakeTaskKeeps, TaskReturnsKeeps, ThreadEndsKeeps
  <1>4. ASSUME NEW t \in PoolTasks, Cancel(t) PROVE PoolInv'
    BY <1>4, CancelKeeps
  <1>5. CASE Shutdown \/ JoinAll
    BY <1>5, ShutdownKeeps, JoinAllKeeps
  <1> QED
    BY <1>1, <1>2, <1>3, <1>4, <1>5 DEF PoolNext

(* When nobody acts, the sums leave nothing: no thread is between a permit  *)
(* and a task, and a permit that is left would have kept a thread awake.    *)
LEMMA PoolInvServes == PoolInv => NoTaskStranded
  <1> SUFFICES ASSUME PoolInv PROVE NoTaskStranded
    OBVIOUS
  <1> USE DEF PoolInv, PoolTyped, PoolTypeOK
  <1>1. ASSUME Quiet
        PROVE  queue = <<>> /\ permits = 0 /\ (pool # "up" => Sleepers = {})
    <2>1. posting = {} /\ In("takes") = {} /\ In("waits") = {}
          /\ \A w \in Workers : w \in In("asleep") \/ w \in In("over")
      BY <1>1 DEF Quiet, In
    <2>2. Cardinality(posting) = 0 /\ Cardinality(In("takes")) = 0 /\ Cardinality(In("waits")) = 0
      BY <2>1, FS_EmptySet
    <2>3. PICK o \in Nat, c \in Nat, n \in Nat :
            /\ o = Cardinality(In("over")) /\ c = Cardinality(Workers) /\ n = Len(queue)
            /\ o <= c /\ (o = c => In("over") = Workers) /\ c # 0
            /\ o = 0 <=> In("over") = {}
      <3>1. In("over") \in SUBSET Workers
        BY DEF In
      <3>2. /\ Cardinality(In("over")) <= Cardinality(Workers)
            /\ Cardinality(In("over")) = Cardinality(Workers) => In("over") = Workers
        BY <3>1, CountsOfWorkers, FS_Subset
      <3> QED
        BY <3>2, CountsOfWorkers
    <2>4. permits + o = n + IF pool = "up" THEN 0 ELSE c
      BY <2>2, <2>3 DEF PermitInv
    <2>5. Sleepers = In("asleep")
      BY DEF Sleepers, In
    <2>6. CASE Sleepers = {}
      <3>1. In("over") = Workers /\ o = c
        BY <2>1, <2>3, <2>5, <2>6 DEF In
      <3>2. pool # "up" /\ queue = <<>> /\ n = 0
        BY <2>3, <3>1 DEF PermitInv, LeftInv
      <3> QED
        BY <2>3, <2>4, <2>6, <3>1, <3>2
    <2>7. CASE Sleepers # {}
      <3>1. permits = 0
        BY <2>2, <2>5, <2>7 DEF WokenInv
      <3>2. In("over") # Workers
        BY <2>5, <2>7 DEF In
      <3>3. pool = "up" /\ n = 0
        BY <2>3, <2>4, <3>1, <3>2 DEF PermitInv
      <3>4. queue = <<>>
        BY <2>3, <3>3, EmptyIs
      <3> QED
        BY <3>1, <3>3, <3>4
    <2> QED
      BY <2>6, <2>7
  <1>2. \A t \in PoolTasks : ran[t] <= 1
    BY DEF RanInv
  <1>3. ASSUME pool = "ended" PROVE \A t \in 1 .. made : ran[t] = 1 \/ t \in cancelled
    <2>1. queue = <<>> /\ Len(queue) = 0
      BY <1>3 DEF LeftInv
    <2> QED
      BY <2>1 DEF RanInv
  <1> QED
    BY <1>1, <1>2, <1>3 DEF NoTaskStranded

(* For any users, threads and tasks: when everybody waits, no task, permit  *)
(* or thread that should end is left; no task runs twice; and ~ThreadPool   *)
(* returns after all tasks (TaskQueue, semaphore, push_exit).               *)
THEOREM NothingStranded == PoolSpec => []NoTaskStranded
  <1> QED
    BY PoolInitHolds, PoolStepKeeps, PoolInvServes, PTL DEF PoolSpec

-----------------------------------------------------------------------------
(* UdpClient: UdpClientServed.                                              *)

AnyAddr == UdpPeers \cup {NoAddr}
Datagrams == [own : AnyAddr, meant : AnyAddr]
ClientSockets ==
  [made : BOOLEAN, kept : BOOLEAN, fd : BOOLEAN, watched : BOOLEAN, frozen : BOOLEAN,
   soft : AnyAddr, hard : AnyAddr, bound : AnyAddr,
   buffer : {"shared", "own"}, used : {"none", "shared", "own"},
   errEmit : BOOLEAN, waiting : Seq(Datagrams), told : Nat, stopped : BOOLEAN, early : BOOLEAN]
Connecting == [step : {"bind", "setSock", "peer"}, peer : UdpPeers, by : {"user", "poller"}]
Serving == [what : {"idle", "reads", "calls"}, n : Nat, kind : {"none", "read", "manager", "error"}]

ClientTyped ==
  /\ latest \in 0 .. MaxTries /\ ticks \in {0, latest}
  /\ us \in [Tries -> ClientSockets]
  /\ connects \in Connecting \cup {Nowhere}
  /\ serves \in Serving
  /\ errTasks \in Seq(Tries) /\ strays = FALSE

(* One Socket: its buffer, its bindings and the datagrams that wait.        *)
BufferOk(s) == s.watched => s.frozen /\ s.used = s.buffer
BoundOk(s) ==
  /\ s.soft # NoAddr => s.soft = s.bound
  /\ s.hard # NoAddr => s.hard = s.bound
WaitingOk(s) ==
  \A i \in 1 .. Len(s.waiting) :
    IF s.waiting[i].own # NoAddr THEN s.waiting[i].own = s.waiting[i].meant
    ELSE s.hard \in {s.waiting[i].meant, NoAddr}
ToldOk(s) == s.told <= 1 /\ (s.told = 1 => s.errEmit)
SocketOk(s) == BufferOk(s) /\ BoundOk(s) /\ WaitingOk(s) /\ ToldOk(s)

(* A Socket has one task of emitErr at most, and before it was told.        *)
ErrOk(n, s) == n <= latest /\ s.errEmit /\ s.told = 0 /\ s.stopped
ErrInv ==
  /\ \A i \in 1 .. Len(errTasks) : ErrOk(errTasks[i], us[errTasks[i]])
  /\ \A i, j \in 1 .. Len(errTasks) : errTasks[i] = errTasks[j] => i = j

(* After the error callback a Socket is no longer watched, unless it had no *)
(* descriptor yet.                                                          *)
InError(n) == serves = [what |-> "calls", n |-> n, kind |-> "error"]
ClosedInv == \A n \in Tries : us[n].told = 1 => us[n].early \/ ~us[n].watched \/ InError(n)

(* A Socket that startConnect has not bound yet is new, and the poller has  *)
(* nothing to do before the first one is.                                   *)
Unborn == latest = 0 \/ (connects.step = "bind" /\ connects.by = "user")
FreshInv ==
  /\ connects # Nowhere => latest # 0 /\ us[latest].hard = NoAddr
  /\ connects.step = "bind" => ~us[latest].errEmit /\ us[latest].told = 0
  /\ Unborn => serves = AtRestNow /\ errTasks = <<>> /\ \A n \in Tries : ~us[n].watched

StoppedInv == latest # 0 /\ ticks = 0 => us[latest].stopped

ClientInv ==
  /\ ClientTyped /\ (\A n \in Tries : SocketOk(us[n]))
  /\ ErrInv /\ ClosedInv /\ FreshInv /\ StoppedInv

LEMMA StepsOfConnect ==
  ASSUME ClientTyped
  PROVE  /\ connects = Nowhere <=> connects.step = "none"
         /\ connects # Nowhere => /\ connects.step \in {"bind", "setSock", "peer"}
                                  /\ connects.by \in {"user", "poller"}
                                  /\ connects.peer \in UdpPeers
         /\ latest # 0 => latest \in Tries
         /\ latest \in Nat
         /\ AtRestNow \in Serving /\ AtRestNow.what = "idle" /\ AtRestNow.kind = "none"
         /\ serves.what \in {"idle", "reads", "calls"} /\ serves.n \in Nat
  BY UdpClientAssumption DEF ClientTyped, Connecting, Nowhere, Tries, AtRestNow, Serving

LEMMA NoSocketIs ==
  /\ NoSocket \in ClientSockets /\ SocketOk(NoSocket)
  /\ ~NoSocket.watched /\ NoSocket.hard = NoAddr /\ NoSocket.told = 0 /\ ~NoSocket.errEmit
  <1>1. NoSocket \in ClientSockets
    BY DEF NoSocket, ClientSockets, AnyAddr, Datagrams
  <1>2. SocketOk(NoSocket)
    BY DEF NoSocket, SocketOk, BufferOk, BoundOk, WaitingOk, ToldOk
  <1>3. ~NoSocket.watched /\ NoSocket.hard = NoAddr /\ NoSocket.told = 0 /\ ~NoSocket.errEmit
    BY DEF NoSocket
  <1> QED
    BY <1>1, <1>2, <1>3

LEMMA ClientInitHolds == UdpClientInit => ClientInv
  <1> SUFFICES ASSUME UdpClientInit PROVE ClientInv
    OBVIOUS
  <1> USE UdpClientAssumption DEF UdpClientInit
  <1>1. ClientTyped
    BY NoSocketIs DEF ClientTyped, Serving, AtRestNow
  <1>2. \A n \in Tries : us[n] = NoSocket
    OBVIOUS
  <1>3. ErrInv /\ ClosedInv /\ StoppedInv /\ \A n \in Tries : SocketOk(us[n])
    BY <1>2, NoSocketIs DEF ErrInv, ClosedInv, StoppedInv
  <1>4. FreshInv
    BY <1>2, NoSocketIs DEF FreshInv, Nowhere
  <1> QED
    BY <1>1, <1>3, <1>4 DEF ClientInv

LEMMA MakeSocketKeeps ==
  ASSUME ClientInv, NEW by \in {"user", "poller"}, MakeSocket(by),
         by = "user" => latest = 0, by = "poller" => InCallback
  PROVE  ClientInv'
  <1> USE UdpClientAssumption DEF ClientInv
  <1>1. PICK peer \in UdpPeers, kept \in BOOLEAN, buffer \in {"shared", "own"} :
          /\ us' = [us EXCEPT ![latest + 1] =
                      [NoSocket EXCEPT !.made = TRUE, !.kept = kept, !.buffer = buffer]]
          /\ connects' = [step |-> "bind", peer |-> peer, by |-> by]
    BY DEF MakeSocket
  <1>2. /\ connects = Nowhere /\ latest < MaxTries /\ latest' = latest + 1 /\ ticks' = latest + 1
        /\ UNCHANGED <<serves, errTasks, strays>>
    BY DEF MakeSocket
  <1>3. PICK s : s = [NoSocket EXCEPT !.made = TRUE, !.kept = kept, !.buffer = buffer]
    OBVIOUS
  <1>4. /\ s \in ClientSockets /\ SocketOk(s)
        /\ ~s.watched /\ s.hard = NoAddr /\ s.told = 0 /\ ~s.errEmit
    <2>1. s \in ClientSockets
      BY <1>3, NoSocketIs DEF ClientSockets
    <2>2. SocketOk(s)
      BY <1>3 DEF NoSocket, SocketOk, BufferOk, BoundOk, WaitingOk, ToldOk
    <2>3. ~s.watched /\ s.hard = NoAddr /\ s.told = 0 /\ ~s.errEmit
      BY <1>3 DEF NoSocket
    <2> QED
      BY <2>1, <2>2, <2>3
  <1>5. PICK m \in Tries : m = latest + 1
    BY <1>2 DEF ClientTyped, Tries
  <1>6. /\ us' \in [Tries -> ClientSockets] /\ us'[m] = s
        /\ \A n \in Tries : n # m => us'[n] = us[n]
    BY <1>1, <1>3, <1>4, <1>5 DEF ClientTyped
  <1>7. ClientTyped'
    <2>1. connects' \in Connecting
      BY <1>1 DEF Connecting
    <2> QED
      BY <1>2, <1>5, <1>6, <2>1 DEF ClientTyped, Tries
  <1>8. \A n \in Tries : SocketOk(us'[n])
    BY <1>4, <1>6
  <1>9. ErrInv'
    <2>1. \A i \in 1 .. Len(errTasks) : errTasks[i] \in Tries /\ errTasks[i] <= latest /\ errTasks[i] # m
      BY <1>5 DEF ClientTyped, ErrInv, ErrOk, Tries
    <2>2. \A n \in Tries : n <= latest => n <= latest'
      BY <1>2 DEF ClientTyped, Tries
    <2> QED
      BY <1>2, <1>6, <2>1, <2>2 DEF ErrInv, ErrOk
  <1>10. ClosedInv'
    BY <1>2, <1>4, <1>6 DEF ClosedInv, InError
  <1>11. FreshInv'
    <2>1. latest' # 0 /\ us'[latest'] = s
      BY <1>2, <1>5, <1>6 DEF Tries
    <2>2. connects'.step = "bind" /\ connects'.by = by
      BY <1>1
    <2>3. Unborn' => Unborn
      BY <1>2, <2>1, <2>2 DEF Unborn
    <2>4. Unborn' => \A n \in Tries : ~us'[n].watched
      BY <1>4, <1>6, <2>3 DEF FreshInv
    <2> QED
      BY <1>2, <1>4, <2>1, <2>3, <2>4 DEF FreshInv
  <1>12. StoppedInv'
    BY <1>2, <1>5 DEF StoppedInv, Tries
  <1> QED
    BY <1>7, <1>8, <1>9, <1>10, <1>11, <1>12

(* One Socket changes, and startConnect may go on: the tasks of emitErr     *)
(* and the poller are as they were.                                         *)
GoesOn ==
  \/ connects' = connects
  \/ connects # Nowhere /\ connects' \in Connecting \cup {Nowhere} /\ connects'.step # "bind"

LEMMA OneSocketKeeps ==
  ASSUME ClientInv, NEW m \in Tries, NEW s \in ClientSockets, us' = [us EXCEPT ![m] = s],
         SocketOk(s), s.told = us[m].told, s.errEmit = us[m].errEmit, us[m].stopped => s.stopped,
         us[m].early => s.early,
         s.watched => us[m].watched \/ (us[m].told = 0 /\ ~Unborn'),
         s.hard = us[m].hard \/ connects' = Nowhere,
         GoesOn, UNCHANGED <<latest, ticks, serves, errTasks, strays>>
  PROVE  ClientInv'
  <1> USE UdpClientAssumption DEF ClientInv
  <1>1. us' \in [Tries -> ClientSockets] /\ us'[m] = s /\ \A n \in Tries : n # m => us'[n] = us[n]
    BY DEF ClientTyped
  <1>2. /\ connects' \in Connecting \cup {Nowhere}
        /\ connects' # Nowhere => connects # Nowhere
        /\ connects'.step = "bind" => connects' = connects
        /\ Unborn' => Unborn
    BY DEF GoesOn, ClientTyped, Unborn
  <1>3. ClientTyped'
    BY <1>1, <1>2 DEF ClientTyped
  <1>4. \A n \in Tries : SocketOk(us'[n])
    BY <1>1
  <1>5. ErrInv'
    <2>1. \A n \in Tries : ErrOk(n, us[n]) => n <= latest' /\ us'[n].errEmit /\ us'[n].told = 0 /\ us'[n].stopped
      BY <1>1 DEF ErrOk
    <2>2. \A i \in 1 .. Len(errTasks) : errTasks[i] \in Tries
      BY DEF ClientTyped
    <2> QED
      BY <2>1, <2>2 DEF ErrInv, ErrOk
  <1>6. ClosedInv'
    BY <1>1 DEF ClosedInv, InError, ClientSockets
  <1>7. FreshInv'
    <2>1. connects' # Nowhere => latest' # 0 /\ us'[latest'].hard = NoAddr
      <3> SUFFICES ASSUME connects' # Nowhere PROVE latest' # 0 /\ us'[latest'].hard = NoAddr
        OBVIOUS
      <3>1. latest # 0 /\ us[latest].hard = NoAddr /\ latest \in Tries
        BY <1>2, StepsOfConnect DEF FreshInv
      <3>2. s.hard = us[m].hard
        OBVIOUS
      <3> QED
        BY <1>1, <3>1, <3>2
    <2>2. connects'.step = "bind" => ~us'[latest'].errEmit /\ us'[latest'].told = 0
      <3> SUFFICES ASSUME connects'.step = "bind"
                   PROVE  ~us'[latest'].errEmit /\ us'[latest'].told = 0
        OBVIOUS
      <3>1. connects.step = "bind"
        BY <1>2
      <3>2. latest \in Tries /\ ~us[latest].errEmit /\ us[latest].told = 0
        BY <3>1, StepsOfConnect DEF FreshInv
      <3> QED
        BY <1>1, <3>2
    <2>3. Unborn' => serves' = AtRestNow /\ errTasks' = <<>> /\ \A n \in Tries : ~us'[n].watched
      BY <1>1, <1>2 DEF FreshInv
    <2> QED
      BY <2>1, <2>2, <2>3 DEF FreshInv
  <1>8. StoppedInv'
    BY <1>1, StepsOfConnect DEF StoppedInv
  <1> QED
    BY <1>3, <1>4, <1>5, <1>6, <1>7, <1>8

LEMMA BindUdpSockKeeps ==
  ASSUME ClientInv, BindUdpSock
  PROVE  ClientInv'
  <1> USE DEF ClientInv
  <1>1. PICK ok \in BOOLEAN :
          /\ us' = [us EXCEPT ![latest].waiting = <<>>, ![latest].errEmit = FALSE,
                              ![latest].frozen = ok, ![latest].watched = ok,
                              ![latest].used = IF ok THEN us[latest].buffer ELSE @]
          /\ connects' = [connects EXCEPT !.step = IF ok THEN "setSock" ELSE "peer"]
    BY DEF BindUdpSock
  <1>2. connects.step = "bind" /\ UNCHANGED <<latest, ticks, serves, errTasks, strays>>
    BY DEF BindUdpSock
  <1>3. connects # Nowhere /\ latest \in Tries /\ latest # 0 /\ connects \in Connecting
    BY <1>2, StepsOfConnect DEF FreshInv, ClientTyped
  <1>4. PICK m \in Tries : m = latest
    BY <1>3
  <1>5. PICK s : s = [us[m] EXCEPT !.waiting = <<>>, !.errEmit = FALSE, !.frozen = ok, !.watched = ok,
                                   !.used = IF ok THEN us[m].buffer ELSE @]
    OBVIOUS
  <1>6. us[m] \in ClientSockets /\ SocketOk(us[m]) /\ ~us[m].errEmit /\ us[m].told = 0
    BY <1>2, <1>4 DEF ClientTyped, FreshInv
  <1>7. /\ s \in ClientSockets /\ s.told = us[m].told /\ s.errEmit = FALSE /\ s.stopped = us[m].stopped
        /\ s.early = us[m].early /\ s.hard = us[m].hard /\ s.soft = us[m].soft /\ s.bound = us[m].bound
        /\ s.waiting = <<>> /\ s.frozen = ok /\ s.watched = ok
        /\ ok => s.used = s.buffer
    <2>1. PICK u \in {"none", "shared", "own"} :
            u = (IF ok THEN us[m].buffer ELSE us[m].used) /\ (ok => u = us[m].buffer)
      BY <1>6 DEF ClientSockets
    <2>2. s = [us[m] EXCEPT !.waiting = <<>>, !.errEmit = FALSE, !.frozen = ok, !.watched = ok, !.used = u]
      BY <1>5, <2>1
    <2>3. <<>> \in Seq(Datagrams)
      OBVIOUS
    <2>4. PICK e : e = <<>> /\ e \in Seq(Datagrams)
      BY <2>3
    <2>5. us[m] \in ClientSockets /\ u \in {"none", "shared", "own"} /\ ok \in BOOLEAN
          /\ s = [us[m] EXCEPT !.waiting = e, !.errEmit = FALSE, !.frozen = ok, !.watched = ok, !.used = u]
      BY <1>6, <2>2, <2>4
    <2>6. s \in ClientSockets
      BY ONLY <2>4, <2>5 DEF ClientSockets
    <2>7. /\ s.told = us[m].told /\ s.errEmit = FALSE /\ s.stopped = us[m].stopped
          /\ s.early = us[m].early /\ s.hard = us[m].hard /\ s.soft = us[m].soft /\ s.bound = us[m].bound
          /\ s.waiting = e /\ s.frozen = ok /\ s.watched = ok /\ s.used = u /\ s.buffer = us[m].buffer
      BY ONLY <2>5 DEF ClientSockets
    <2> QED
      BY <2>1, <2>4, <2>6, <2>7
  <1>8. SocketOk(s)
    BY <1>6, <1>7 DEF SocketOk, BufferOk, BoundOk, WaitingOk, ToldOk
  <1>9. us' = [us EXCEPT ![m] = s]
    BY <1>1, <1>4, <1>5 DEF ClientTyped
  <1>10. connects' \in Connecting /\ connects'.step # "bind"
    BY <1>1, <1>3 DEF Connecting
  <1>11. GoesOn /\ ~Unborn'
    BY <1>2, <1>3, <1>10 DEF GoesOn, Unborn
  <1>12. /\ s.errEmit = us[m].errEmit /\ (us[m].stopped => s.stopped) /\ (us[m].early => s.early)
         /\ us[m].told = 0 /\ s.told = us[m].told /\ s.hard = us[m].hard /\ s \in ClientSockets
    BY <1>6, <1>7 DEF ClientSockets
  <1> HIDE DEF ClientInv
  <1> QED
    BY <1>2, <1>8, <1>9, <1>11, <1>12, OneSocketKeeps

LEMMA SetSockKeeps ==
  ASSUME ClientInv, SetSock
  PROVE  ClientInv'
  <1> USE DEF ClientInv
  <1>1. /\ connects.step = "setSock" /\ UNCHANGED <<latest, ticks, serves, errTasks, strays>>
        /\ us' = [us EXCEPT ![latest].fd = TRUE] /\ connects' = [connects EXCEPT !.step = "peer"]
    BY DEF SetSock
  <1>2. connects # Nowhere /\ latest \in Tries /\ connects \in Connecting
    BY <1>1, StepsOfConnect DEF FreshInv, ClientTyped
  <1>3. PICK m \in Tries : m = latest
    BY <1>2
  <1>4. PICK s : s = [us[m] EXCEPT !.fd = TRUE]
    OBVIOUS
  <1>5. us[m] \in ClientSockets /\ SocketOk(us[m])
    BY DEF ClientTyped
  <1>6. /\ s \in ClientSockets /\ s.told = us[m].told /\ s.errEmit = us[m].errEmit
        /\ s.stopped = us[m].stopped /\ s.early = us[m].early /\ s.watched = us[m].watched
        /\ s.hard = us[m].hard /\ s.soft = us[m].soft /\ s.bound = us[m].bound
        /\ s.waiting = us[m].waiting /\ s.frozen = us[m].frozen /\ s.used = us[m].used
        /\ s.buffer = us[m].buffer
    BY <1>4, <1>5 DEF ClientSockets
  <1>7. SocketOk(s)
    BY <1>5, <1>6 DEF SocketOk, BufferOk, BoundOk, WaitingOk, ToldOk
  <1>8. us' = [us EXCEPT ![m] = s]
    BY <1>1, <1>3, <1>4 DEF ClientTyped
  <1>9. GoesOn
    BY <1>1, <1>2 DEF GoesOn, Connecting
  <1> QED
    BY <1>1, <1>6, <1>7, <1>8, <1>9, OneSocketKeeps

LEMMA SoftBindKeeps ==
  ASSUME ClientInv, SoftBind
  PROVE  ClientInv'
  <1> USE UdpClientAssumption DEF ClientInv
  <1>1. /\ connects.step = "peer" /\ connects' = Nowhere
        /\ UNCHANGED <<latest, ticks, serves, errTasks, strays>>
    BY DEF SoftBind
  <1>2. connects # Nowhere /\ latest \in Tries /\ connects.peer \in UdpPeers
    BY <1>1, StepsOfConnect DEF FreshInv
  <1>3. PICK m \in Tries : m = latest
    BY <1>2
  <1>4. PICK s : s = IF us[m].fd THEN [us[m] EXCEPT !.soft = connects.peer, !.bound = connects.peer]
                     ELSE us[m]
    OBVIOUS
  <1>5. us[m] \in ClientSockets /\ SocketOk(us[m]) /\ us[m].hard = NoAddr
    BY <1>2, <1>3 DEF ClientTyped, FreshInv
  <1>6. /\ s \in ClientSockets /\ s.told = us[m].told /\ s.errEmit = us[m].errEmit
        /\ s.stopped = us[m].stopped /\ s.early = us[m].early /\ s.watched = us[m].watched
        /\ s.hard = us[m].hard
        /\ s.waiting = us[m].waiting /\ s.frozen = us[m].frozen /\ s.used = us[m].used
        /\ s.buffer = us[m].buffer
        /\ s.soft = s.bound \/ (s.soft = us[m].soft /\ s.bound = us[m].bound)
    BY <1>2, <1>4, <1>5 DEF ClientSockets, AnyAddr
  <1>7. SocketOk(s)
    BY <1>5, <1>6 DEF SocketOk, BufferOk, BoundOk, WaitingOk, ToldOk
  <1>8. us' = [us EXCEPT ![m] = s]
    BY <1>1, <1>3, <1>4 DEF ClientTyped, SoftBind
  <1>9. GoesOn
    BY <1>1, <1>2 DEF GoesOn, Nowhere
  <1> QED
    BY <1>1, <1>6, <1>7, <1>8, <1>9, OneSocketKeeps

LEMMA HardBindKeeps ==
  ASSUME ClientInv, NEW peer \in UdpPeers, HardBind(peer)
  PROVE  ClientInv'
  <1> USE UdpClientAssumption DEF ClientInv
  <1>1. /\ latest # 0 /\ connects = Nowhere
        /\ \A i \in 1 .. Len(us[latest].waiting) : us[latest].waiting[i].own # NoAddr
        /\ \/ us' = [us EXCEPT ![latest] = HardBound(@, peer)]
           \/ us' = [us EXCEPT ![latest].soft = NoAddr, ![latest].bound = us[latest].hard]
        /\ UNCHANGED <<latest, ticks, connects, serves, errTasks, strays>>
    BY DEF HardBind, UserMayCall
  <1>2. PICK m \in Tries : m = latest
    BY <1>1, StepsOfConnect
  <1>3. us[m] \in ClientSockets /\ SocketOk(us[m])
    BY DEF ClientTyped
  <1>4. PICK s : /\ s = HardBound(us[m], peer) \/ s = [us[m] EXCEPT !.soft = NoAddr, !.bound = us[m].hard]
                 /\ us' = [us EXCEPT ![m] = s]
    BY <1>1, <1>2 DEF ClientTyped
  <1>5. /\ s \in ClientSockets /\ s.told = us[m].told /\ s.errEmit = us[m].errEmit
        /\ s.stopped = us[m].stopped /\ s.early = us[m].early /\ s.watched = us[m].watched
        /\ s.waiting = us[m].waiting /\ s.frozen = us[m].frozen /\ s.used = us[m].used
        /\ s.buffer = us[m].buffer /\ s.soft = NoAddr /\ s.bound = s.hard
    <2>1. PICK h \in AnyAddr : s = [us[m] EXCEPT !.soft = NoAddr, !.hard = h, !.bound = h]
      <3>1. CASE s = HardBound(us[m], peer)
        BY <3>1 DEF HardBound, AnyAddr
      <3>2. CASE s = [us[m] EXCEPT !.soft = NoAddr, !.bound = us[m].hard]
        <4>1. us[m].hard \in AnyAddr
          BY <1>3 DEF ClientSockets
        <4>2. s = [us[m] EXCEPT !.soft = NoAddr, !.hard = us[m].hard, !.bound = us[m].hard]
          BY <1>3, <3>2 DEF ClientSockets
        <4> QED
          BY <4>1, <4>2
      <3> QED
        BY <1>4, <3>1, <3>2
    <2>2. NoAddr \in AnyAddr
      BY DEF AnyAddr
    <2> QED
      BY <1>3, <2>1, <2>2 DEF ClientSockets
  <1>6. SocketOk(s)
    <2>1. WaitingOk(s)
      BY <1>1, <1>2, <1>3, <1>5 DEF SocketOk, WaitingOk
    <2> QED
      BY <2>1, <1>3, <1>5 DEF SocketOk, BufferOk, BoundOk, ToldOk
  <1>7. GoesOn
    BY <1>1 DEF GoesOn
  <1> QED
    BY <1>1, <1>4, <1>5, <1>6, <1>7, OneSocketKeeps

LEMMA SetUdpRecvBufferKeeps ==
  ASSUME ClientInv, NEW m \in Tries, SetUdpRecvBuffer(m)
  PROVE  ClientInv'
  <1> USE DEF ClientInv
  <1>1. /\ ~us[m].fd /\ ~us[m].frozen /\ us' = [us EXCEPT ![m].buffer = "own"]
        /\ UNCHANGED <<latest, ticks, connects, serves, errTasks, strays>>
    BY DEF SetUdpRecvBuffer, Refuses
  <1>2. us[m] \in ClientSockets /\ SocketOk(us[m])
    BY DEF ClientTyped
  <1>3. PICK s : s = [us[m] EXCEPT !.buffer = "own"]
    OBVIOUS
  <1>4. /\ s \in ClientSockets /\ s.told = us[m].told /\ s.errEmit = us[m].errEmit
        /\ s.stopped = us[m].stopped /\ s.early = us[m].early /\ s.watched = us[m].watched
        /\ s.hard = us[m].hard /\ s.soft = us[m].soft /\ s.bound = us[m].bound
        /\ s.waiting = us[m].waiting /\ s.frozen = us[m].frozen
    BY <1>2, <1>3 DEF ClientSockets
  <1>5. SocketOk(s)
    BY <1>1, <1>2, <1>4 DEF SocketOk, BufferOk, BoundOk, WaitingOk, ToldOk
  <1>6. us' = [us EXCEPT ![m] = s]
    BY <1>1, <1>3 DEF ClientTyped
  <1>7. GoesOn
    BY <1>1 DEF GoesOn
  <1> QED
    BY <1>1, <1>4, <1>5, <1>6, <1>7, OneSocketKeeps

(* The datagrams that wait, one more or one fewer.                          *)
WaitsRight(d, hard) ==
  IF d.own # NoAddr THEN d.own = d.meant ELSE hard \in {d.meant, NoAddr}

LEMMA WaitingChangeKeeps ==
  ASSUME ClientInv, NEW m \in Tries, NEW q \in Seq(Datagrams),
         \A i \in 1 .. Len(q) : WaitsRight(q[i], us[m].hard),
         us' = [us EXCEPT ![m].waiting = q],
         UNCHANGED <<latest, ticks, connects, serves, errTasks, strays>>
  PROVE  ClientInv'
  <1> USE DEF ClientInv
  <1>1. us[m] \in ClientSockets /\ SocketOk(us[m])
    BY DEF ClientTyped
  <1>2. PICK s : s = [us[m] EXCEPT !.waiting = q]
    OBVIOUS
  <1>3. /\ s \in ClientSockets /\ s.told = us[m].told /\ s.errEmit = us[m].errEmit
        /\ s.stopped = us[m].stopped /\ s.early = us[m].early /\ s.watched = us[m].watched
        /\ s.hard = us[m].hard /\ s.soft = us[m].soft /\ s.bound = us[m].bound
        /\ s.waiting = q /\ s.frozen = us[m].frozen /\ s.used = us[m].used
        /\ s.buffer = us[m].buffer
    BY <1>1, <1>2 DEF ClientSockets
  <1>4. SocketOk(s)
    BY <1>1, <1>3 DEF SocketOk, BufferOk, BoundOk, WaitingOk, ToldOk, WaitsRight
  <1>5. us' = [us EXCEPT ![m] = s]
    BY <1>2 DEF ClientTyped
  <1>6. GoesOn
    BY DEF GoesOn
  <1> QED
    BY <1>3, <1>4, <1>5, <1>6, OneSocketKeeps

LEMMA WaitingIs ==
  ASSUME ClientInv, NEW m \in Tries
  PROVE  /\ us[m] \in ClientSockets /\ us[m].waiting \in Seq(Datagrams)
         /\ us[m].soft \in AnyAddr /\ us[m].hard \in AnyAddr /\ us[m].bound \in AnyAddr
         /\ BoundOk(us[m])
         /\ \A i \in 1 .. Len(us[m].waiting) : WaitsRight(us[m].waiting[i], us[m].hard)
  <1>1. us[m] \in ClientSockets /\ SocketOk(us[m])
    BY DEF ClientInv, ClientTyped
  <1> QED
    BY <1>1 DEF ClientSockets, SocketOk, WaitingOk, WaitsRight

LEMMA SendDatagramKeeps ==
  ASSUME ClientInv, NEW addr \in UdpPeers \cup {NoAddr}, SendDatagram(addr)
  PROVE  ClientInv'
  <1> USE UdpClientAssumption
  <1>1. latest # 0 /\ ClientTyped
    BY DEF SendDatagram, MayCall, UserMayCall, ClientInv
  <1>2. PICK m \in Tries : m = latest
    BY <1>1, StepsOfConnect
  <1>3. PICK d : d = [own |-> TakesAlong(us[m], addr),
                      meant |-> IF addr = NoAddr \/ us[m].hard # NoAddr THEN us[m].bound ELSE addr]
    OBVIOUS
  <1>4. /\ us' = [us EXCEPT ![m].waiting = Append(us[m].waiting, d)]
        /\ UNCHANGED <<latest, ticks, connects, serves, errTasks, strays>>
    BY <1>1, <1>2, <1>3 DEF SendDatagram, ClientTyped
  <1>5. d \in Datagrams
    <2>1. /\ TakesAlong(us[m], addr) \in AnyAddr
          /\ (IF addr = NoAddr \/ us[m].hard # NoAddr THEN us[m].bound ELSE addr) \in AnyAddr
      BY WaitingIs DEF TakesAlong, AnyAddr
    <2> QED
      BY <1>3, <2>1 DEF Datagrams
  <1>6. WaitsRight(d, us[m].hard)
    <2>1. /\ d.own = (IF addr = NoAddr THEN us[m].soft ELSE IF us[m].hard # NoAddr THEN NoAddr ELSE addr)
          /\ d.meant = (IF addr = NoAddr \/ us[m].hard # NoAddr THEN us[m].bound ELSE addr)
      BY <1>3 DEF TakesAlong
    <2> QED
      BY <2>1, WaitingIs DEF WaitsRight, BoundOk
  <1>7. PICK q \in Seq(Datagrams) : q = us[m].waiting
    BY WaitingIs
  <1>8. /\ Append(q, d) \in Seq(Datagrams) /\ Len(Append(q, d)) = Len(q) + 1
        /\ \A i \in 1 .. Len(q) : Append(q, d)[i] = q[i]
        /\ Append(q, d)[Len(q) + 1] = d
    BY <1>5
  <1>9. \A i \in 1 .. Len(q) : WaitsRight(q[i], us[m].hard)
    BY <1>7, WaitingIs
  <1>10. \A i \in 1 .. Len(Append(q, d)) : i = Len(q) + 1 \/ i \in 1 .. Len(q)
    BY ONLY <1>8, q \in Seq(Datagrams)
  <1>11. \A i \in 1 .. Len(Append(q, d)) : WaitsRight(Append(q, d)[i], us[m].hard)
    BY <1>6, <1>8, <1>9, <1>10
  <1>12. us' = [us EXCEPT ![m].waiting = Append(q, d)]
    BY <1>4, <1>7
  <1> QED
    BY <1>4, <1>8, <1>11, <1>12, WaitingChangeKeeps

LEMMA LeaveKeeps ==
  ASSUME ClientInv, NEW m \in Tries, Leave(m)
  PROVE  ClientInv'
  <1> USE UdpClientAssumption
  <1>1. PICK q \in Seq(Datagrams) : q = us[m].waiting
    BY WaitingIs
  <1>2. /\ q # <<>> /\ us' = [us EXCEPT ![m].waiting = Tail(q)]
        /\ UNCHANGED <<latest, ticks, connects, serves, errTasks>>
    <2>1. us' = [us EXCEPT ![m].waiting = Tail(@)]
      BY DEF Leave
    <2>2. us' = [us EXCEPT ![m].waiting = Tail(us[m].waiting)]
      BY <2>1 DEF ClientInv, ClientTyped
    <2> QED
      BY <1>1, <2>2 DEF Leave
  <1>3. \A i \in 1 .. Len(q) : WaitsRight(q[i], us[m].hard)
    BY <1>1, WaitingIs
  <1>4. 1 \in 1 .. Len(q)
    BY <1>2
  <1>5. WaitsRight(q[1], us[m].hard)
    BY <1>3, <1>4
  <1>6. strays' = strays
    <2>1. \/ strays' = (strays \/ (IF q[1].own = NoAddr THEN us[m].hard ELSE q[1].own)
                                     \notin {q[1].meant, NoAddr})
          \/ strays' = strays
      BY <1>1 DEF Leave
    <2>2. (IF q[1].own = NoAddr THEN us[m].hard ELSE q[1].own) \in {q[1].meant, NoAddr}
      BY <1>5 DEF WaitsRight
    <2>3. strays = FALSE
      BY DEF ClientInv, ClientTyped
    <2> QED
      BY <2>1, <2>2, <2>3
  <1>7. /\ Tail(q) \in Seq(Datagrams)
        /\ \A i \in 1 .. Len(Tail(q)) : i + 1 \in 1 .. Len(q) /\ Tail(q)[i] = q[i + 1]
    BY <1>2
  <1>8. \A i \in 1 .. Len(Tail(q)) : WaitsRight(Tail(q)[i], us[m].hard)
    BY <1>3, <1>7
  <1> QED
    BY <1>2, <1>6, <1>7, <1>8, WaitingChangeKeeps

(* Only the poller goes on, and it does not leave the error callback of a   *)
(* Socket.                                                                  *)
LEMMA ServesKeeps ==
  ASSUME ClientInv, serves' \in Serving, ~Unborn, \A n \in Tries : ~InError(n),
         UNCHANGED <<latest, ticks, us, connects, errTasks, strays>>
  PROVE  ClientInv'
  <1> USE DEF ClientInv
  <1>1. ClientTyped' /\ (\A n \in Tries : SocketOk(us'[n])) /\ ErrInv' /\ StoppedInv'
    <2>1. ClientTyped' /\ StoppedInv'
      BY DEF ClientTyped, StoppedInv
    <2>2. us' = us /\ \A n \in Tries : SocketOk(us'[n])
      OBVIOUS
    <2>3. ErrInv'
      BY DEF ErrInv, ErrOk
    <2> QED
      BY <2>1, <2>2, <2>3
  <1>2. ClosedInv'
    BY DEF ClosedInv
  <1>3. FreshInv'
    <2>1. ~Unborn'
      BY DEF Unborn
    <2> QED
      BY <2>1 DEF FreshInv
  <1> QED
    BY <1>1, <1>2, <1>3

LEMMA PollerOnlyKeeps ==
  ASSUME ClientInv, (\E n \in Tries : Readable(n)) \/ TakePacket \/ Manager
  PROVE  ClientInv'
  <1>0. ClientTyped
    BY DEF ClientInv
  <1>1. UNCHANGED <<latest, ticks, us, connects, errTasks, strays>>
    BY DEF Readable, TakePacket, Manager
  <1>2. \A n \in Tries : ~InError(n)
    BY DEF Readable, TakePacket, Manager, InError, AtRestNow
  <1>3. ~Unborn
    <2>1. CASE \E n \in Tries : Readable(n)
      BY <2>1 DEF Readable, ClientInv, FreshInv
    <2>2. CASE TakePacket
      BY <2>2 DEF TakePacket, ClientInv, FreshInv, AtRestNow
    <2>3. CASE Manager
      BY <2>3 DEF Manager, ClientInv, ClientTyped, Unborn, Nowhere
    <2> QED
      BY <2>1, <2>2, <2>3
  <1>4. serves' \in Serving
    <2>1. CASE \E n \in Tries : Readable(n)
      BY <2>1 DEF Readable, Serving, Tries
    <2>2. CASE TakePacket
      BY <1>0, <2>2 DEF TakePacket, ClientTyped, Serving, AtRestNow
    <2>3. CASE Manager
      BY <2>3 DEF Manager, Serving
    <2> QED
      BY <2>1, <2>2, <2>3
  <1> QED
    BY <1>1, <1>2, <1>3, <1>4, ServesKeeps

(* Inside a callback startConnect of the user, if one is under way, has its *)
(* Socket bound.                                                            *)
LEMMA CalledLate ==
  ASSUME ClientInv, InCallback
  PROVE  connects.step # "bind" /\ ~Unborn /\ latest # 0 /\ latest \in Tries
  <1>1. serves # AtRestNow /\ connects.by # "poller"
    BY DEF InCallback, PollerFree, AtRestNow
  <1>2. ~Unborn
    BY <1>1 DEF ClientInv, FreshInv
  <1> QED
    BY <1>1, <1>2, StepsOfConnect DEF ClientInv, Unborn, ClientTyped, Nowhere

LEMMA MayCallIs ==
  ASSUME ClientInv, MayCall
  PROVE  connects.step # "bind" /\ ~Unborn /\ latest # 0 /\ latest \in Tries
  <1>1. CASE UserMayCall
    BY <1>1, StepsOfConnect DEF UserMayCall, ClientInv, Unborn, Nowhere
  <1>2. CASE InCallback
    BY <1>2, CalledLate
  <1> QED
    BY <1>1, <1>2 DEF MayCall

LEMMA EmitErrKeeps ==
  ASSUME ClientInv, connects.step # "bind", latest \in Tries, ~Unborn,
         ticks' = 0, EmitErr(latest), serves' \in Serving,
         serves' = serves \/ (\A n \in Tries : ~InError(n)),
         UNCHANGED <<latest, connects, strays>>
  PROVE  ClientInv'
  <1> USE UdpClientAssumption DEF ClientInv
  <1>1. PICK m \in Tries : m = latest
    OBVIOUS
  <1>2. PICK s : s = [us[m] EXCEPT !.errEmit = TRUE, !.stopped = TRUE]
    OBVIOUS
  <1>3. us[m] \in ClientSockets /\ SocketOk(us[m])
    BY DEF ClientTyped
  <1>4. /\ s \in ClientSockets /\ s.told = us[m].told /\ s.errEmit = TRUE /\ s.stopped = TRUE
        /\ s.early = us[m].early /\ s.watched = us[m].watched
        /\ s.hard = us[m].hard /\ s.soft = us[m].soft /\ s.bound = us[m].bound
        /\ s.waiting = us[m].waiting /\ s.frozen = us[m].frozen /\ s.used = us[m].used
        /\ s.buffer = us[m].buffer
    BY <1>2, <1>3 DEF ClientSockets
  <1>5. SocketOk(s)
    BY <1>3, <1>4 DEF SocketOk, BufferOk, BoundOk, WaitingOk, ToldOk
  <1>6. us' \in [Tries -> ClientSockets] /\ us'[m] = s /\ \A n \in Tries : n # m => us'[n] = us[n]
    BY <1>1, <1>2, <1>4 DEF EmitErr, ClientTyped
  <1>7. errTasks \in Seq(Tries)
    BY DEF ClientTyped
  <1>8. errTasks' = IF us[m].errEmit THEN errTasks ELSE Append(errTasks, m)
    BY <1>1 DEF EmitErr
  <1>9. ClientTyped'
    BY <1>6, <1>7, <1>8 DEF ClientTyped
  <1>10. \A n \in Tries : SocketOk(us'[n])
    BY <1>5, <1>6
  <1>11. ErrInv'
    <2>1. \A n \in Tries : ErrOk(n, us[n]) => ErrOk(n, us[n])'
      BY <1>4, <1>6 DEF ErrOk
    <2>2. \A i \in 1 .. Len(errTasks) : errTasks[i] \in Tries /\ ErrOk(errTasks[i], us[errTasks[i]])
      BY <1>7 DEF ErrInv
    <2>3. CASE us[m].errEmit
      BY <1>8, <2>1, <2>2, <2>3 DEF ErrInv, ErrOk
    <2>4. CASE ~us[m].errEmit
      <3>1. us[m].told = 0
        BY <1>3, <2>4 DEF SocketOk, ToldOk, ClientSockets
      <3>2. m <= latest' /\ us'[m].errEmit /\ us'[m].told = 0 /\ us'[m].stopped
        BY <1>1, <1>4, <1>6, <3>1 DEF Tries
      <3>3. \A i \in 1 .. Len(errTasks) : errTasks[i] # m
        BY <2>2, <2>4 DEF ErrOk
      <3>4. PICK q \in Seq(Tries) : q = errTasks /\ errTasks' = Append(q, m)
        BY <1>7, <1>8, <2>4
      <3>5. /\ \A i \in 1 .. Len(q) : Append(q, m)[i] = q[i]
            /\ Append(q, m)[Len(q) + 1] = m /\ Len(Append(q, m)) = Len(q) + 1
        OBVIOUS
      <3>6. \A i \in 1 .. Len(Append(q, m)) : i = Len(q) + 1 \/ i \in 1 .. Len(q)
        BY ONLY <3>5, q \in Seq(Tries)
      <3>7. \A i, j \in 1 .. Len(q) : q[i] = q[j] => i = j
        BY <3>4 DEF ErrInv
      <3>8. \A i, j \in 1 .. Len(Append(q, m)) : Append(q, m)[i] = Append(q, m)[j] => i = j
        BY <3>3, <3>4, <3>5, <3>6, <3>7
      <3>9. \A i \in 1 .. Len(q) : /\ q[i] <= latest' /\ us'[q[i]].errEmit
                                   /\ us'[q[i]].told = 0 /\ us'[q[i]].stopped
        BY <2>1, <2>2, <3>4 DEF ErrOk
      <3>10. \A i \in 1 .. Len(Append(q, m)) :
               /\ Append(q, m)[i] <= latest' /\ us'[Append(q, m)[i]].errEmit
               /\ us'[Append(q, m)[i]].told = 0 /\ us'[Append(q, m)[i]].stopped
        BY <3>2, <3>5, <3>6, <3>9
      <3> QED
        BY <3>4, <3>8, <3>10 DEF ErrInv, ErrOk
    <2> QED
      BY <2>3, <2>4
  <1>12. ClosedInv'
    BY <1>4, <1>6 DEF ClosedInv, InError
  <1>13. FreshInv'
    <2>1. ~Unborn'
      BY DEF Unborn
    <2>2. connects' # Nowhere => latest' # 0 /\ us'[latest'].hard = NoAddr
      BY <1>1, <1>4, <1>6 DEF FreshInv
    <2> QED
      BY <2>1, <2>2 DEF FreshInv
  <1>14. StoppedInv'
    BY <1>1, <1>4, <1>6 DEF StoppedInv
  <1> QED
    BY <1>9, <1>10, <1>11, <1>12, <1>13, <1>14

LEMMA UdpShutdownKeeps ==
  ASSUME ClientInv, UdpShutdown
  PROVE  ClientInv'
  BY MayCallIs, EmitErrKeeps DEF UdpShutdown, ClientInv, ClientTyped

LEMMA RecvThrowsKeeps ==
  ASSUME ClientInv, RecvThrows
  PROVE  ClientInv'
  <1>1. \A n \in Tries : ~InError(n)
    BY DEF RecvThrows, InError
  <1>2. serves' \in Serving
    BY DEF RecvThrows, ClientInv, ClientTyped, Serving
  <1> QED
    BY <1>1, <1>2, CalledLate, EmitErrKeeps DEF RecvThrows

LEMMA CloseEventsIs ==
  ASSUME ClientInv, NEW m \in Tries, CloseEvents(m)
  PROVE  \E s \in ClientSockets :
           /\ us' \in [Tries -> ClientSockets] /\ us'[m] = s
           /\ \A n \in Tries : n # m => us'[n] = us[n]
           /\ SocketOk(s) /\ s.told = us[m].told /\ s.errEmit = us[m].errEmit
           /\ s.stopped = us[m].stopped /\ s.hard = us[m].hard
           /\ s.early \/ ~s.watched
           /\ s.watched => us[m].watched
  <1>1. us[m] \in ClientSockets /\ SocketOk(us[m]) /\ us \in [Tries -> ClientSockets]
    BY DEF ClientInv, ClientTyped
  <1>2. PICK w \in BOOLEAN : w = (us[m].watched /\ ~us[m].fd)
    OBVIOUS
  <1>3. PICK e \in BOOLEAN : e = ~us[m].fd
    OBVIOUS
  <1>4. PICK q \in Seq(Datagrams) : q = <<>>
    <2>1. <<>> \in Seq(Datagrams)
      OBVIOUS
    <2> QED
      BY <2>1
  <1>5. us' = [us EXCEPT ![m].watched = w, ![m].early = e, ![m].waiting = q]
    BY <1>1, <1>2, <1>3, <1>4 DEF CloseEvents
  <1>6. PICK s : s = [us[m] EXCEPT !.watched = w, !.early = e, !.waiting = q]
    OBVIOUS
  <1>7. s \in ClientSockets
    BY <1>1, <1>6 DEF ClientSockets
  <1>8. /\ s.told = us[m].told /\ s.errEmit = us[m].errEmit /\ s.stopped = us[m].stopped
        /\ s.hard = us[m].hard /\ s.soft = us[m].soft /\ s.bound = us[m].bound
        /\ s.frozen = us[m].frozen /\ s.used = us[m].used /\ s.buffer = us[m].buffer
        /\ s.watched = w /\ s.early = e /\ s.waiting = q
    BY <1>1, <1>6 DEF ClientSockets
  <1>9. SocketOk(s)
    <2>1. BufferOk(s) /\ BoundOk(s) /\ ToldOk(s)
      BY <1>1, <1>2, <1>8 DEF SocketOk, BufferOk, BoundOk, ToldOk
    <2>2. s.waiting = <<>>
      BY <1>4, <1>8
    <2>3. WaitingOk(s)
      BY <2>2 DEF WaitingOk
    <2> QED
      BY <2>1, <2>3 DEF SocketOk
  <1>10. (s.early \/ ~s.watched) /\ (s.watched => us[m].watched)
    BY <1>2, <1>3, <1>8
  <1>11. /\ us' \in [Tries -> ClientSockets] /\ us'[m] = s
         /\ \A n \in Tries : n # m => us'[n] = us[n]
    BY <1>1, <1>5, <1>6, <1>7
  <1> QED
    BY <1>7, <1>8, <1>9, <1>10, <1>11

(* A task of emitErr has run: those that are left are of other Sockets.     *)
LEMMA TasksLeft ==
  ASSUME ClientInv, errTasks # <<>>, errTasks' = Tail(errTasks)
  PROVE  /\ errTasks' \in Seq(Tries) /\ errTasks[1] \in Tries
         /\ ErrOk(errTasks[1], us[errTasks[1]])
         /\ \A i \in 1 .. Len(errTasks') : /\ errTasks'[i] \in Tries /\ errTasks'[i] # errTasks[1]
                                           /\ ErrOk(errTasks'[i], us[errTasks'[i]])
         /\ \A i, j \in 1 .. Len(errTasks') : errTasks'[i] = errTasks'[j] => i = j
  <1>1. PICK q \in Seq(Tries) : q = errTasks
    BY DEF ClientInv, ClientTyped
  <1>2. /\ q # <<>> /\ errTasks' = Tail(q) /\ Tail(q) \in Seq(Tries) /\ 1 \in 1 .. Len(q)
        /\ \A i \in 1 .. Len(Tail(q)) :
             i \in Nat /\ i + 1 \in 1 .. Len(q) /\ i + 1 # 1 /\ Tail(q)[i] = q[i + 1]
    BY <1>1
  <1>3. /\ \A i \in 1 .. Len(q) : q[i] \in Tries /\ ErrOk(q[i], us[q[i]])
        /\ \A i, j \in 1 .. Len(q) : q[i] = q[j] => i = j
    BY <1>1 DEF ClientInv, ErrInv
  <1>4. \A i \in 1 .. Len(Tail(q)) : /\ Tail(q)[i] \in Tries /\ Tail(q)[i] # q[1]
                                     /\ ErrOk(Tail(q)[i], us[Tail(q)[i]])
    BY <1>2, <1>3
  <1>5. \A i, j \in 1 .. Len(Tail(q)) : Tail(q)[i] = Tail(q)[j] => i = j
    <2> SUFFICES ASSUME NEW i \in 1 .. Len(Tail(q)), NEW j \in 1 .. Len(Tail(q)),
                        Tail(q)[i] = Tail(q)[j]
                 PROVE  i = j
      OBVIOUS
    <2>1. i + 1 = j + 1 /\ i \in Nat /\ j \in Nat
      BY <1>2, <1>3
    <2> QED
      BY ONLY <2>1
  <1> QED
    BY <1>1, <1>2, <1>3, <1>4, <1>5

LEMMA RunErrKeeps ==
  ASSUME ClientInv, RunErr
  PROVE  ClientInv'
  <1> USE UdpClientAssumption DEF ClientInv
  <1>1. PICK m : m = errTasks[1]
    OBVIOUS
  <1>2. /\ serves = AtRestNow /\ connects.by # "poller" /\ errTasks # <<>>
        /\ errTasks' = Tail(errTasks) /\ UNCHANGED <<latest, connects, strays>>
        /\ \/ UNCHANGED <<ticks, us, serves>>
           \/ /\ m = latest /\ ticks' = 0 /\ us' = [us EXCEPT ![m].told = @ + 1]
              /\ serves' = [what |-> "calls", n |-> m, kind |-> "error"]
           \/ CloseEvents(m) /\ UNCHANGED <<ticks, serves>>
    BY <1>1 DEF RunErr, Heard, PollerFree
  <1>3. /\ errTasks' \in Seq(Tries) /\ m \in Tries /\ ErrOk(m, us[m])
        /\ \A i \in 1 .. Len(errTasks') : /\ errTasks'[i] \in Tries /\ errTasks'[i] # m
                                          /\ ErrOk(errTasks'[i], us[errTasks'[i]])
        /\ \A i, j \in 1 .. Len(errTasks') : errTasks'[i] = errTasks'[j] => i = j
    BY <1>1, <1>2, TasksLeft
  <1>4. ~Unborn /\ connects.step # "bind" /\ ~Unborn'
    BY <1>2, <1>3, StepsOfConnect DEF FreshInv, Unborn, ErrOk, Tries, Nowhere
  <1>5. us[m] \in ClientSockets /\ SocketOk(us[m]) /\ us[m].told = 0 /\ us[m].stopped /\ us[m].errEmit
    BY <1>3 DEF ClientTyped, ErrOk
  <1>6. \A n \in Tries : ~InError(n)
    BY <1>2 DEF InError, AtRestNow
  <1>7. CASE UNCHANGED <<ticks, us, serves>>
    <2>1. ClientTyped' /\ StoppedInv' /\ \A n \in Tries : SocketOk(us'[n])
      BY <1>2, <1>3, <1>7 DEF ClientTyped, StoppedInv
    <2>2. ErrInv' /\ ClosedInv'
      BY <1>2, <1>3, <1>6, <1>7 DEF ErrInv, ErrOk, ClosedInv
    <2>3. FreshInv'
      BY <1>2, <1>4, <1>7 DEF FreshInv
    <2> QED
      BY <2>1, <2>2, <2>3
  <1>8. CASE /\ m = latest /\ ticks' = 0 /\ us' = [us EXCEPT ![m].told = @ + 1]
             /\ serves' = [what |-> "calls", n |-> m, kind |-> "error"]
    <2>1. PICK s : s = [us[m] EXCEPT !.told = 1]
      OBVIOUS
    <2>2. /\ s \in ClientSockets /\ s.told = 1 /\ s.errEmit = us[m].errEmit /\ s.stopped = us[m].stopped
          /\ s.early = us[m].early /\ s.watched = us[m].watched
          /\ s.hard = us[m].hard /\ s.soft = us[m].soft /\ s.bound = us[m].bound
          /\ s.waiting = us[m].waiting /\ s.frozen = us[m].frozen /\ s.used = us[m].used
          /\ s.buffer = us[m].buffer
      BY <1>5, <2>1 DEF ClientSockets
    <2>3. SocketOk(s)
      BY <1>5, <2>2 DEF SocketOk, BufferOk, BoundOk, WaitingOk, ToldOk
    <2>4. us' \in [Tries -> ClientSockets] /\ us'[m] = s /\ \A n \in Tries : n # m => us'[n] = us[n]
      BY <1>3, <1>5, <1>8, <2>1, <2>2 DEF ClientTyped
    <2>5. serves' \in Serving /\ InError(m)'
      BY <1>1, <1>3, <1>8 DEF Serving, Tries, InError
    <2>6. ClientTyped' /\ StoppedInv' /\ \A n \in Tries : SocketOk(us'[n])
      BY <1>2, <1>3, <1>5, <1>8, <2>2, <2>3, <2>4, <2>5 DEF ClientTyped, StoppedInv
    <2>7. ErrInv'
      BY <1>2, <1>3, <2>4 DEF ErrInv, ErrOk
    <2>8. ClosedInv'
      <3>1. \A n \in Tries : n # m /\ us'[n].told = 1 => us'[n].early \/ ~us'[n].watched
        BY <1>6, <2>4 DEF ClosedInv
      <3>2. serves' = [what |-> "calls", n |-> m, kind |-> "error"]
        BY <1>8
      <3> QED
        BY <3>1, <3>2 DEF ClosedInv, InError
    <2>9. FreshInv'
      BY <1>2, <1>3, <1>4, <1>8, <2>2, <2>4 DEF FreshInv
    <2> QED
      BY <2>6, <2>7, <2>8, <2>9
  <1>9. CASE CloseEvents(m) /\ UNCHANGED <<ticks, serves>>
    <2>1. PICK s \in ClientSockets :
           /\ us' \in [Tries -> ClientSockets] /\ us'[m] = s
           /\ \A n \in Tries : n # m => us'[n] = us[n]
           /\ SocketOk(s) /\ s.told = us[m].told /\ s.errEmit = us[m].errEmit
           /\ s.stopped = us[m].stopped /\ s.hard = us[m].hard
           /\ s.early \/ ~s.watched
           /\ s.watched => us[m].watched
      BY <1>3, <1>9, CloseEventsIs
    <2>2. ClientTyped' /\ \A n \in Tries : SocketOk(us'[n])
      BY <1>2, <1>3, <1>9, <2>1 DEF ClientTyped
    <2>3. StoppedInv'
      BY <1>2, <1>5, <1>9, <2>1, StepsOfConnect DEF StoppedInv
    <2>4. ErrInv'
      BY <1>2, <1>3, <2>1 DEF ErrInv, ErrOk
    <2>5. ClosedInv'
      BY <1>5, <1>6, <2>1 DEF ClosedInv
    <2>6. FreshInv'
      <3>1. connects' # Nowhere => latest' # 0 /\ us'[latest'].hard = NoAddr
        BY <1>2, <2>1, StepsOfConnect DEF FreshInv
      <3> QED
        BY <1>2, <1>4, <3>1 DEF FreshInv
    <2> QED
      BY <2>2, <2>3, <2>4, <2>5, <2>6
  <1> QED
    BY <1>2, <1>7, <1>8, <1>9

LEMMA CallbackReturnsKeeps ==
  ASSUME ClientInv, CallbackReturns
  PROVE  ClientInv'
  <1>1. connects.step # "bind" /\ ~Unborn /\ latest # 0 /\ latest \in Tries
    BY CalledLate DEF CallbackReturns
  <1>2. ClientTyped
    BY DEF ClientInv
  <1>3. /\ serves' = IF serves.kind = "read" THEN [serves EXCEPT !.what = "reads"] ELSE AtRestNow
        /\ UNCHANGED <<latest, ticks, connects, errTasks, strays>>
        /\ IF serves.kind = "error" THEN CloseEvents(serves.n) ELSE us' = us
    BY DEF CallbackReturns
  <1>4. serves' \in Serving
    BY <1>2, <1>3 DEF ClientTyped, Serving, AtRestNow
  <1>5. CASE serves.kind # "error" \/ serves.n \notin Tries
    <2>1. us' = us
      BY <1>2, <1>3, <1>5 DEF CloseEvents, ClientTyped
    <2>2. \A n \in Tries : ~InError(n)
      BY <1>5 DEF InError
    <2> QED
      BY <1>1, <1>3, <1>4, <2>1, <2>2, ServesKeeps
  <1>6. CASE serves.kind = "error" /\ serves.n \in Tries
    <2> USE DEF ClientInv
    <2>1. PICK m \in Tries : m = serves.n
      BY <1>6
    <2>2. CloseEvents(m)
      BY <1>3, <1>6, <2>1
    <2>3. PICK s \in ClientSockets :
           /\ us' \in [Tries -> ClientSockets] /\ us'[m] = s
           /\ \A n \in Tries : n # m => us'[n] = us[n]
           /\ SocketOk(s) /\ s.told = us[m].told /\ s.errEmit = us[m].errEmit
           /\ s.stopped = us[m].stopped /\ s.hard = us[m].hard
           /\ s.early \/ ~s.watched
           /\ s.watched => us[m].watched
      BY <2>2, CloseEventsIs
    <2>4. ClientTyped' /\ \A n \in Tries : SocketOk(us'[n])
      BY <1>3, <1>4, <2>3 DEF ClientTyped
    <2>5. StoppedInv'
      BY <1>1, <1>3, <2>3 DEF StoppedInv
    <2>6. ErrInv'
      <3>1. \A n \in Tries : ErrOk(n, us[n]) =>
              n <= latest' /\ us'[n].errEmit /\ us'[n].told = 0 /\ us'[n].stopped
        BY <1>3, <2>3 DEF ErrOk
      <3>2. \A i \in 1 .. Len(errTasks) : errTasks[i] \in Tries
        BY DEF ClientTyped
      <3> QED
        BY <1>3, <3>1, <3>2 DEF ErrInv, ErrOk
    <2>7. ClosedInv'
      <3>1. \A n \in Tries : n # m => ~InError(n)
        BY <2>1 DEF InError
      <3> QED
        BY <2>3, <3>1 DEF ClosedInv
    <2>8. FreshInv'
      <3>1. ~Unborn'
        BY <1>1, <1>3 DEF Unborn
      <3>2. connects' # Nowhere => latest' # 0 /\ us'[latest'].hard = NoAddr
        BY <1>1, <1>3, <2>3 DEF FreshInv
      <3> QED
        BY <1>1, <1>3, <3>1, <3>2 DEF FreshInv
    <2> QED
      BY <2>4, <2>5, <2>6, <2>7, <2>8
  <1> QED
    BY <1>5, <1>6

LEMMA ClientStep ==
  ASSUME ClientInv, [UdpClientNext]_udpClientVars
  PROVE  ClientInv'
  <1>1. CASE UNCHANGED udpClientVars
    <2> USE <1>1 DEF ClientInv, udpClientVars
    <2>1. ClientTyped' /\ StoppedInv' /\ \A n \in Tries : SocketOk(us'[n])
      BY DEF ClientTyped, StoppedInv
    <2>2. ErrInv' /\ ClosedInv'
      BY DEF ErrInv, ErrOk, ClosedInv, InError
    <2>3. FreshInv'
      BY DEF FreshInv, Unborn
    <2> QED
      BY <2>1, <2>2, <2>3
  <1>2. CASE FirstConnect
    BY <1>2, MakeSocketKeeps DEF FirstConnect
  <1>3. CASE Reconnect
    BY <1>3, MakeSocketKeeps DEF Reconnect
  <1>4. CASE BindUdpSock
    BY <1>4, BindUdpSockKeeps
  <1>5. CASE SetSock
    BY <1>5, SetSockKeeps
  <1>6. CASE SoftBind
    BY <1>6, SoftBindKeeps
  <1>7. CASE \E peer \in UdpPeers : HardBind(peer)
    BY <1>7, HardBindKeeps
  <1>8. CASE \E addr \in UdpPeers \cup {NoAddr} : SendDatagram(addr)
    BY <1>8, SendDatagramKeeps
  <1>9. CASE \E n \in Tries : SetUdpRecvBuffer(n)
    BY <1>9, SetUdpRecvBufferKeeps
  <1>10. CASE \E n \in Tries : Leave(n)
    BY <1>10, LeaveKeeps
  <1>11. CASE (\E n \in Tries : Readable(n)) \/ TakePacket \/ Manager
    BY <1>11, PollerOnlyKeeps
  <1>12. CASE UdpShutdown
    BY <1>12, UdpShutdownKeeps
  <1>13. CASE RecvThrows
    BY <1>13, RecvThrowsKeeps
  <1>14. CASE RunErr
    BY <1>14, RunErrKeeps
  <1>15. CASE CallbackReturns
    BY <1>15, CallbackReturnsKeeps
  <1> QED
    BY <1>1, <1>2, <1>3, <1>4, <1>5, <1>6, <1>7, <1>8, <1>9, <1>10, <1>11, <1>12, <1>13, <1>14, <1>15
    DEF UdpClientNext

LEMMA ClientInvServes == ClientInv => UdpClientServed
  <1> SUFFICES ASSUME ClientInv PROVE UdpClientServed
    OBVIOUS
  <1> USE DEF ClientInv
  <1>1. SentWhereMeant
    BY DEF SentWhereMeant, ClientTyped
  <1>2. OldSocketIgnored
    <2>1. connects = Nowhere /\ latest # 0 => ticks \in {0, latest} /\ (ticks = 0 => us[latest].stopped)
      BY DEF ClientTyped, StoppedInv
    <2>2. \A n \in Tries : us[n].told <= 1
      BY DEF SocketOk, ToldOk
    <2>3. \A n \in Tries : us[n].told = 1 /\ serves # [what |-> "calls", n |-> n, kind |-> "error"] =>
                             us[n].early \/ ~us[n].watched
      BY DEF ClosedInv, InError
    <2> QED
      BY <2>1, <2>2, <2>3 DEF OldSocketIgnored
  <1>3. AcceptedBufferUsed
    BY DEF AcceptedBufferUsed, SocketOk, BufferOk
  <1> QED
    BY <1>1, <1>2, <1>3 DEF UdpClientServed

(* A datagram of a UdpClient goes where it was meant to go, a Socket that   *)
(* was replaced is not heard any more, and an accepted receive buffer is    *)
(* the one that is read into: for any number of addresses, of startConnect  *)
(* and of datagrams that wait.                                              *)
THEOREM ClientIsServed == UdpClientSpec => []UdpClientServed
  <1>1. UdpClientInit => ClientInv
    BY ClientInitHolds
  <1>2. ClientInv /\ [UdpClientNext]_udpClientVars => ClientInv'
    BY ClientStep
  <1>3. ClientInv => UdpClientServed
    BY ClientInvServes
  <1> QED
    BY <1>1, <1>2, <1>3, PTL DEF UdpClientSpec

-----------------------------------------------------------------------------
(* Logger: MessagesKept.                                                    *)

LogMessages == [thread : LogThreads, text : Texts, time : Nat]
Tellings == [LogThreads -> [Texts \cup {"bye"} -> Nat]]

LogTyped ==
  /\ clock \in Nat /\ signals \in Nat /\ repeat \in Nat /\ told \in Tellings
  /\ capture \in [LogThreads -> LogMessages \cup {NoMessage}]
  /\ pending \in Seq(LogMessages) /\ flushing \in Seq(LogMessages)
  /\ queued \in Seq(LogMessages) /\ handled \in Seq(LogMessages)
  /\ ending # "yes" => lastLog \in LogMessages \cup {NoMessage}

(* What is swapped out belongs to the writer's thread, and after that has   *)
(* been joined to the destructor; by then nobody logs.                      *)
EndInv ==
  /\ writer \in {"tests", "waits", "flushes", "joined"} /\ ending \in {"no", "joins", "flushes", "yes"}
  /\ flushing # <<>> => writer = "flushes" \/ ending = "flushes"
  /\ writer = "joined" => ending # "no"
  /\ ending \in {"flushes", "yes"} => writer = "joined" /\ pending = <<>>
  /\ ending # "no" => toPost = {} /\ \A t \in LogThreads : capture[t] = NoMessage
  /\ lastLog = NoMessage => repeat = 0

LogInv == LogTyped /\ EndInv /\ EveryMessageWritten /\ RepeatsAccounted

LEMMA LogStarts ==
  ASSUME LogInit
  PROVE  LogInv
<1>1. <<>> \in Seq(LogMessages)
  OBVIOUS
<1>2. LogTyped
  BY <1>1 DEF LogInit, LogTyped, Tellings
<1>3. EndInv
  BY DEF LogInit, EndInv
<1>4. EveryMessageWritten
  <2>1. queued = handled \o flushing \o pending
    BY DEF LogInit
  <2> QED
    BY <2>1 DEF LogInit, EveryMessageWritten
<1>5. RepeatsAccounted
  <2> SUFFICES ASSUME NEW t \in LogThreads, NEW x \in Texts
               PROVE  Handled(t, x) = 0 /\ told[t][x] = 0 /\ repeat = 0
    BY DEF RepeatsAccounted
  <2>1. {i \in DOMAIN handled : handled[i].thread = t /\ handled[i].text = x} = {}
    BY DEF LogInit
  <2>2. Handled(t, x) = 0
    BY <2>1, FS_EmptySet DEF Handled
  <2> QED
    BY <2>2 DEF LogInit
<1> QED
  BY <1>2, <1>3, <1>4, <1>5 DEF LogInv

LEMMA LogSame ==
  ASSUME LogInv, UNCHANGED logVars
  PROVE  LogInv'
<1>1. LogTyped'
  BY DEF LogInv, logVars, LogTyped
<1>2. EndInv'
  BY DEF LogInv, logVars, EndInv
<1>3. EveryMessageWritten' /\ RepeatsAccounted'
  BY DEF LogInv, logVars, EveryMessageWritten, RepeatsAccounted, Handled
<1> QED
  BY <1>1, <1>2, <1>3 DEF LogInv

(* The number of messages handled.                                          *)
LEMMA HandledCounts ==
  ASSUME LogInv, NEW m, handled' = Append(handled, m), NEW t, NEW x
  PROVE  /\ Handled(t, x) \in Nat
         /\ Handled(t, x)' = Handled(t, x) + IF m.thread = t /\ m.text = x THEN 1 ELSE 0
<1> DEFINE H == {i \in DOMAIN handled : handled[i].thread = t /\ handled[i].text = x}
<1>1. /\ DOMAIN handled = 1 .. Len(handled) /\ Len(handled) \in Nat
      /\ DOMAIN handled' = 1 .. Len(handled) + 1 /\ handled'[Len(handled) + 1] = m
      /\ \A i \in 1 .. Len(handled) : handled'[i] = handled[i]
  BY DEF LogInv, LogTyped
<1>2. IsFiniteSet(H) /\ Cardinality(H) \in Nat
  <2>1. IsFiniteSet(1 .. Len(handled))
    BY <1>1, FS_Interval
  <2>2. H \subseteq 1 .. Len(handled)
    BY <1>1
  <2> HIDE DEF H
  <2>3. IsFiniteSet(H)
    BY <2>1, <2>2, FS_Subset
  <2> QED
    BY <2>3, FS_CardinalityType
<1>3. Handled(t, x) = Cardinality(H)
  BY DEF Handled
<1>4. CASE m.thread = t /\ m.text = x
  <2>1. {i \in DOMAIN handled' : handled'[i].thread = t /\ handled'[i].text = x} = H \cup {Len(handled) + 1}
    BY <1>1, <1>4
  <2>2. Len(handled) + 1 \notin H
    BY <1>1
  <2>3. Handled(t, x)' = Cardinality(H \cup {Len(handled) + 1})
    BY <2>1 DEF Handled
  <2> HIDE DEF H
  <2>4. Cardinality(H \cup {Len(handled) + 1}) = Cardinality(H) + 1
    BY <1>2, <2>2, FS_AddElement
  <2> QED
    BY <1>2, <1>3, <1>4, <2>3, <2>4
<1>5. CASE ~(m.thread = t /\ m.text = x)
  <2>1. {i \in DOMAIN handled' : handled'[i].thread = t /\ handled'[i].text = x} = H
    BY <1>1, <1>5
  <2>2. Handled(t, x)' = Cardinality(H)
    BY <2>1 DEF Handled
  <2> HIDE DEF H
  <2> QED
    BY <1>2, <1>3, <1>5, <2>2
<1> QED
  BY <1>4, <1>5

LEMMA TellTells ==
  ASSUME NEW f \in Tellings, NEW m, m.thread \in LogThreads, m.text \in Texts \cup {"bye"}, NEW n \in Nat
  PROVE  /\ Tell(f, m, n) \in Tellings
         /\ \A t \in LogThreads, x \in Texts \cup {"bye"} :
              Tell(f, m, n)[t][x] = f[t][x] + IF t = m.thread /\ x = m.text
                                              THEN (IF n = 0 THEN 1 ELSE n) ELSE 0
<1>1. PICK k \in Nat : k = IF n = 0 THEN 1 ELSE n
  OBVIOUS
<1>2. PICK g \in [Texts \cup {"bye"} -> Nat] : g = [f[m.thread] EXCEPT ![m.text] = @ + k]
  <2>1. PICK h \in [Texts \cup {"bye"} -> Nat] : h = f[m.thread]
    BY DEF Tellings
  <2>2. h[m.text] + k \in Nat
    OBVIOUS
  <2>3. [h EXCEPT ![m.text] = h[m.text] + k] \in [Texts \cup {"bye"} -> Nat]
    BY ONLY <2>2, h \in [Texts \cup {"bye"} -> Nat]
  <2> QED
    BY <2>1, <2>3
<1>3. Tell(f, m, n) = [f EXCEPT ![m.thread] = g]
  BY <1>1, <1>2 DEF Tell, Tellings
<1>4. \A x \in Texts \cup {"bye"} : g[x] = f[m.thread][x] + IF x = m.text THEN k ELSE 0
  BY <1>1, <1>2 DEF Tellings
<1>5. [f EXCEPT ![m.thread] = g] \in Tellings
  BY <1>2 DEF Tellings
<1>6. ASSUME NEW t \in LogThreads, NEW x \in Texts \cup {"bye"}
      PROVE  [f EXCEPT ![m.thread] = g][t][x] = f[t][x] + IF t = m.thread /\ x = m.text THEN k ELSE 0
  <2>1. f[t][x] \in Nat
    BY DEF Tellings
  <2>2. CASE t = m.thread
    BY <1>4, <2>2 DEF Tellings
  <2>3. CASE t # m.thread
    BY <2>1, <2>3 DEF Tellings
  <2> QED
    BY <2>2, <2>3
<1> QED
  BY <1>1, <1>3, <1>5, <1>6

(* A message handed to the channels is told of, at once or with the         *)
(* repetitions.                                                             *)
LEMMA WriteChannelsTells ==
  ASSUME LoggerAssumption, LogInv, NEW m, m.thread \in LogThreads, m.text \in Texts \cup {"bye"},
         ending # "yes", WriteChannels(m)
  PROVE  /\ told' \in Tellings /\ repeat' \in Nat
         /\ lastLog' = m \/ (lastLog' = lastLog /\ lastLog # NoMessage)
         /\ m.text = "bye" => repeat' = 0 /\ lastLog' = m
         /\ \A t \in LogThreads, x \in Texts :
              told'[t][x] + (IF lastLog'.thread = t /\ lastLog'.text = x THEN repeat' ELSE 0) =
              told[t][x] + (IF lastLog # NoMessage /\ lastLog.thread = t /\ lastLog.text = x THEN repeat ELSE 0)
                + IF m.thread = t /\ m.text = x THEN 1 ELSE 0
<1>1. told \in Tellings /\ repeat \in Nat /\ lastLog \in LogMessages \cup {NoMessage}
  BY DEF LogInv, LogTyped
<1>2. lastLog # NoMessage => lastLog.thread \in LogThreads /\ lastLog.text \in Texts
  BY <1>1 DEF LogMessages
<1>3. \A t \in LogThreads, x \in Texts : told[t][x] \in Nat
  BY <1>1 DEF Tellings
<1>4. CASE IsRepeat(m) /\ m.time > lastLog.time
  <2>1. /\ lastLog # NoMessage /\ lastLog.thread = m.thread /\ lastLog.text = m.text
        /\ told' = Tell(told, m, repeat + 1) /\ lastLog' = m /\ repeat' = 0
    BY <1>4 DEF WriteChannels, IsRepeat
  <2>2. repeat + 1 \in Nat /\ repeat + 1 # 0
    BY <1>1
  <2>3. /\ told' \in Tellings
        /\ \A t \in LogThreads, x \in Texts \cup {"bye"} :
             told'[t][x] = told[t][x] + IF t = m.thread /\ x = m.text THEN repeat + 1 ELSE 0
    <3>1. PICK n \in Nat : n = repeat + 1 /\ n # 0
      BY <2>2
    <3>2. told' = Tell(told, m, n)
      BY <2>1, <3>1
    <3>3. /\ Tell(told, m, n) \in Tellings
          /\ \A t \in LogThreads, x \in Texts \cup {"bye"} :
               Tell(told, m, n)[t][x] = told[t][x] + IF t = m.thread /\ x = m.text THEN n ELSE 0
      BY <1>1, <3>1, TellTells
    <3> QED
      BY <3>1, <3>2, <3>3
  <2>4. ASSUME NEW t \in LogThreads, NEW x \in Texts
        PROVE  told'[t][x] + 0 =
               told[t][x] + (IF m.thread = t /\ m.text = x THEN repeat ELSE 0)
                 + IF m.thread = t /\ m.text = x THEN 1 ELSE 0
    BY <1>1, <1>3, <2>3
  <2> QED
    BY <2>1, <2>3, <2>4
<1>5. CASE IsRepeat(m) /\ ~(m.time > lastLog.time)
  <2>1. /\ lastLog # NoMessage /\ lastLog.thread = m.thread /\ lastLog.text = m.text
        /\ told' = told /\ lastLog' = lastLog /\ repeat' = repeat + 1
    BY <1>5 DEF WriteChannels, IsRepeat
  <2>2. m.text # "bye"
    BY <1>2, <2>1 DEF LoggerAssumption
  <2>3. repeat' \in Nat
    BY <1>1, <2>1
  <2>4. ASSUME NEW t \in LogThreads, NEW x \in Texts
        PROVE  told'[t][x] + (IF lastLog'.thread = t /\ lastLog'.text = x THEN repeat' ELSE 0) =
               told[t][x] + (IF lastLog # NoMessage /\ lastLog.thread = t /\ lastLog.text = x THEN repeat ELSE 0)
                 + IF m.thread = t /\ m.text = x THEN 1 ELSE 0
    BY <1>1, <1>3, <2>1
  <2> QED
    BY <1>1, <2>1, <2>2, <2>3, <2>4
<1>6. CASE ~IsRepeat(m)
  <2>1. /\ told' = Tell(IF repeat > 0 THEN Tell(told, lastLog, repeat) ELSE told, m, 0)
        /\ lastLog' = m /\ repeat' = 0
    BY <1>6 DEF WriteChannels
  <2>2. PICK f : f = IF repeat > 0 THEN Tell(told, lastLog, repeat) ELSE told
    OBVIOUS
  <2>3. /\ f \in Tellings
        /\ \A t \in LogThreads, x \in Texts \cup {"bye"} :
             f[t][x] = told[t][x] + IF lastLog # NoMessage /\ t = lastLog.thread /\ x = lastLog.text THEN repeat ELSE 0
    <3>1. CASE repeat > 0
      <4>1. lastLog # NoMessage /\ f = Tell(told, lastLog, repeat) /\ repeat # 0
        BY <1>1, <2>2, <3>1 DEF LogInv, EndInv
      <4>2. lastLog.thread \in LogThreads /\ lastLog.text \in Texts \cup {"bye"} /\ told \in Tellings /\ repeat \in Nat
        BY <1>1, <1>2, <4>1
      <4>3. /\ Tell(told, lastLog, repeat) \in Tellings
            /\ \A t \in LogThreads, x \in Texts \cup {"bye"} :
                 Tell(told, lastLog, repeat)[t][x] =
                   told[t][x] + IF t = lastLog.thread /\ x = lastLog.text THEN (IF repeat = 0 THEN 1 ELSE repeat) ELSE 0
        BY ONLY <4>2, TellTells
      <4> QED
        BY <4>1, <4>3
    <3>2. CASE ~(repeat > 0)
      <4>1. f = told /\ repeat = 0
        BY <1>1, <2>2, <3>2
      <4>2. \A t \in LogThreads, x \in Texts \cup {"bye"} : told[t][x] \in Nat
        BY <1>1 DEF Tellings
      <4> QED
        BY <1>1, <4>1, <4>2
    <3> QED
      BY <3>1, <3>2
  <2>4. /\ told' \in Tellings
        /\ \A t \in LogThreads, x \in Texts \cup {"bye"} :
             told'[t][x] = f[t][x] + IF t = m.thread /\ x = m.text THEN 1 ELSE 0
    <3>1. told' = Tell(f, m, 0) /\ 0 \in Nat
      BY <2>1, <2>2
    <3> QED
      BY <2>3, <3>1, TellTells
  <2>5. ASSUME NEW t \in LogThreads, NEW x \in Texts
        PROVE  told'[t][x] + 0 =
               told[t][x] + (IF lastLog # NoMessage /\ lastLog.thread = t /\ lastLog.text = x THEN repeat ELSE 0)
                 + IF m.thread = t /\ m.text = x THEN 1 ELSE 0
    <3>1. told[t][x] \in Nat
      BY <1>3
    <3>2. told'[t][x] = f[t][x] + IF t = m.thread /\ x = m.text THEN 1 ELSE 0
      BY <2>4
    <3>3. f[t][x] = told[t][x] + IF lastLog # NoMessage /\ t = lastLog.thread /\ x = lastLog.text THEN repeat ELSE 0
      BY <2>3
    <3> QED
      BY <1>1, <3>1, <3>2, <3>3
  <2> QED
    BY <2>1, <2>4, <2>5
<1> QED
  BY <1>4, <1>5, <1>6

LEMMA PassOn ==
  ASSUME NEW S, NEW a \in Seq(S), NEW b \in Seq(S), b # <<>>
  PROVE  /\ Append(a, Head(b)) \o Tail(b) = a \o b
         /\ Head(b) \in S /\ Tail(b) \in Seq(S) /\ Append(a, Head(b)) \in Seq(S)
<1>1. Head(b) \in S /\ Tail(b) \in Seq(S) /\ Len(b) \in Nat \ {0} /\ Len(Tail(b)) = Len(b) - 1
      /\ Head(b) = b[1] /\ \A i \in 1 .. Len(b) - 1 : Tail(b)[i] = b[i + 1]
  BY HeadTailProperties
<1>2. Append(a, Head(b)) \in Seq(S) /\ Len(Append(a, Head(b))) = Len(a) + 1 /\ Len(a) \in Nat
      /\ \A i \in 1 .. Len(a) : Append(a, Head(b))[i] = a[i]
      /\ Append(a, Head(b))[Len(a) + 1] = b[1]
  BY <1>1, AppendProperties
<1> DEFINE p == Append(a, Head(b)) \o Tail(b)
           q == a \o b
<1>3. p \in Seq(S) /\ q \in Seq(S) /\ Len(p) = Len(a) + 1 + (Len(b) - 1) /\ Len(q) = Len(a) + Len(b)
  BY <1>1, <1>2, ConcatProperties
<1>4. Len(p) = Len(q)
  BY <1>1, <1>2, <1>3
<1>5. ASSUME NEW i \in 1 .. Len(q) PROVE p[i] = q[i]
  <2>1. i \in 1 .. Len(a) + Len(b)
    BY <1>3
  <2>2. p[i] = IF i <= Len(a) + 1 THEN Append(a, Head(b))[i] ELSE Tail(b)[i - (Len(a) + 1)]
    BY <1>1, <1>2, <1>3, <1>4, ConcatProperties
  <2>3. q[i] = IF i <= Len(a) THEN a[i] ELSE b[i - Len(a)]
    BY <1>3, ConcatProperties
  <2>4. CASE i <= Len(a)
    BY <1>1, <1>2, <2>1, <2>2, <2>3, <2>4
  <2>5. CASE i = Len(a) + 1
    <3>1. i - Len(a) = 1 /\ ~(i <= Len(a))
      BY <1>2, <2>5
    <3> QED
      BY <1>1, <1>2, <2>2, <2>3, <2>5, <3>1
  <2>6. CASE i > Len(a) + 1
    <3>1. i - (Len(a) + 1) \in 1 .. Len(b) - 1 /\ (i - (Len(a) + 1)) + 1 = i - Len(a)
          /\ ~(i <= Len(a)) /\ ~(i <= Len(a) + 1)
      BY <1>1, <1>2, <2>1, <2>6
    <3> QED
      BY <1>1, <2>2, <2>3, <3>1
  <2> QED
    BY <1>2, <2>1, <2>4, <2>5, <2>6
<1> HIDE DEF p, q
<1>6. p = q
  BY <1>3, <1>4, <1>5, SeqEqual
<1> QED
  BY <1>1, <1>2, <1>6 DEF p, q

-----------------------------------------------------------------------------
(* Steps that move no message.                                              *)
LEMMA NothingMovesKeeps ==
  ASSUME LogInv, UNCHANGED <<pending, flushing, queued, handled, lastLog, repeat, told>>,
         clock' \in Nat, signals' \in Nat, capture' \in [LogThreads -> LogMessages \cup {NoMessage}],
         pending # <<>> => signals' > 0 \/ toPost' # {} \/ ending' = "joins",
         ending' = ending \/ (ending = "no" /\ ending' = "joins"),
         EndInv'
  PROVE  LogInv'
<1>1. LogTyped'
  BY DEF LogInv, LogTyped, EndInv
<1>2. EveryMessageWritten'
  BY DEF LogInv, EveryMessageWritten
<1>3. RepeatsAccounted'
  BY DEF LogInv, RepeatsAccounted, Handled
<1> QED
  BY <1>1, <1>2, <1>3 DEF LogInv

LEMMA ClockTickKeeps ==
  ASSUME LogInv, ClockTick
  PROVE  LogInv'
<1>1. clock' \in Nat /\ EndInv'
  BY DEF ClockTick, LogInv, LogTyped, EndInv
<1> QED
  BY <1>1, NothingMovesKeeps DEF ClockTick, LogInv, LogTyped, EveryMessageWritten

LEMMA CaptureKeeps ==
  ASSUME LogInv, NEW t \in LogThreads, NEW x \in Texts, Capture(t, x)
  PROVE  LogInv'
<1>1. [thread |-> t, text |-> x, time |-> clock] \in LogMessages
  BY DEF LogInv, LogTyped, LogMessages
<1>2. capture' \in [LogThreads -> LogMessages \cup {NoMessage}]
  BY <1>1 DEF Capture, LogInv, LogTyped
<1>3. EndInv'
  BY DEF Capture, LogInv, EndInv
<1> QED
  BY <1>2, <1>3, NothingMovesKeeps DEF Capture, LogInv, LogTyped, EveryMessageWritten

LEMMA PostKeeps ==
  ASSUME LogInv, NEW t \in LogThreads, Post(t)
  PROVE  LogInv'
<1>1. signals' \in Nat /\ signals' > 0
  BY DEF Post, LogInv, LogTyped
<1>2. EndInv'
  BY DEF Post, LogInv, EndInv
<1> QED
  BY <1>1, <1>2, NothingMovesKeeps DEF Post, LogInv, LogTyped

LEMMA ClearCaptureKeeps ==
  ASSUME LogInv, NEW t \in LogThreads, ClearCapture(t)
  PROVE  LogInv'
<1>1. capture' \in [LogThreads -> LogMessages \cup {NoMessage}]
  BY DEF ClearCapture, LogInv, LogTyped
<1>2. EndInv'
  BY DEF ClearCapture, LogInv, LogTyped, EndInv
<1> QED
  BY <1>1, <1>2, NothingMovesKeeps DEF ClearCapture, LogInv, LogTyped, EveryMessageWritten

LEMMA WriterTestsKeeps ==
  ASSUME LogInv, WriterTests
  PROVE  LogInv'
<1>1. EndInv'
  BY DEF WriterTests, LogInv, EndInv
<1> QED
  BY <1>1, NothingMovesKeeps DEF WriterTests, LogInv, LogTyped, EveryMessageWritten

LEMMA EndWriterKeeps ==
  ASSUME LogInv, EndWriter
  PROVE  LogInv'
<1>1. signals' \in Nat /\ EndInv'
  BY DEF EndWriter, LogInv, LogTyped, EndInv
<1> QED
  BY <1>1, NothingMovesKeeps DEF EndWriter, LogInv, LogTyped

-----------------------------------------------------------------------------
(* Steps that move messages from one list to the next.                      *)
LEMMA LogWriteKeeps ==
  ASSUME LogInv, NEW t \in LogThreads, LogWrite(t)
  PROVE  LogInv'
<1> DEFINE m == capture[t]
<1>1. m \in LogMessages /\ ending = "no"
  BY DEF LogWrite, LogInv, LogTyped, EndInv
<1>2. capture' \in [LogThreads -> LogMessages \cup {NoMessage}] /\ toPost' = toPost \cup {t}
      /\ UNCHANGED <<clock, signals, flushing, writer, ending, lastLog, repeat, told, handled>>
  BY DEF LogWrite, LogInv, LogTyped
<1>3. pending' = Append(pending, m) /\ queued' = Append(queued, m)
  BY DEF LogWrite
<1> HIDE DEF m
<1>4. LogTyped'
  BY <1>1, <1>2, <1>3 DEF LogInv, LogTyped
<1>5. EndInv'
  BY <1>1, <1>2, <1>3 DEF LogInv, EndInv
<1>6. queued' = handled' \o flushing' \o pending'
  <2>1. PICK a \in Seq(LogMessages) : a = handled \o flushing
    BY ConcatProperties DEF LogInv, LogTyped
  <2>2. queued = a \o pending /\ pending \in Seq(LogMessages) /\ <<m>> \in Seq(LogMessages)
    BY <1>1, <2>1 DEF LogInv, LogTyped, EveryMessageWritten
  <2>3. queued' = queued \o <<m>> /\ pending' = pending \o <<m>>
    BY <1>1, <1>3, AppendIsConcat DEF LogInv, LogTyped
  <2>4. (a \o pending) \o <<m>> = a \o (pending \o <<m>>)
    BY <2>1, <2>2, ConcatAssociative
  <2> QED
    BY <1>2, <2>1, <2>2, <2>3, <2>4
<1>7. EveryMessageWritten'
  BY <1>1, <1>2, <1>6 DEF EveryMessageWritten
<1>8. RepeatsAccounted'
  BY <1>2 DEF LogInv, RepeatsAccounted, Handled
<1> QED
  BY <1>4, <1>5, <1>7, <1>8 DEF LogInv

LEMMA SwapOut ==
  ASSUME LogInv, flushing = <<>>, flushing' = pending, pending' = <<>>,
         UNCHANGED <<clock, capture, queued, handled, lastLog, repeat, told>>, signals' \in Nat,
         ending' # "yes", ending # "yes", EndInv'
  PROVE  LogInv'
<1>1. <<>> \in Seq(LogMessages)
  OBVIOUS
<1>2. LogTyped'
  BY <1>1 DEF LogInv, LogTyped
<1>3. queued' = handled' \o flushing' \o pending'
  <2>1. PICK a \in Seq(LogMessages) : a = handled
    BY DEF LogInv, LogTyped
  <2>2. PICK b \in Seq(LogMessages) : b = pending
    BY DEF LogInv, LogTyped
  <2>3. a \o <<>> = a /\ a \o b \in Seq(LogMessages)
    BY ConcatEmptySeq, ConcatProperties
  <2>4. (a \o b) \o <<>> = a \o b
    BY <2>3, ConcatEmptySeq
  <2>5. queued = (a \o <<>>) \o b
    BY <2>1, <2>2 DEF LogInv, EveryMessageWritten
  <2> QED
    BY <2>1, <2>2, <2>3, <2>4, <2>5
<1>4. EveryMessageWritten'
  BY <1>3 DEF EveryMessageWritten
<1>5. RepeatsAccounted'
  BY DEF LogInv, RepeatsAccounted, Handled
<1> QED
  BY <1>2, <1>4, <1>5 DEF LogInv

LEMMA WriterWakesKeeps ==
  ASSUME LogInv, WriterWakes
  PROVE  LogInv'
<1>1. signals' \in Nat
  BY DEF WriterWakes, LogInv, LogTyped
<1>2. ending \notin {"flushes", "yes"} /\ flushing = <<>>
  BY DEF WriterWakes, LogInv, EndInv
<1>3. EndInv'
  BY <1>2 DEF WriterWakes, LogInv, EndInv
<1> QED
  BY <1>1, <1>2, <1>3, SwapOut DEF WriterWakes

LEMMA JoinKeeps ==
  ASSUME LogInv, Join
  PROVE  LogInv'
<1>1. signals' \in Nat /\ flushing = <<>>
  BY DEF Join, LogInv, LogTyped, EndInv
<1>2. EndInv'
  BY DEF Join, LogInv, EndInv
<1> QED
  BY <1>1, <1>2, SwapOut DEF Join

LEMMA WriteNextKeeps ==
  ASSUME LoggerAssumption, LogInv, WriteNext
  PROVE  LogInv'
<1> DEFINE m == Head(flushing)
<1>1. /\ handled' = Append(handled, m) /\ flushing' = Tail(flushing) /\ flushing # <<>> /\ WriteChannels(m)
      /\ UNCHANGED <<clock, capture, toPost, pending, signals, writer, ending, queued>>
  BY DEF WriteNext
<1>2. ending # "yes"
  BY <1>1 DEF LogInv, EndInv
<1>3. handled \in Seq(LogMessages) /\ flushing \in Seq(LogMessages) /\ pending \in Seq(LogMessages)
  BY DEF LogInv, LogTyped
<1>4. /\ Append(handled, m) \o Tail(flushing) = handled \o flushing
      /\ m \in LogMessages /\ Tail(flushing) \in Seq(LogMessages) /\ Append(handled, m) \in Seq(LogMessages)
  BY <1>1, <1>3, PassOn
<1> HIDE DEF m
<1>5. m.thread \in LogThreads /\ m.text \in Texts
  BY <1>4 DEF LogMessages
<1>6. /\ told' \in Tellings /\ repeat' \in Nat
      /\ lastLog' = m \/ (lastLog' = lastLog /\ lastLog # NoMessage)
      /\ \A t \in LogThreads, x \in Texts :
           told'[t][x] + (IF lastLog'.thread = t /\ lastLog'.text = x THEN repeat' ELSE 0) =
           told[t][x] + (IF lastLog # NoMessage /\ lastLog.thread = t /\ lastLog.text = x THEN repeat ELSE 0)
             + IF m.thread = t /\ m.text = x THEN 1 ELSE 0
  BY <1>1, <1>2, <1>5, WriteChannelsTells
<1>7. lastLog' # NoMessage /\ lastLog' \in LogMessages
  BY <1>2, <1>4, <1>6 DEF LoggerAssumption, LogMessages, LogInv, LogTyped
<1>8. LogTyped'
  BY <1>1, <1>4, <1>6, <1>7 DEF LogInv, LogTyped
<1>9. EndInv'
  <2>1. flushing' # <<>> => flushing # <<>>
    BY <1>1
  <2> QED
    BY <1>1, <1>7, <2>1 DEF LogInv, EndInv
<1>10. EveryMessageWritten'
  BY <1>1, <1>2, <1>4 DEF LogInv, EveryMessageWritten
<1>11. RepeatsAccounted'
  <2> SUFFICES ASSUME NEW t \in LogThreads, NEW x \in Texts
               PROVE  told'[t][x] + (IF lastLog'.thread = t /\ lastLog'.text = x THEN repeat' ELSE 0)
                        = Handled(t, x)'
    BY <1>7 DEF RepeatsAccounted
  <2>1. Handled(t, x)' = Handled(t, x) + IF m.thread = t /\ m.text = x THEN 1 ELSE 0
    BY <1>1, HandledCounts
  <2>2. told[t][x] + (IF lastLog # NoMessage /\ lastLog.thread = t /\ lastLog.text = x THEN repeat ELSE 0)
          = Handled(t, x)
    BY DEF LogInv, RepeatsAccounted
  <2> QED
    BY <1>6, <2>1, <2>2
<1> QED
  BY <1>8, <1>9, <1>10, <1>11 DEF LogInv

LEMMA GoodbyeKeeps ==
  ASSUME LoggerAssumption, LogInv, Goodbye
  PROVE  LogInv'
<1>1. PICK s \in LogThreads : WriteChannels([thread |-> s, text |-> "bye", time |-> clock])
  BY DEF Goodbye
<1> DEFINE m == [thread |-> s, text |-> "bye", time |-> clock]
<1>2. /\ ending = "flushes" /\ ending' = "yes" /\ flushing = <<>> /\ WriteChannels(m)
      /\ UNCHANGED <<clock, capture, toPost, pending, signals, flushing, writer, queued, handled>>
  BY <1>1 DEF Goodbye
<1>3. m.thread \in LogThreads /\ m.text = "bye"
  OBVIOUS
<1> HIDE DEF m
<1>4. /\ told' \in Tellings /\ repeat' = 0 /\ lastLog' = m
      /\ \A t \in LogThreads, x \in Texts :
           told'[t][x] + (IF lastLog'.thread = t /\ lastLog'.text = x THEN repeat' ELSE 0) =
           told[t][x] + (IF lastLog # NoMessage /\ lastLog.thread = t /\ lastLog.text = x THEN repeat ELSE 0)
             + IF m.thread = t /\ m.text = x THEN 1 ELSE 0
  <2>1. m.thread \in LogThreads /\ m.text \in Texts \cup {"bye"} /\ ending # "yes" /\ WriteChannels(m)
    BY <1>2, <1>3
  <2>2. /\ told' \in Tellings /\ repeat' \in Nat
        /\ m.text = "bye" => repeat' = 0 /\ lastLog' = m
        /\ \A t \in LogThreads, x \in Texts :
             told'[t][x] + (IF lastLog'.thread = t /\ lastLog'.text = x THEN repeat' ELSE 0) =
             told[t][x] + (IF lastLog # NoMessage /\ lastLog.thread = t /\ lastLog.text = x THEN repeat ELSE 0)
               + IF m.thread = t /\ m.text = x THEN 1 ELSE 0
    BY <2>1, WriteChannelsTells
  <2> QED
    BY <1>3, <2>2
<1>5. LogTyped'
  BY <1>2, <1>4 DEF LogInv, LogTyped
<1>6. EndInv'
  BY <1>2, <1>4 DEF LogInv, EndInv
<1>7. EveryMessageWritten'
  <2>1. pending = <<>> /\ queued = handled \o flushing \o pending
    BY <1>2 DEF LogInv, EndInv, EveryMessageWritten
  <2>2. queued = handled
    BY <1>2, <2>1, ConcatEmptySeq DEF LogInv, LogTyped
  <2> QED
    BY <1>2, <1>4, <2>1, <2>2 DEF EveryMessageWritten
<1>8. RepeatsAccounted'
  <2> SUFFICES ASSUME NEW t \in LogThreads, NEW x \in Texts
               PROVE  told'[t][x] + (IF lastLog' # NoMessage /\ lastLog'.thread = t /\ lastLog'.text = x
                                     THEN repeat' ELSE 0) = Handled(t, x)'
    BY DEF RepeatsAccounted
  <2>1. Handled(t, x)' = Handled(t, x)
    BY <1>2 DEF Handled
  <2>2. told[t][x] + (IF lastLog # NoMessage /\ lastLog.thread = t /\ lastLog.text = x THEN repeat ELSE 0)
          = Handled(t, x)
    BY DEF LogInv, RepeatsAccounted
  <2>3. ~(m.thread = t /\ m.text = x)
    BY <1>3 DEF LoggerAssumption
  <2>4. told'[t][x] \in Nat
    BY <1>4 DEF Tellings
  <2>5. told[t][x] \in Nat /\ repeat \in Nat
    BY DEF LogInv, LogTyped, Tellings
  <2>6. told'[t][x] + 0 = Handled(t, x) + 0
    BY <1>4, <2>2, <2>3
  <2>7. Handled(t, x) \in Nat
    BY <2>2, <2>5
  <2> QED
    BY <1>4, <2>1, <2>4, <2>6, <2>7
<1> QED
  BY <1>5, <1>6, <1>7, <1>8 DEF LogInv

LEMMA LogInductive ==
  ASSUME LoggerAssumption, LogInv, [LogNext]_logVars
  PROVE  LogInv'
<1>1. CASE ClockTick
  BY <1>1, ClockTickKeeps
<1>2. CASE WriteNext
  BY <1>2, WriteNextKeeps
<1>3. CASE WriterTests
  BY <1>3, WriterTestsKeeps
<1>4. CASE WriterWakes
  BY <1>4, WriterWakesKeeps
<1>5. CASE EndWriter
  BY <1>5, EndWriterKeeps
<1>6. CASE Join
  BY <1>6, JoinKeeps
<1>7. CASE Goodbye
  BY <1>7, GoodbyeKeeps
<1>8. CASE \E t \in LogThreads : LogWrite(t)
  BY <1>8, LogWriteKeeps
<1>9. CASE \E t \in LogThreads : Post(t)
  BY <1>9, PostKeeps
<1>10. CASE \E t \in LogThreads : ClearCapture(t)
  BY <1>10, ClearCaptureKeeps
<1>11. CASE \E t \in LogThreads : \E x \in Texts : Capture(t, x)
  BY <1>11, CaptureKeeps
<1>12. CASE UNCHANGED logVars
  BY <1>12, LogSame
<1> QED
  BY <1>1, <1>2, <1>3, <1>4, <1>5, <1>6, <1>7, <1>8, <1>9, <1>10, <1>11, <1>12 DEF LogNext

(* The lines of the log tell of every message, once and in the order in     *)
(* which they were queued, however the threads that log, the writer and     *)
(* ~Logger interleave and whatever the filter of repetitions holds back     *)
(* (AsyncLogWriter, Logger::writeChannels, ~Logger).                        *)
THEOREM MessagesAreKept == LogSpec => []MessagesKept
<1>1. LogInit => LogInv
  BY LogStarts
<1>2. LogInv /\ [LogNext]_logVars => LogInv'
  BY LoggerAssumption, LogInductive
<1>3. LogInv => MessagesKept
  BY DEF LogInv, MessagesKept
<1> QED
  BY <1>1, <1>2, <1>3, PTL DEF LogSpec
=============================================================================
