---------------------------- MODULE ResourcePool ----------------------------
(***************************************************************************)
(* ResourcePool (src/src/Util/ResourcePool.h): objects that are lent and   *)
(* come back when the last pointer goes.  The pool is guarded by a flag    *)
(* that nobody waits for: who finds it set makes a new object, or deletes  *)
(* the one it returns.  setSize does not look at the flag, and reserves    *)
(* memory for the list while others may be changing it.                    *)
(***************************************************************************)
EXTENDS Naturals, Sequences, FiniteSets

CONSTANTS
  Threads,   \* users of the pool; each holds one object at a time
  Objects,   \* bound: identities of the objects that exist at once
  PoolSizes, \* arguments of setSize
  NoObject

ASSUME ResourcePoolAssumption ==
  /\ PoolSizes \subseteq Nat /\ PoolSizes # {} /\ IsFiniteSet(Objects)
  /\ NoObject \notin Objects \cup Threads

VARIABLES
  objs,     \* _objs
  poolSize, \* _pool_size
  flag,     \* who set _busy, NoObject when clear
  lent,     \* of each thread, its object
  stage,    \* of each thread, see Stages
  exists,   \* objects that are not deleted
  quits,    \* lent objects whose pointer has _quit
  room,     \* capacity of _objs
  growTo,   \* the capacity that a reserve under way makes, 0 when none is
  copied,   \* what that reserve copied
  torn      \* a reserve met a change of the list: a data race (history)

reserveVars == <<room, growTo, copied, torn>>
resVars == <<objs, poolSize, flag, lent, stage, exists, quits, reserveVars>>

(* "gets" and "puts": it set the flag in getPtr or recycle.                 *)
Stages == {"idle", "gets", "uses", "puts"}

ResInit ==
  /\ objs = <<>> /\ poolSize \in PoolSizes /\ flag = NoObject
  /\ lent = [t \in Threads |-> NoObject] /\ stage = [t \in Threads |-> "idle"]
  /\ exists = {} /\ quits = {}
  /\ room = 0 /\ growTo = 0 /\ copied = <<>> /\ torn = FALSE

Goes(t, to) == stage' = [stage EXCEPT ![t] = to]

(* A thread that has the flag changes the list while a reserve copies it,   *)
(* or enlarges it while a reserve asks for its capacity.                    *)
Meets(t, size) ==
  \/ stage[t] \in {"gets", "puts"} /\ size > room
  \/ stage[t] = "puts" /\ Len(objs) = room

(* setSize up to the copy of _objs.reserve, by one thread at a time.        *)
SetSize ==
  /\ growTo = 0
  /\ poolSize' \in PoolSizes
  /\ IF poolSize' > room THEN growTo' = poolSize' /\ copied' = objs
     ELSE UNCHANGED <<growTo, copied>>
  /\ torn' = (torn \/ \E t \in Threads : Meets(t, poolSize'))
  /\ UNCHANGED <<objs, flag, lent, stage, exists, quits, room>>

(* The copy takes the place of the list.                                    *)
EndReserve ==
  /\ growTo # 0
  /\ objs' = copied /\ room' = growTo
  /\ growTo' = 0 /\ copied' = <<>>
  /\ UNCHANGED <<poolSize, flag, lent, stage, exists, quits, torn>>

(* The flag is set, whether or not a reserve is under way.                  *)
SetFlag(t) ==
  /\ flag' = t
  /\ torn' = (torn \/ growTo # 0)
  /\ UNCHANGED <<room, growTo, copied>>

Uses(t, o) == Goes(t, "uses") /\ lent' = [lent EXCEPT ![t] = o]

Alloc(t) == \E o \in Objects \ exists : Uses(t, o) /\ exists' = exists \cup {o}

(* A constructor that throws leaves no pointer.                             *)
AllocThrows(t) == Goes(t, "idle") /\ UNCHANGED <<lent, exists>>

Obtain(t) ==
  /\ stage[t] = "idle"
  /\ IF flag = NoObject
     THEN SetFlag(t) /\ Goes(t, "gets") /\ UNCHANGED <<lent, exists>>
     ELSE (Alloc(t) \/ AllocThrows(t)) /\ UNCHANGED <<flag, reserveVars>>
  /\ UNCHANGED <<objs, poolSize, quits>>

(* Mutant: the last object stays in the list.                               *)
GetPtrKeeps(t) ==
  /\ stage[t] = "gets"
  /\ IF objs = <<>> THEN Alloc(t) ELSE Uses(t, objs[Len(objs)]) /\ UNCHANGED exists
  /\ flag' = NoObject
  /\ UNCHANGED <<objs, poolSize, quits, reserveVars>>

(* An exception passes _busy.clear(): the flag stays set.                   *)
GetPtr(t) ==
  /\ stage[t] = "gets"
  /\ IF objs = <<>>
     THEN /\ \/ Alloc(t) /\ flag' = NoObject
             \/ AllocThrows(t) /\ UNCHANGED flag
          /\ UNCHANGED objs
     ELSE /\ Uses(t, objs[Len(objs)]) /\ objs' = SubSeq(objs, 1, Len(objs) - 1)
          /\ flag' = NoObject /\ UNCHANGED exists
  /\ UNCHANGED <<poolSize, quits, reserveVars>>

Quit(t) ==
  /\ stage[t] = "uses"
  /\ quits' = quits \cup {lent[t]}
  /\ UNCHANGED <<objs, poolSize, flag, lent, stage, exists, reserveVars>>

DeleteObj(t) ==
  /\ exists' = exists \ {lent[t]} /\ quits' = quits \ {lent[t]}
  /\ lent' = [lent EXCEPT ![t] = NoObject] /\ Goes(t, "idle")

(* The deleter of the pointer, and recycle up to the flag.                  *)
ReleasePtr(t) ==
  /\ stage[t] = "uses"
  /\ IF flag = NoObject /\ lent[t] \notin quits
     THEN SetFlag(t) /\ Goes(t, "puts") /\ UNCHANGED <<lent, exists, quits>>
     ELSE DeleteObj(t) /\ UNCHANGED <<flag, reserveVars>>
  /\ UNCHANGED <<objs, poolSize>>

(* A vector that is full doubles.                                           *)
RoomForOne == IF Len(objs) # room THEN room ELSE IF room = 0 THEN 1 ELSE 2 * room

Recycle(t) ==
  /\ stage[t] = "puts"
  /\ IF Len(objs) >= poolSize
     THEN DeleteObj(t) /\ UNCHANGED <<objs, room>>
     ELSE /\ objs' = Append(objs, lent[t]) /\ room' = RoomForOne
          /\ lent' = [lent EXCEPT ![t] = NoObject] /\ Goes(t, "idle")
          /\ UNCHANGED <<exists, quits>>
  /\ flag' = NoObject
  /\ UNCHANGED <<poolSize, growTo, copied, torn>>

-----------------------------------------------------------------------------
(* Properties.                                                              *)

ResTypeOK ==
  /\ objs \in Seq(Objects) /\ poolSize \in PoolSizes /\ flag \in Threads \cup {NoObject}
  /\ lent \in [Threads -> Objects \cup {NoObject}] /\ stage \in [Threads -> Stages]
  /\ exists \subseteq Objects /\ quits \subseteq Objects
  /\ room \in Nat /\ growTo \in Nat /\ copied \in Seq(Objects) /\ torn \in BOOLEAN

Pooled == {objs[i] : i \in DOMAIN objs}
Lent == {lent[t] : t \in Threads} \ {NoObject}

(* An object is in the pool once or lent to one thread, and deleted when it *)
(* is neither, whatever the try-lock decides (getPtr, recycle and the       *)
(* pointer's deleter); one whose pointer has quit is not lent again.  Not   *)
(* once a reserve has raced with a thread that has the flag: its copy may   *)
(* bring back an object that is lent, or lose one that came back.           *)
LentToOne ==
  /\ \A i, j \in DOMAIN objs : objs[i] = objs[j] => i = j
  /\ \A s, t \in Threads : lent[s] = lent[t] => s = t \/ lent[s] = NoObject
  /\ Pooled \cap Lent = {}
  /\ exists = Pooled \cup Lent
  /\ quits \subseteq Lent

=============================================================================
