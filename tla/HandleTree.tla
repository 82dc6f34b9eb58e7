----------------------------- MODULE HandleTree -----------------------------
(* How src/src/win32/wepoll.c finds the port of an epoll handle: a global   *)
(* tree behind a lock, which is initialised once, and a reference lock in   *)
(* each port, with which epoll_close waits for the calls that still use it. *)
(* Windows gives the value of a closed handle, and memory that was freed,   *)
(* to somebody else.  What calls do with a port is in Wepoll.               *)
EXTENDS Naturals, FiniteSets

CONSTANTS
  TreeUsers,   \* threads
  PortAddrs,   \* addresses of port_state_t
  HandleValues, NoHandle, NoPort,
  MaxEpollCalls

ASSUME HandleTreeAssumption == NoHandle \notin HandleValues /\ NoPort \notin PortAddrs
                            /\ IsFiniteSet(TreeUsers)

VARIABLES
  initDone, once,  \* init__done; init__once: "none", "running", "complete"
  handleTree,      \* epoll__handle_tree: HANDLE -> port, NoPort when it is not in
  portMem,         \* address -> port_state_t, with the state of its reflock
  iocps,           \* open completion ports
  user,            \* thread -> the call it is in
  existed,         \* an insertion found its key taken
  epollCalls

treeUseVars == <<initDone, once, handleTree, portMem, iocps, user, existed, epollCalls>>

FreeMem == [alive |-> FALSE, handle |-> NoHandle, refs |-> 0, destroy |-> FALSE, poison |-> FALSE]
Unused == [op |-> "none", step |-> "none", handle |-> NoHandle, port |-> NoPort]

HandleInit ==
  /\ initDone = FALSE /\ once = "none"
  /\ handleTree = [h \in HandleValues |-> NoPort] /\ portMem = [a \in PortAddrs |-> FreeMem]
  /\ iocps = {} /\ user = [t \in TreeUsers |-> Unused] /\ existed = FALSE /\ epollCalls = 0

At(t, step) == user' = [user EXCEPT ![t].step = step]
GivesBack(t) == user' = [user EXCEPT ![t] = Unused]

(* A call of epoll_create, epoll_ctl or epoll_wait, or epoll_close.         *)
EnterCall(t, op, h) ==
  /\ user[t].op = "none" /\ epollCalls < MaxEpollCalls /\ epollCalls' = epollCalls + 1
  /\ user' = [user EXCEPT ![t] = [Unused EXCEPT !.op = op, !.handle = h, !.step = "init"]]
  /\ UNCHANGED <<initDone, once, handleTree, portMem, iocps, existed>>

(* Mutant: the flag alone.                                                  *)
CallOnceUnguarded(t) ==
  /\ user[t].step = "init"
  /\ At(t, IF initDone THEN "go" ELSE "initialises")
  /\ UNCHANGED <<initDone, once, handleTree, portMem, iocps, existed, epollCalls>>

(* init and InitOnceExecuteOnce, which runs the callback in one thread while *)
(* the others wait, and again if it failed.                                 *)
CallOnce(t) ==
  /\ user[t].step = "init"
  /\ initDone \/ once # "running"
  /\ IF initDone \/ once = "complete"
     THEN At(t, "go") /\ UNCHANGED once
     ELSE At(t, "initialises") /\ once' = "running"
  /\ UNCHANGED <<initDone, handleTree, portMem, iocps, existed, epollCalls>>

InitCallback(t) ==
  /\ user[t].step = "initialises"
  /\ \/ once' = "none" /\ GivesBack(t) /\ UNCHANGED <<initDone, handleTree>>
     \/ /\ once' = "complete" /\ initDone' = TRUE /\ At(t, "go")
        /\ handleTree' = [h \in HandleValues |-> NoPort]
  /\ UNCHANGED <<portMem, iocps, existed, epollCalls>>

-----------------------------------------------------------------------------
(* epoll__create                                                            *)

PortNew(t) ==
  /\ user[t].op = "create" /\ user[t].step = "go"
  /\ \/ GivesBack(t) /\ UNCHANGED <<portMem, iocps>>
     \/ \E a \in PortAddrs, h \in HandleValues \ iocps :
          /\ ~portMem[a].alive
          /\ portMem' = [portMem EXCEPT ![a] = [FreeMem EXCEPT !.alive = TRUE, !.handle = h]]
          /\ iocps' = iocps \cup {h}
          /\ user' = [user EXCEPT ![t].step = "adds", ![t].port = a, ![t].handle = h]
  /\ UNCHANGED <<initDone, once, handleTree, existed, epollCalls>>

TsTreeAdd(t) ==
  /\ user[t].step = "adds"
  /\ LET h == user[t].handle
     IN IF handleTree[h] = NoPort
        THEN handleTree' = [handleTree EXCEPT ![h] = user[t].port] /\ UNCHANGED existed
        ELSE existed' = TRUE /\ UNCHANGED handleTree
  /\ GivesBack(t)
  /\ UNCHANGED <<initDone, once, portMem, iocps, epollCalls>>

-----------------------------------------------------------------------------
(* The reference lock: InterlockedAdd of the count, the destroy bit and the *)
(* count in one word                                                        *)

AddRef(a) == portMem' = [portMem EXCEPT ![a].refs = @ + 1]

(* Mutant: the reference is added after the lock was released.              *)
FindThenRef(t) ==
  \/ /\ user[t].op = "use" /\ user[t].step = "go"
     /\ LET a == handleTree[user[t].handle]
        IN IF a = NoPort THEN GivesBack(t) ELSE user' = [user EXCEPT ![t].step = "refs", ![t].port = a]
     /\ UNCHANGED <<initDone, once, handleTree, portMem, iocps, existed, epollCalls>>
  \/ /\ user[t].step = "refs" /\ AddRef(user[t].port) /\ At(t, "uses")
     /\ UNCHANGED <<initDone, once, handleTree, iocps, existed, epollCalls>>

TsTreeFindAndRef(t) ==
  /\ user[t].op = "use" /\ user[t].step = "go"
  /\ LET a == handleTree[user[t].handle]
     IN IF a = NoPort THEN GivesBack(t) /\ UNCHANGED portMem
        ELSE AddRef(a) /\ user' = [user EXCEPT ![t].step = "uses", ![t].port = a]
  /\ UNCHANGED <<initDone, once, handleTree, iocps, existed, epollCalls>>

(* The call is done with the port; the last one wakes epoll_close.          *)
ReflockUnref(t) ==
  /\ user[t].step = "uses"
  /\ LET a == user[t].port
     IN /\ portMem' = [portMem EXCEPT ![a].refs = @ - 1]
        /\ IF portMem[a].refs = 1 /\ portMem[a].destroy THEN At(t, "signals") ELSE GivesBack(t)
  /\ UNCHANGED <<initDone, once, handleTree, iocps, existed, epollCalls>>

TsTreeDelAndRef(t) ==
  /\ user[t].op = "close" /\ user[t].step = "go"
  /\ LET a == handleTree[user[t].handle]
     IN IF a = NoPort THEN GivesBack(t) /\ UNCHANGED <<handleTree, portMem>>
        ELSE /\ handleTree' = [handleTree EXCEPT ![user[t].handle] = NoPort]
             /\ AddRef(a) /\ user' = [user EXCEPT ![t].step = "closes", ![t].port = a]
  /\ UNCHANGED <<initDone, once, iocps, existed, epollCalls>>

(* port_close                                                               *)
CloseIocp(t) ==
  /\ user[t].step = "closes" /\ At(t, "destroys")
  /\ iocps' = iocps \ {portMem[user[t].port].handle}
  /\ portMem' = [portMem EXCEPT ![user[t].port].handle = NoHandle]
  /\ UNCHANGED <<initDone, once, handleTree, existed, epollCalls>>

ReflockUnrefAndDestroy(t) ==
  /\ user[t].step = "destroys"
  /\ LET a == user[t].port
     IN /\ portMem' = [portMem EXCEPT ![a].refs = @ - 1, ![a].destroy = TRUE]
        /\ At(t, IF portMem[a].refs > 1 THEN "awaits" ELSE "poisons")
  /\ UNCHANGED <<initDone, once, handleTree, iocps, existed, epollCalls>>

(* A keyed event: the thread that releases it waits for the other as well.  *)
KeyedEvent(t, other) ==
  /\ user[t].step = "signals" /\ user[other].step = "awaits" /\ user[t].port = user[other].port
  /\ user' = [user EXCEPT ![t] = Unused, ![other].step = "poisons"]
  /\ UNCHANGED <<initDone, once, handleTree, portMem, iocps, existed, epollCalls>>

Poison(t) ==
  /\ user[t].step = "poisons" /\ At(t, "deletes")
  /\ portMem' = [portMem EXCEPT ![user[t].port].poison = TRUE]
  /\ UNCHANGED <<initDone, once, handleTree, iocps, existed, epollCalls>>

(* port_delete, the end                                                     *)
FreePort(t) ==
  /\ user[t].step = "deletes" /\ GivesBack(t)
  /\ portMem' = [portMem EXCEPT ![user[t].port] = FreeMem]
  /\ UNCHANGED <<initDone, once, handleTree, iocps, existed, epollCalls>>

TreeUse(t) ==
  \/ EnterCall(t, "create", NoHandle)
  \/ \E h \in HandleValues, op \in {"use", "close"} : EnterCall(t, op, h)
  \/ CallOnce(t) \/ InitCallback(t) \/ PortNew(t) \/ TsTreeAdd(t)
  \/ TsTreeFindAndRef(t) \/ ReflockUnref(t) \/ TsTreeDelAndRef(t) \/ CloseIocp(t)
  \/ ReflockUnrefAndDestroy(t) \/ Poison(t) \/ FreePort(t)
  \/ \E other \in TreeUsers : KeyedEvent(t, other)

HandleNext == \E t \in TreeUsers : TreeUse(t)
HandleSpec == HandleInit /\ [][HandleNext]_treeUseVars

-----------------------------------------------------------------------------
Holders(a) == {t \in TreeUsers : user[t].port = a /\ user[t].step \in {"uses", "closes", "destroys"}}
Closers(a) == {t \in TreeUsers : user[t].port = a /\ user[t].op = "close"}

(* While a call uses a port the port is there: its references are the calls *)
(* inside, one thread destroys it, after them all, and the call that ends   *)
(* last meets it.  A handle leads to the port it was opened for, though its *)
(* value is used again, and no insertion finds it taken ("This should never *)
(* happen", wepoll.c:473).  No port that was made is lost.                  *)
HandlesSafe ==
  /\ \A a \in PortAddrs :
       /\ portMem[a].alive => portMem[a].refs = Cardinality(Holders(a))
       /\ ~portMem[a].alive \/ portMem[a].poison =>
            ~ \E t \in TreeUsers : user[t].port = a /\ user[t].step \in {"uses", "signals", "refs"}
       /\ Cardinality(Closers(a)) <= 1
       /\ (\E t \in TreeUsers : user[t].port = a /\ user[t].step = "signals") =>
            \E t \in Closers(a) : user[t].step = "awaits"
       /\ portMem[a].alive =>
            \/ \E h \in HandleValues : handleTree[h] = a
            \/ \E t \in TreeUsers : user[t].port = a /\ user[t].op \in {"create", "close"}
  /\ \A h \in HandleValues : handleTree[h] # NoPort =>
       portMem[handleTree[h]].alive /\ portMem[handleTree[h]].handle = h
  /\ ~existed
=============================================================================
