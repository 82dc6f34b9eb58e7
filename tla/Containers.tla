----------------------------- MODULE Containers ------------------------------
(***************************************************************************)
(* The containers of src/src/win32/wepoll.c, written pointer by pointer:   *)
(* the linked queues that Wepoll.tla has as sequences, circular lists whose*)
(* nodes lie in the sockets and poll groups, with a head in the port; and  *)
(* the red-black tree of the socket states and of the ports.               *)
(***************************************************************************)
EXTENDS Naturals, Sequences, SequencesExt, FiniteSets

CONSTANTS QueueHeads, QueueNodes

ASSUME QueuesAssumption == QueueHeads \cap QueueNodes = {}

VARIABLES
  links,   \* the pointers prev and next of heads and nodes
  queues   \* history: what was put where

queueVars == <<links, queues>>

(* queue_node_init, queue__detach_node                                      *)
NodeInit(l, n) == [l EXCEPT !.prev[n] = n, !.next[n] = n]
DetachNode(l, n) ==
  LET behind == [l EXCEPT !.next[l.prev[n]] = l.next[n]]
  IN [behind EXCEPT !.prev[behind.next[n]] = behind.prev[n]]

QueueInit ==
  LET id == [n \in QueueHeads \cup QueueNodes |-> n]
  IN links = [prev |-> id, next |-> id] /\ queues = [h \in QueueHeads |-> <<>>]

IsEnqueued(n) == links.prev[n] # n
QueueEmpty(h) == ~IsEnqueued(h)
QueueFirst(h) == IF QueueEmpty(h) THEN {} ELSE {links.next[h]}
QueueLast(h) == IF QueueEmpty(h) THEN {} ELSE {links.prev[h]}

Prepended(l, h, n) ==
  LET own == [l EXCEPT !.next[n] = l.next[h], !.prev[n] = h]
      after == [own EXCEPT !.prev[own.next[n]] = n]
  IN [after EXCEPT !.next[h] = n]

(* Mutant: the head is changed before its old value is used.                *)
AppendedHeadFirst(l, h, n) ==
  LET own == [l EXCEPT !.next[n] = h, !.prev[h] = n]
      head == [own EXCEPT !.prev[n] = own.prev[h]]
  IN [head EXCEPT !.next[head.prev[n]] = n]
Appended(l, h, n) ==
  LET own == [l EXCEPT !.next[n] = h, !.prev[n] = l.prev[h]]
      before == [own EXCEPT !.next[own.prev[n]] = n]
  IN [before EXCEPT !.prev[h] = n]

Without(n) == [h \in QueueHeads |-> SelectSeq(queues[h], LAMBDA m : m # n)]
In(h, n) == n \in ToSet(queues[h])

(* A node is appended unless it is in some queue already.                   *)
QueueAppend(h, n) ==
  /\ ~IsEnqueued(n)
  /\ links' = Appended(links, h, n) /\ queues' = [queues EXCEPT ![h] = Append(@, n)]

(* Mutant: the node keeps its pointers.                                     *)
RemovedOnly(l, n) == DetachNode(l, n)
Removed(l, n) == NodeInit(DetachNode(l, n), n)

QueueRemove(n) ==
  /\ IsEnqueued(n)
  /\ links' = Removed(links, n) /\ queues' = Without(n)

(* Poll groups move inside the queue they are in, wherever they are.        *)
MoveToStart(h, n) ==
  /\ In(h, n)
  /\ links' = Prepended(DetachNode(links, n), h, n)
  /\ queues' = [queues EXCEPT ![h] = <<n>> \o SelectSeq(@, LAMBDA m : m # n)]

MoveToEnd(h, n) ==
  /\ In(h, n)
  /\ links' = Appended(DetachNode(links, n), h, n)
  /\ queues' = [queues EXCEPT ![h] = Append(SelectSeq(@, LAMBDA m : m # n), n)]

(* port__update_events, port_delete: the first is taken until none is left. *)
TakeFirst(h) == \E n \in QueueFirst(h) : QueueRemove(n)

QueueNext ==
  \/ \E n \in QueueNodes : QueueRemove(n)
  \/ \E h \in QueueHeads, n \in QueueNodes : QueueAppend(h, n) \/ MoveToStart(h, n) \/ MoveToEnd(h, n)
  \/ \E h \in QueueHeads : TakeFirst(h)

-----------------------------------------------------------------------------
(* In both directions the pointers give what was put into a queue, in its   *)
(* order, and a node knows whether it is in one: the tests that keep a      *)
(* socket from being queued twice rely on it (wepoll.c:1254-1354).          *)
QueuesRight ==
  /\ \A h \in QueueHeads :
       LET ring == <<h>> \o queues[h] \o <<h>>
       IN /\ \A i \in 1 .. Len(ring) - 1 :
               links.next[ring[i]] = ring[i + 1] /\ links.prev[ring[i + 1]] = ring[i]
          /\ QueueFirst(h) = (IF queues[h] = <<>> THEN {} ELSE {Head(queues[h])})
          /\ QueueLast(h) = (IF queues[h] = <<>> THEN {} ELSE {Last(queues[h])})
  /\ \A n \in QueueNodes : IsEnqueued(n) <=> \E h \in QueueHeads : In(h, n)

-----------------------------------------------------------------------------
(* The red-black tree.  A node is named by its key; Nil is NULL.  Sides are *)
(* "l" and "r": the macros of the code are instantiated with (cis, trans) = *)
(* (left, right) and (right, left).                                         *)
CONSTANT MaxKey
Keys == 1 .. MaxKey
Nil == 0

VARIABLES tree,    \* [root, l, r, up, red]: the links and colours of the nodes
          members  \* the keys added and not removed (history)

treeVars == <<tree, members>>

Links == [k \in Keys |-> Nil]
TreeInit ==
  /\ tree = [root |-> Nil, l |-> Links, r |-> Links, up |-> Links, red |-> [k \in Keys |-> FALSE]]
  /\ members = {}

Opposite(side) == IF side = "l" THEN "r" ELSE "l"
SideOf(t, node) == IF t.l[t.up[node]] = node THEN "l" ELSE "r"
IsRed(t, node) == node # Nil /\ t.red[node]

SetUp(t, node, parent) == IF node = Nil THEN t ELSE [t EXCEPT !.up[node] = parent]

(* Puts `new' in the place of `old' under its parent.                       *)
Replace(t, parent, old, new) ==
  IF parent = Nil THEN [t EXCEPT !.root = new]
  ELSE IF t.l[parent] = old THEN [t EXCEPT !.l[parent] = new] ELSE [t EXCEPT !.r[parent] = new]

Rotate(t, p, cis) ==
  LET trans == Opposite(cis)
      q == t[trans][p]
      moved == Replace(t, t.up[p], p, q)
  IN SetUp([moved EXCEPT !.up[q] = t.up[p], !.up[p] = q, ![trans][p] = t[cis][q], ![cis][q] = p],
           t[cis][q], p)

RECURSIVE Parent(_, _, _), AfterInsert(_, _), Leftmost(_, _), AfterRemove(_, _, _)

(* The node a new key goes under, or the node that has the key.             *)
Parent(t, node, key) ==
  LET next == IF key < node THEN t.l[node] ELSE t.r[node]
  IN IF key = node \/ next = Nil THEN node ELSE Parent(t, next, key)

AfterInsert(t, node) ==
  LET parent == t.up[node] grand == t.up[parent]
      cis == SideOf(t, parent) trans == Opposite(cis)
      uncle == t[trans][grand]
      inner == node = t[trans][parent]
      straight == IF inner THEN Rotate(t, parent, cis) ELSE t
  IN IF ~IsRed(t, parent) THEN t
     ELSE IF IsRed(t, uncle)
     THEN AfterInsert([t EXCEPT !.red[parent] = FALSE, !.red[uncle] = FALSE, !.red[grand] = TRUE],
                      grand)
     ELSE Rotate([straight EXCEPT !.red[IF inner THEN node ELSE parent] = FALSE,
                                  !.red[grand] = TRUE], grand, trans)

TreeAdd(t, key) ==
  LET parent == Parent(t, t.root, key)
      fresh == [t EXCEPT !.up[key] = parent, !.red[key] = TRUE]
      linked == IF key < parent THEN [fresh EXCEPT !.l[parent] = key]
                ELSE [fresh EXCEPT !.r[parent] = key]
      balanced == AfterInsert(linked, key)
  IN IF t.root = Nil THEN [t EXCEPT !.root = key, !.up[key] = Nil]
     ELSE IF parent = key THEN t  \* returns -1
     ELSE [balanced EXCEPT !.red[balanced.root] = FALSE]

Leftmost(t, node) == IF t.l[node] = Nil THEN node ELSE Leftmost(t, t.l[node])

(* `node', black or Nil, hangs under `parent' and lacks one black.          *)
AfterRemove(t, node, parent) ==
  LET cis == IF node = t.l[parent] THEN "l" ELSE "r"
      trans == Opposite(cis)
      first == t[trans][parent]
      t1 == IF t.red[first]
            THEN Rotate([t EXCEPT !.red[first] = FALSE, !.red[parent] = TRUE], parent, cis) ELSE t
      sibling == t1[trans][parent]
      near == t1[cis][sibling]
      t2 == IF IsRed(t1, t1[trans][sibling]) THEN t1
            ELSE Rotate([t1 EXCEPT !.red[near] = FALSE, !.red[sibling] = TRUE], sibling, trans)
      outer == t2[trans][parent]
      t3 == [t2 EXCEPT !.red[outer] = t2.red[parent], !.red[parent] = FALSE,
                       !.red[t2[trans][outer]] = FALSE]
      t4 == [t1 EXCEPT !.red[sibling] = TRUE]
  IN IF node = t.root THEN t
     ELSE IF IsRed(t1, t1.l[sibling]) \/ IsRed(t1, t1.r[sibling]) THEN Rotate(t3, parent, cis)
     ELSE IF t4.red[parent] THEN [t4 EXCEPT !.red[parent] = FALSE]
     ELSE AfterRemove(t4, parent, t4.up[parent])

Unlinked(t, key) == [t EXCEPT !.l[key] = Nil, !.r[key] = Nil, !.up[key] = Nil, !.red[key] = FALSE]

(* Takes node out: its place is taken by its only child, or by `next', the  *)
(* least key of its right side, whose own place its right child takes.      *)
Spliced(t, key, next) ==
  LET left == t.l[key] right == t.r[key]
      over == Replace(t, t.up[key], key, next)
      held == SetUp([over EXCEPT !.red[next] = t.red[key], !.l[next] = left, !.up[left] = next],
                    next, t.up[key])
  IN IF left = Nil \/ right = Nil THEN SetUp(over, next, t.up[key])
     ELSE IF next = right THEN held
     ELSE SetUp([held EXCEPT !.l[t.up[next]] = t.r[next], !.r[next] = right, !.up[right] = next],
                t.r[next], t.up[next])

(* Mutant: the colour of the removed node is not looked at.                 *)
TreeDelUnbalanced(t, key) ==
  LET next == IF t.l[key] = Nil THEN t.r[key] ELSE IF t.r[key] = Nil THEN t.l[key]
              ELSE Leftmost(t, t.r[key])
  IN Unlinked(Spliced(t, key, next), key)

TreeDel(t, key) ==
  LET both == t.l[key] # Nil /\ t.r[key] # Nil
      next == IF both THEN Leftmost(t, t.r[key]) ELSE IF t.l[key] = Nil THEN t.r[key] ELSE t.l[key]
      red == IF both THEN t.red[next] ELSE t.red[key]
      node == IF both THEN t.r[next] ELSE next
      parent == IF ~both THEN t.up[key] ELSE IF next = t.r[key] THEN next ELSE t.up[next]
      spliced == Unlinked(Spliced(t, key, next), key)
  IN IF red THEN spliced
     ELSE IF IsRed(spliced, node) THEN [spliced EXCEPT !.red[node] = FALSE]
     ELSE IF parent = Nil THEN spliced
     ELSE AfterRemove(spliced, node, parent)


TreeInsert(key) ==
  /\ tree' = TreeAdd(tree, key)
  /\ members' = members \cup {key}

TreeRemove(key) ==
  /\ key \in members
  /\ tree' = TreeDel(tree, key)
  /\ members' = members \ {key}

TreeNext == \E key \in Keys : TreeInsert(key) \/ TreeRemove(key)

TreeSpec == TreeInit /\ [][TreeNext]_treeVars

-----------------------------------------------------------------------------
RECURSIVE Below(_, _), BlackHeight(_, _)

Below(t, node) ==
  IF node = Nil THEN {} ELSE {node} \cup Below(t, t.l[node]) \cup Below(t, t.r[node])

(* Black nodes on every path down from node; 99 if two paths differ.        *)
BlackHeight(t, node) ==
  IF node = Nil THEN 0
  ELSE LET left == BlackHeight(t, t.l[node])
       IN IF left # BlackHeight(t, t.r[node]) THEN 99
          ELSE left + IF t.red[node] THEN 0 ELSE 1

(* tree_add and tree_del: whatever keys come and go, the tree holds exactly *)
(* the keys it should, each where tree_find looks for it and linked to its  *)
(* parent, and it is balanced: no red node has a red child and all paths    *)
(* have as many black nodes.                                                *)
TreeBalanced ==
  /\ Below(tree, tree.root) = members
  /\ \A key \in members : Parent(tree, tree.root, key) = key
  /\ \A node \in members :
       /\ \A child \in {tree.l[node], tree.r[node]} \ {Nil} : tree.up[child] = node
       /\ tree.red[node] => ~IsRed(tree, tree.l[node]) /\ ~IsRed(tree, tree.r[node])
  /\ ~IsRed(tree, tree.root) /\ BlackHeight(tree, tree.root) < 99

=============================================================================
