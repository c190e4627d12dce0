--------------------------- MODULE PriorityQueue ---------------------------
(***************************************************************************)
(* The priority queue behind Wpq (data_structures/pq_imperative.ml): a     *)
(* heap in a growable array, one step per turn of move_up and move_down,   *)
(* which carry an element and leave a hole in the array where it may go.   *)
(* The parent of place k is (k - 1) / 2 and the least priority is served   *)
(* first.  An operation runs under the mutex of the synchroniser: none     *)
(* begins before the last one has returned.                                *)
(***************************************************************************)
EXTENDS Integers

CONSTANTS
  Elements,             \* what is pushed, each with its own priority
  priority,
  NoElement             \* pop returned None, or did not run last

ASSUME QueueAssumption ==
  /\ priority \in [Elements -> Int]
  /\ NoElement \notin Elements

VARIABLES
  h, n,                 \* the array and its length
  at,                   \* the operation under way, "idle" if there is none
  x, hole,              \* the element it carries and the place that is free
  held,                 \* history: what was pushed and not popped since
  popped                \* what pop returns, until the next operation

queueVars == <<h, n, at, x, hole, held, popped>>

Before(a, b) == priority[a] < priority[b]

Parent(k) == (k - 1) \div 2

QueueInit ==
  /\ n = 0 /\ h = [k \in 0 .. -1 |-> NoElement]
  /\ at = "idle" /\ x = NoElement /\ hole = 0
  /\ held = {} /\ popped = NoElement

push(e) ==
  /\ at = "idle"
  /\ n' = n + 1
  /\ h' = [k \in 0 .. n |-> IF k < n THEN h[k] ELSE e]
  /\ at' = "move_up" /\ x' = e /\ hole' = n
  /\ held' = held \cup {e} /\ popped' = NoElement

(* The element is put down where it is. *)
PutDown ==
  /\ h' = [h EXCEPT ![hole] = x]
  /\ at' = "idle"
  /\ UNCHANGED hole

(* The element at place k goes into the hole. *)
MoveHole(k) ==
  /\ h' = [h EXCEPT ![hole] = h[k]]
  /\ hole' = k
  /\ UNCHANGED at

move_up ==
  /\ at = "move_up"
  /\ IF hole > 0 /\ Before(x, h[Parent(hole)])
       THEN MoveHole(Parent(hole)) ELSE PutDown
  /\ UNCHANGED <<n, x, held, popped>>

min(l, r) == IF Before(h[r], h[l]) THEN r ELSE l

(* The place of the least of the element and the children of place k. *)
(* Faulty: the last leaf is never a right child. *)
smallest_node_LastLeaf(k) ==
  LET l == 2 * k + 1
      r == l + 1
      j == IF r < n - 1 THEN min(l, r) ELSE l
  IN IF l >= n THEN k ELSE IF Before(h[j], x) THEN j ELSE k
smallest_node(k) ==
  LET l == 2 * k + 1
      r == l + 1
      j == IF r < n THEN min(l, r) ELSE l
  IN IF l >= n THEN k ELSE IF Before(h[j], x) THEN j ELSE k

move_down ==
  /\ at = "move_down"
  /\ IF smallest_node(hole) = hole THEN PutDown ELSE MoveHole(smallest_node(hole))
  /\ UNCHANGED <<n, x, held, popped>>

(* The last element is carried down from the root, unless it was the only   *)
(* one.                                                                     *)
pop ==
  /\ at = "idle" /\ n > 0
  /\ popped' = h[0] /\ held' = held \ {h[0]}
  /\ n' = n - 1
  /\ h' = [k \in 0 .. n - 2 |-> h[k]]
  /\ IF n > 1 THEN at' = "move_down" /\ x' = h[n - 1] /\ hole' = 0
     ELSE UNCHANGED <<at, x, hole>>

pop_None ==
  /\ at = "idle" /\ n = 0
  /\ popped' = NoElement
  /\ UNCHANGED <<h, n, at, x, hole, held>>

QueueNext ==
  \/ \E e \in Elements \ held : push(e)
  \/ move_up \/ move_down \/ pop \/ pop_None

QueueSpec == QueueInit /\ [][QueueNext]_queueVars

-----------------------------------------------------------------------------
Places == 0 .. n - 1

(* The array with the element that is carried put down in the hole. *)
Filled == IF at = "idle" THEN h ELSE [h EXCEPT ![hole] = x]

QueueTypeOK ==
  /\ n \in Nat
  /\ h \in [Places -> Elements]
  /\ at \in {"idle", "move_up", "move_down"}
  /\ x \in Elements \cup {NoElement}
  /\ hole \in Nat
  /\ at /= "idle" => x \in Elements /\ hole \in Places
  /\ held \subseteq Elements
  /\ popped \in Elements \cup {NoElement}

(* What pop returns is of the least priority of all that was pushed and not *)
(* popped yet, and the queue holds exactly the rest, nothing lost and       *)
(* nothing twice, however the operations follow each other                  *)
(* (pq_imperative.ml:7-54).                                                 *)
LeastFirst ==
  /\ held = {Filled[k] : k \in Places}
  /\ \A j, k \in Places : Filled[j] = Filled[k] => j = k
  /\ popped /= NoElement =>
       popped \notin held /\ \A e \in held : ~ Before(e, popped)

(* No place but the one at hand is before its parent: the place the element *)
(* is carried up from, or the children of the one it is carried down from.  *)
(* And the places around the hole stay ordered across it.                   *)
AtHand(k) ==
  \/ at = "move_up" /\ k = hole
  \/ at = "move_down" /\ Parent(k) = hole

HeapOrdered ==
  /\ \A k \in Places \ {0} : AtHand(k) \/ ~ Before(Filled[k], Filled[Parent(k)])
  /\ at /= "idle" /\ hole > 0 =>
       \A k \in Places \ {0} :
         Parent(k) = hole => ~ Before(Filled[k], Filled[Parent(hole)])

QueueInv == QueueTypeOK /\ LeastFirst /\ HeapOrdered
=============================================================================
