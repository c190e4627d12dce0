---------------------------- MODULE MCStructures ----------------------------
(* The union-find and the priority queue, each on its own, for TLC. *)
EXTENDS UnionFindClient, PriorityQueue

VARIABLE used

CONSTANTS e1, e2, e3, e4, e5, e6, e7

MCElements == {e1, e2, e3, e4, e5, e6, e7}

(* Pairs of elements of one priority, and one that is least of all. *)
MCPriority ==
  [e \in MCElements |->
     IF e \in {e1, e2} THEN 1 ELSE IF e \in {e3, e4} THEN 2
     ELSE IF e \in {e5, e6} THEN 3 ELSE 0]

StructuresInit == used \in {"union_find", "queue"} /\ UnionInit /\ QueueInit

StructuresNext ==
  \/ used = "union_find" /\ UnionNext /\ UNCHANGED <<queueVars, used>>
  \/ used = "queue" /\ QueueNext /\ UNCHANGED <<unionVars, used>>

StructuresSpec == StructuresInit /\ [][StructuresNext]_<<unionVars, queueVars, used>>
=============================================================================
