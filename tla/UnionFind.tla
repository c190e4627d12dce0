------------------------------ MODULE UnionFind ------------------------------
(***************************************************************************)
(* The persistent union-find of data_structures/union_find.ml: a map from  *)
(* every demoted key to its canonical element, and a node per canonical    *)
(* element with its aliases, their number and the datum of the class.  A   *)
(* value of type t is a record of the two maps; `merge' is set union, the  *)
(* only one the repository passes (symbolic_path_condition.ml).            *)
(***************************************************************************)
EXTENDS Naturals, FiniteSets

CONSTANTS
  Keys,
  Data,        \* a datum is a set of these
  NoDatum      \* a class to which nothing was added

ASSUME KeysAssumption == IsFiniteSet(Keys)
ASSUME NoDatumAssumption == \A datum \in SUBSET Data : datum # NoDatum

(* MX.add and MX.remove *)
Put(map, key, value) ==
  [k \in DOMAIN map \cup {key} |-> IF k = key THEN value ELSE map[k]]

(* Faulty: the key stays. *)
Remove_Not(map, key) == map

Remove(map, key) == [k \in DOMAIN map \ {key} |-> map[k]]

empty == [canonical_elements |-> [k \in {} |-> k],
          node_of_canonicals |-> [k \in {} |-> k]]

(* Faulty: an alias is counted that is not there. *)
NoNode_One == [aliases |-> {}, cardinal |-> 1, datum |-> NoDatum]

NoNode == [aliases |-> {}, cardinal |-> 0, datum |-> NoDatum]

find_canonical(variable, t) ==
  IF variable \in DOMAIN t.canonical_elements
  THEN t.canonical_elements[variable] ELSE variable

find_node(canonical, t) ==
  IF canonical \in DOMAIN t.node_of_canonicals
  THEN t.node_of_canonicals[canonical] ELSE NoNode

find_opt(variable, t) == find_node(find_canonical(variable, t), t).datum

(* Faulty: the datum of one class wins. *)
MergeData_KeepsFirst(d1, d2) == IF d1 = NoDatum THEN d2 ELSE d1

MergeData(d1, d2) ==
  IF d1 = NoDatum THEN d2 ELSE IF d2 = NoDatum THEN d1 ELSE d1 \cup d2

(* Faulty: under the key itself. *)
add_NotCanonical(variable, datum, t) ==
  LET node == find_node(variable, t)
  IN  [t EXCEPT !.node_of_canonicals =
         Put(@, variable, [node EXCEPT !.datum = MergeData(datum, @)])]

add(variable, datum, t) ==
  LET canonical == find_canonical(variable, t)
      node == find_node(canonical, t)
  IN  [t EXCEPT !.node_of_canonicals =
         Put(@, canonical, [node EXCEPT !.datum = MergeData(datum, @)])]

set_canonical_element(aliases, canonical, map) ==
  [k \in DOMAIN map \cup aliases |->
     IF k \in aliases THEN canonical ELSE map[k]]

(* One class absorbs the other: `canonical' stays, `demoted' and its        *)
(* aliases point to it.                                                     *)
Absorb(canonical, demoted, t) ==
  LET kept == find_node(canonical, t)
      gone == find_node(demoted, t)
      node == [aliases  |-> {demoted} \cup kept.aliases \cup gone.aliases,
               cardinal |-> kept.cardinal + gone.cardinal + 1,
               datum    |-> MergeData(kept.datum, gone.datum)]
  IN  [canonical_elements |->
         Put(set_canonical_element(gone.aliases, canonical,
                                   t.canonical_elements),
             demoted, canonical),
       node_of_canonicals |->
         Remove(Put(t.node_of_canonicals, canonical, node), demoted)]

(* Faulty: merges the keys and not their classes. *)
union_NotCanonical(key1, key2, t) ==
  IF key1 = key2 THEN t
  ELSE IF find_node(key1, t).cardinal < find_node(key2, t).cardinal
       THEN Absorb(key2, key1, t)
       ELSE Absorb(key1, key2, t)

(* The class with more aliases stays, the left one when they have as many.  *)
union(key1, key2, t) ==
  LET lhs == find_canonical(key1, t)
      rhs == find_canonical(key2, t)
  IN  IF lhs = rhs THEN t
      ELSE IF find_node(lhs, t).cardinal < find_node(rhs, t).cardinal
           THEN Absorb(rhs, lhs, t)
           ELSE Absorb(lhs, rhs, t)

=============================================================================
