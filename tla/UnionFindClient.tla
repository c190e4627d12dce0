-------------------------- MODULE UnionFindClient --------------------------
(***************************************************************************)
(* Every sequence of operations, next to a reference: the partition of the *)
(* keys it denotes, and for each key the data added to it by that name.    *)
(***************************************************************************)
EXTENDS UnionFind

VARIABLES
  uf,
  class,       \* reference: the class of each key
  named,       \* reference: the keys something was added to
  added        \* reference: what was added to each key

unionVars == <<uf, class, named, added>>

UnionInit ==
  /\ uf = empty
  /\ class = [k \in Keys |-> {k}]
  /\ named = {}
  /\ added = [k \in Keys |-> {}]

Add(k, datum) ==
  /\ uf' = add(k, datum, uf)
  /\ named' = named \cup {k}
  /\ added' = [added EXCEPT ![k] = @ \cup datum]
  /\ UNCHANGED class

Union(a, b) ==
  /\ uf' = union(a, b, uf)
  /\ class' = [k \in Keys |-> IF k \in class[a] \cup class[b]
                              THEN class[a] \cup class[b] ELSE class[k]]
  /\ UNCHANGED <<named, added>>

UnionNext ==
  \/ \E k \in Keys, datum \in SUBSET Data : Add(k, datum)
  \/ \E a, b \in Keys : Union(a, b)

UnionSpec == UnionInit /\ [][UnionNext]_unionVars

-----------------------------------------------------------------------------
canon == uf.canonical_elements
nodes == uf.node_of_canonicals

UnionTypeOK ==
  /\ uf = [canonical_elements |-> canon, node_of_canonicals |-> nodes]
  /\ DOMAIN canon \subseteq Keys
  /\ canon \in [DOMAIN canon -> Keys]
  /\ DOMAIN nodes \subseteq Keys
  /\ nodes \in [DOMAIN nodes -> [aliases : SUBSET Keys, cardinal : Nat,
                                 datum : {NoDatum} \cup SUBSET Data]]
  /\ class \in [Keys -> SUBSET Keys]
  /\ named \subseteq Keys
  /\ added \in [Keys -> SUBSET Data]

(* The representative of a demoted key is one look-up away, is itself       *)
(* canonical and has a node (union_find.ml:104-107, 139-155: `union'        *)
(* redirects the aliases of the class it demotes).                          *)
OneHop ==
  \A k \in DOMAIN canon : /\ canon[k] \in DOMAIN nodes
                          /\ canon[k] \notin DOMAIN canon

(* A key is not both demoted and canonical. *)
NodesCanonical == DOMAIN nodes \cap DOMAIN canon = {}

(* A node lists exactly the keys demoted to it, and the number that decides *)
(* which class stays is their number (union_find.ml:167-175).               *)
AliasesExact ==
  \A c \in DOMAIN nodes :
    /\ nodes[c].aliases = {k \in DOMAIN canon : canon[k] = c}
    /\ nodes[c].cardinal = Cardinality(nodes[c].aliases)

(* The reference is a partition. *)
ClassesPartition ==
  \A k \in Keys : /\ k \in class[k]
                  /\ \A j \in class[k] : class[j] = class[k]

(* Two keys have the same representative exactly when the unions so far     *)
(* connect them, whatever the order of the unions.                          *)
Equivalence ==
  \A a, b \in Keys :
    find_canonical(a, uf) = find_canonical(b, uf) <=> class[a] = class[b]

(* What was added to the keys of K. *)
DatumOf(K) ==
  IF K \cap named = {} THEN NoDatum ELSE UNION {added[j] : j \in K}

NothingUnnamed == \A k \in Keys : k \notin named => added[k] = {}

(* The datum of a key is everything added to any key of its class, under    *)
(* any name and before or after the unions: nothing is lost or leaks.       *)
DatumExact ==
  \A k \in Keys : find_opt(k, uf) = DatumOf(class[k])

(* The inductive invariant: the properties need each other. *)
UnionInv ==
  /\ UnionTypeOK
  /\ OneHop
  /\ NodesCanonical
  /\ AliasesExact
  /\ ClassesPartition
  /\ Equivalence
  /\ NothingUnnamed
  /\ DatumExact
=============================================================================
