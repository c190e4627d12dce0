------------------------- MODULE Structures_proofs -------------------------
(***************************************************************************)
(* Proofs about the data structures of the project.                        *)
(*                                                                         *)
(* The union-find, for any finite set of keys and any data: its            *)
(* representatives decide exactly the equivalence the unions generate, and *)
(* a class keeps exactly the data added to its keys.                       *)
(*                                                                         *)
(* The priority queue serves the least element first and loses none, for   *)
(* any elements, any priorities and heaps of any size.  A step that        *)
(* carries an element exchanges it with one element of the array (Filled), *)
(* and only the places at hand may be out of order (HeapOrdered); when     *)
(* nothing is carried every place is in order, and then nothing is before  *)
(* the root (RootIsLeast).                                                 *)
(*                                                                         *)
(* The synchronised container and its client, for any number of threads,   *)
(* any elements and any of the three containers: no wake-up is lost,       *)
(* nobody sleeps without an open pledge, the pledge counter is exact, None *)
(* is final, and every element is returned at most once.                   *)
(***************************************************************************)
EXTENDS UnionFindClient, PriorityQueue, SynchronizerClient, FiniteSetTheorems,
        WellFoundedInduction, TLAPS

-----------------------------------------------------------------------------
(* The union-find. *)

(* The representative of a key under UnionInv: a key that is not demoted. *)
LEMMA Representative ==
  ASSUME UnionInv, NEW k \in Keys
  PROVE  /\ find_canonical(k, uf) \in Keys
         /\ find_canonical(k, uf) \notin DOMAIN canon
         /\ k \notin DOMAIN canon => find_canonical(k, uf) = k
         /\ k \in DOMAIN canon => find_canonical(k, uf) = canon[k]
BY DEF UnionInv, UnionTypeOK, OneHop, find_canonical, canon

(* The keys a canonical key represents are itself and its aliases. *)
LEMMA Represented ==
  ASSUME UnionInv, NEW c \in Keys, c \notin DOMAIN canon, NEW k \in Keys
  PROVE  find_canonical(k, uf) = c <=> k = c \/ k \in find_node(c, uf).aliases
<1>1. CASE c \in DOMAIN nodes
  <2>1. find_node(c, uf).aliases = {j \in DOMAIN canon : canon[j] = c}
    BY <1>1 DEF UnionInv, AliasesExact, find_node, nodes
  <2> QED BY <2>1, Representative
<1>2. CASE c \notin DOMAIN nodes
  <2>1. find_node(c, uf).aliases = {}
    BY <1>2 DEF find_node, nodes, NoNode
  <2>2. \A j \in DOMAIN canon : canon[j] # c
    BY <1>2 DEF UnionInv, OneHop
  <2> QED BY <2>1, <2>2, Representative
<1> QED BY <1>1, <1>2

(* Aliases are demoted keys. *)
LEMMA AliasesDemoted ==
  ASSUME UnionInv, NEW c \in Keys
  PROVE  find_node(c, uf).aliases \subseteq DOMAIN canon
BY DEF UnionInv, AliasesExact, find_node, nodes, NoNode

(* What find_node returns. *)
LEMMA NodeType ==
  ASSUME UnionInv, NEW c \in Keys
  PROVE  /\ find_node(c, uf) \in [aliases : SUBSET Keys, cardinal : Nat,
                                  datum : {NoDatum} \cup SUBSET Data]
         /\ find_node(c, uf).cardinal = Cardinality(find_node(c, uf).aliases)
<1>1. CASE c \in DOMAIN nodes
  BY <1>1 DEF UnionInv, UnionTypeOK, AliasesExact, find_node, nodes
<1>2. CASE c \notin DOMAIN nodes
  <2>1. find_node(c, uf) = NoNode
    BY <1>2 DEF find_node, nodes
  <2> QED BY <2>1, FS_EmptySet DEF NoNode
<1> QED BY <1>1, <1>2

(* Absorbing the class of d into that of c changes the representative of    *)
(* the keys of d's class, to c, and of no other key.                        *)
LEMMA AbsorbFind ==
  ASSUME UnionInv, NEW c \in Keys, NEW d \in Keys, c # d,
         c \notin DOMAIN canon, d \notin DOMAIN canon,
         uf' = Absorb(c, d, uf), NEW k \in Keys
  PROVE  find_canonical(k, uf') = IF find_canonical(k, uf) = d THEN c
                                  ELSE find_canonical(k, uf)
<1> DEFINE gone == find_node(d, uf).aliases
<1>1. uf'.canonical_elements
        = [j \in (DOMAIN canon \cup gone) \cup {d} |->
             IF j = d THEN c ELSE IF j \in gone THEN c ELSE canon[j]]
  BY DEF Absorb, Put, set_canonical_element, canon
<1>2. find_canonical(k, uf) = d <=> k = d \/ k \in gone
  BY Represented
<1>3. CASE k = d \/ k \in gone
  BY <1>1, <1>2, <1>3 DEF find_canonical
<1>4. CASE ~(k = d \/ k \in gone)
  BY <1>1, <1>2, <1>4 DEF find_canonical, canon
<1> QED BY <1>3, <1>4

(* The two maps after an absorption. *)
LEMMA AbsorbMaps ==
  ASSUME UnionInv, NEW c \in Keys, NEW d \in Keys, c # d,
         c \notin DOMAIN canon, d \notin DOMAIN canon,
         uf' = Absorb(c, d, uf)
  PROVE  LET kept == find_node(c, uf)
             gone == find_node(d, uf)
         IN  /\ canon' = [j \in DOMAIN canon \cup {d} |->
                            IF j = d \/ j \in gone.aliases THEN c
                            ELSE canon[j]]
             /\ nodes' = [j \in (DOMAIN nodes \cup {c}) \ {d} |->
                            IF j = c
                            THEN [aliases  |-> {d} \cup kept.aliases
                                                   \cup gone.aliases,
                                  cardinal |-> kept.cardinal
                                                 + gone.cardinal + 1,
                                  datum    |-> MergeData(kept.datum,
                                                         gone.datum)]
                            ELSE nodes[j]]
             /\ uf' = [canonical_elements |-> canon',
                       node_of_canonicals |-> nodes']
<1> DEFINE kept == find_node(c, uf)
           gone == find_node(d, uf)
           node == [aliases  |-> {d} \cup kept.aliases \cup gone.aliases,
                    cardinal |-> kept.cardinal + gone.cardinal + 1,
                    datum    |-> MergeData(kept.datum, gone.datum)]
<1>1. gone.aliases \subseteq DOMAIN canon
  BY AliasesDemoted
<1>2. canon' = [j \in (DOMAIN canon \cup gone.aliases) \cup {d} |->
                  IF j = d THEN c
                  ELSE IF j \in gone.aliases THEN c ELSE canon[j]]
  BY DEF Absorb, Put, set_canonical_element, canon
<1>3. (DOMAIN canon \cup gone.aliases) \cup {d} = DOMAIN canon \cup {d}
  BY <1>1
<1>4. canon' = [j \in DOMAIN canon \cup {d} |->
                  IF j = d \/ j \in gone.aliases THEN c ELSE canon[j]]
  BY <1>2, <1>3
<1>5. nodes' = [j \in (DOMAIN nodes \cup {c}) \ {d} |->
                  IF j = c THEN node ELSE nodes[j]]
  BY DEF Absorb, Put, Remove, nodes
<1>6. uf' = [canonical_elements |-> canon', node_of_canonicals |-> nodes']
  BY DEF Absorb, canon, nodes
<1> QED BY <1>4, <1>5, <1>6

(* An absorption keeps the shape of the structure. *)
LEMMA AbsorbShape ==
  ASSUME UnionInv, NEW c \in Keys, NEW d \in Keys, c # d,
         c \notin DOMAIN canon, d \notin DOMAIN canon,
         uf' = Absorb(c, d, uf), UNCHANGED named, UNCHANGED added,
         class' \in [Keys -> SUBSET Keys]
  PROVE  UnionTypeOK' /\ OneHop' /\ NodesCanonical' /\ AliasesExact'
<1> DEFINE kept == find_node(c, uf)
           gone == find_node(d, uf)
           node == [aliases  |-> {d} \cup kept.aliases \cup gone.aliases,
                    cardinal |-> kept.cardinal + gone.cardinal + 1,
                    datum    |-> MergeData(kept.datum, gone.datum)]
<1>1. /\ canon' = [j \in DOMAIN canon \cup {d} |->
                     IF j = d \/ j \in gone.aliases THEN c ELSE canon[j]]
      /\ nodes' = [j \in (DOMAIN nodes \cup {c}) \ {d} |->
                     IF j = c THEN node ELSE nodes[j]]
      /\ uf' = [canonical_elements |-> canon', node_of_canonicals |-> nodes']
  BY AbsorbMaps
<1>2. /\ DOMAIN canon \subseteq Keys /\ DOMAIN nodes \subseteq Keys
      /\ \A j \in DOMAIN canon : canon[j] \in Keys
  BY DEF UnionInv, UnionTypeOK
<1>3. /\ kept.aliases \subseteq Keys /\ gone.aliases \subseteq Keys
      /\ kept.cardinal \in Nat /\ gone.cardinal \in Nat
      /\ kept.cardinal = Cardinality(kept.aliases)
      /\ gone.cardinal = Cardinality(gone.aliases)
      /\ kept.datum \in {NoDatum} \cup SUBSET Data
      /\ gone.datum \in {NoDatum} \cup SUBSET Data
  BY NodeType
<1>4. MergeData(kept.datum, gone.datum) \in {NoDatum} \cup SUBSET Data
  BY <1>3 DEF MergeData
<1>5. UnionTypeOK'
  <2>1. DOMAIN canon' \subseteq Keys /\ canon' \in [DOMAIN canon' -> Keys]
    BY <1>1, <1>2
  <2>2. DOMAIN nodes' \subseteq Keys
    BY <1>1, <1>2
  <2>3. node \in [aliases : SUBSET Keys, cardinal : Nat,
                  datum : {NoDatum} \cup SUBSET Data]
    BY <1>3, <1>4
  <2>4. \A j \in DOMAIN nodes :
          nodes[j] \in [aliases : SUBSET Keys, cardinal : Nat,
                        datum : {NoDatum} \cup SUBSET Data]
    BY DEF UnionInv, UnionTypeOK
  <2>5. nodes' \in [DOMAIN nodes' ->
                     [aliases : SUBSET Keys, cardinal : Nat,
                      datum : {NoDatum} \cup SUBSET Data]]
    BY <1>1, <2>3, <2>4
  <2> QED BY <1>1, <2>1, <2>2, <2>5 DEF UnionInv, UnionTypeOK
<1>6. \A j \in Keys : find_canonical(j, uf) = c <=> j = c \/ j \in kept.aliases
  BY Represented
<1>7. \A j \in Keys : find_canonical(j, uf) = d <=> j = d \/ j \in gone.aliases
  BY Represented
<1>8. \A j \in DOMAIN canon : canon[j] = d <=> j \in gone.aliases
  BY <1>2, <1>7, Representative
<1>9. OneHop'
  <2>1. \A j \in DOMAIN canon : /\ canon[j] \in DOMAIN nodes
                                /\ canon[j] \notin DOMAIN canon
    BY DEF UnionInv, OneHop
  <2> QED BY <1>1, <1>8, <2>1 DEF OneHop
<1>10. NodesCanonical'
  BY <1>1 DEF UnionInv, NodesCanonical
<1>11. AliasesExact'
  <2> SUFFICES ASSUME NEW v \in DOMAIN nodes'
               PROVE  /\ nodes'[v].aliases
                           = {k \in DOMAIN canon' : canon'[k] = v}
                      /\ nodes'[v].cardinal = Cardinality(nodes'[v].aliases)
    BY DEF AliasesExact
  <2>1. CASE v = c
    <3>1. nodes'[v] = node
      BY <1>1, <2>1
    <3>2. \A k \in DOMAIN canon : canon[k] = c <=> k \in kept.aliases
      BY <1>2, <1>6, Representative
    <3>3. kept.aliases \subseteq DOMAIN canon
      BY AliasesDemoted
    <3>4. gone.aliases \subseteq DOMAIN canon
      BY AliasesDemoted
    <3>5. node.aliases = {k \in DOMAIN canon' : canon'[k] = c}
      BY <1>1, <3>2, <3>3, <3>4
    <3>6. kept.aliases \cap gone.aliases = {}
      BY <1>8, <3>2, <3>3
    <3>7. d \notin kept.aliases \cup gone.aliases
      BY <3>3, <3>4
    <3>8. IsFiniteSet(kept.aliases) /\ IsFiniteSet(gone.aliases)
      BY <1>3, KeysAssumption, FS_Subset
    <3>9. IsFiniteSet({}) /\ Cardinality({}) = 0
      BY FS_EmptySet
    <3>10. /\ IsFiniteSet(kept.aliases \cup gone.aliases)
           /\ Cardinality(kept.aliases \cup gone.aliases)
                = Cardinality(kept.aliases) + Cardinality(gone.aliases)
      <4>1. Cardinality(kept.aliases \cup gone.aliases)
              = Cardinality(kept.aliases) + Cardinality(gone.aliases)
                  - Cardinality(kept.aliases \cap gone.aliases)
        BY <3>8, FS_Union
      <4>2. IsFiniteSet(kept.aliases \cup gone.aliases)
        BY <3>8, FS_Union
      <4>3. Cardinality(kept.aliases \cap gone.aliases) = 0
        BY <3>6, <3>9
      <4>4. Cardinality(kept.aliases) \in Nat /\ Cardinality(gone.aliases) \in Nat
        BY <3>8, FS_CardinalityType
      <4> QED BY <4>1, <4>2, <4>3, <4>4
    <3>11. node.aliases = (kept.aliases \cup gone.aliases) \cup {d}
      OBVIOUS
    <3>12. Cardinality(node.aliases)
             = Cardinality(kept.aliases \cup gone.aliases) + 1
      BY <3>7, <3>10, <3>11, FS_AddElement
    <3> QED BY <1>3, <2>1, <3>1, <3>5, <3>10, <3>12
  <2>2. CASE v # c
    <3>1. v \in DOMAIN nodes /\ v # d /\ nodes'[v] = nodes[v]
      BY <1>1, <2>2
    <3>2. nodes[v].aliases = {k \in DOMAIN canon : canon[k] = v}
      BY <3>1 DEF UnionInv, AliasesExact
    <3>3. {k \in DOMAIN canon' : canon'[k] = v}
            = {k \in DOMAIN canon : canon[k] = v}
      BY <1>1, <1>8, <2>2, <3>1
    <3> QED BY <3>1, <3>2, <3>3 DEF UnionInv, AliasesExact
  <2> QED BY <2>1, <2>2
<1> QED BY <1>5, <1>9, <1>10, <1>11

-----------------------------------------------------------------------------
(* Membership of a class is equality of classes, and is decided by the      *)
(* representatives.                                                         *)
LEMMA ClassMembers ==
  ASSUME UnionInv, NEW a \in Keys, NEW k \in Keys
  PROVE  /\ k \in class[a] <=> class[k] = class[a]
         /\ k \in class[a] <=> find_canonical(k, uf) = find_canonical(a, uf)
BY DEF UnionInv, ClassesPartition, Equivalence

(* The reference stays a partition under Union. *)
LEMMA UnionPartition ==
  ASSUME UnionInv, NEW a \in Keys, NEW b \in Keys, Union(a, b)
  PROVE  class' \in [Keys -> SUBSET Keys] /\ ClassesPartition'
<1>1. /\ class \in [Keys -> SUBSET Keys]
      /\ class' = [k \in Keys |-> IF k \in class[a] \cup class[b]
                                  THEN class[a] \cup class[b] ELSE class[k]]
  BY DEF Union, UnionInv, UnionTypeOK
<1>2. class' \in [Keys -> SUBSET Keys]
  BY <1>1
<1>3. \A k \in Keys : k \in class'[k]
  BY <1>1 DEF UnionInv, ClassesPartition
<1>4. \A k \in Keys : \A j \in class'[k] : class'[j] = class'[k]
  <2> SUFFICES ASSUME NEW k \in Keys, NEW j \in class'[k]
               PROVE  class'[j] = class'[k]
    OBVIOUS
  <2>1. CASE k \in class[a] \cup class[b]
    BY <1>1, <2>1
  <2>2. CASE k \notin class[a] \cup class[b]
    <3>1. j \in class[k] /\ j \in Keys
      BY <1>1, <2>2
    <3>2. class[j] = class[k]
      BY <3>1, ClassMembers
    <3>3. j \notin class[a] \cup class[b]
      BY <2>2, <3>1, <3>2, ClassMembers
    <3> QED BY <1>1, <2>2, <3>1, <3>2, <3>3
  <2> QED BY <2>1, <2>2
<1> QED BY <1>2, <1>3, <1>4 DEF ClassesPartition

(* When Union merges two classes, absorbing the class of r' into that of l' *)
(* or the other way round makes the same difference: the representative of  *)
(* either class becomes c.                                                  *)
LEMMA UnionAbsorbs ==
  ASSUME UnionInv, NEW a \in Keys, NEW b \in Keys, Union(a, b),
         find_canonical(a, uf) # find_canonical(b, uf)
  PROVE  \E c, d \in Keys :
           /\ {c, d} = {find_canonical(a, uf), find_canonical(b, uf)}
           /\ c # d
           /\ c \notin DOMAIN canon
           /\ d \notin DOMAIN canon
           /\ uf' = Absorb(c, d, uf)
<1> DEFINE l == find_canonical(a, uf)
           r == find_canonical(b, uf)
<1>1. /\ l \in Keys /\ r \in Keys
      /\ l \notin DOMAIN canon /\ r \notin DOMAIN canon
  BY Representative
<1>2. uf' = Absorb(r, l, uf) \/ uf' = Absorb(l, r, uf)
  BY DEF Union, union
<1>3. CASE uf' = Absorb(r, l, uf)
  BY <1>1, <1>3
<1>4. CASE uf' = Absorb(l, r, uf)
  BY <1>1, <1>4
<1> QED BY <1>2, <1>3, <1>4

(* Membership of the merged class, by representatives. *)
LEMMA MergedMembers ==
  ASSUME UnionInv, NEW a \in Keys, NEW b \in Keys, NEW k \in Keys
  PROVE  k \in class[a] \cup class[b] <=>
           find_canonical(k, uf) \in {find_canonical(a, uf),
                                      find_canonical(b, uf)}
BY ClassMembers

(* Merging the data of two sets of keys gives the data of their union. *)
LEMMA MergedDatum ==
  ASSUME UnionInv, NEW K \in SUBSET Keys, NEW L \in SUBSET Keys
  PROVE  MergeData(DatumOf(K), DatumOf(L)) = DatumOf(K \cup L)
<1> DEFINE All(M) == UNION {added[j] : j \in M}
<1>1. \A M \in SUBSET Keys : All(M) \in SUBSET Data
  BY DEF UnionInv, UnionTypeOK
<1>2. \A M \in SUBSET Keys : M \cap named = {} => All(M) = {}
  BY DEF UnionInv, NothingUnnamed
<1>3. All(K \cup L) = All(K) \cup All(L)
  <2>1. \A v : v \in All(K \cup L) <=> v \in All(K) \/ v \in All(L)
    OBVIOUS
  <2> QED BY <2>1
<1>4. \A M \in SUBSET Keys : All(M) # NoDatum
  BY <1>1, NoDatumAssumption
<1>5. \A M : DatumOf(M) = IF M \cap named = {} THEN NoDatum ELSE All(M)
  BY DEF DatumOf
<1> HIDE DEF All
<1>6. (K \cup L) \cap named = {} <=> K \cap named = {} /\ L \cap named = {}
  OBVIOUS
<1>7. CASE K \cap named = {}
  BY <1>2, <1>3, <1>5, <1>6, <1>7 DEF MergeData
<1>8. CASE K \cap named # {} /\ L \cap named = {}
  BY <1>2, <1>3, <1>4, <1>5, <1>6, <1>8 DEF MergeData
<1>9. CASE K \cap named # {} /\ L \cap named # {}
  BY <1>3, <1>4, <1>5, <1>6, <1>9 DEF MergeData
<1> QED BY <1>7, <1>8, <1>9

LEMMA UnionKeeps ==
  ASSUME UnionInv, NEW a \in Keys, NEW b \in Keys, Union(a, b)
  PROVE  UnionInv'
<1>1. class' \in [Keys -> SUBSET Keys] /\ ClassesPartition'
  BY UnionPartition
<1>2. UNCHANGED named /\ UNCHANGED added
  BY DEF Union
<1>3. CASE find_canonical(a, uf) = find_canonical(b, uf)
  <2>1. uf' = uf
    BY <1>3 DEF Union, union
  <2>2. class[a] = class[b]
    BY <1>3 DEF UnionInv, Equivalence
  <2>3. class' = class
    <3>1. \A k \in Keys : class'[k] = class[k]
      BY <2>2, ClassMembers DEF Union
    <3> QED BY <1>1, <3>1 DEF UnionInv, UnionTypeOK
  <2> QED BY <1>2, <2>1, <2>3
          DEF UnionInv, UnionTypeOK, OneHop, NodesCanonical, AliasesExact,
              ClassesPartition, Equivalence, NothingUnnamed, DatumExact,
              DatumOf, canon, nodes
<1>4. CASE find_canonical(a, uf) # find_canonical(b, uf)
  <2>1. PICK c \in Keys, d \in Keys :
          /\ {c, d} = {find_canonical(a, uf), find_canonical(b, uf)}
          /\ c # d
          /\ c \notin DOMAIN canon
          /\ d \notin DOMAIN canon
          /\ uf' = Absorb(c, d, uf)
    BY <1>4, UnionAbsorbs
  <2>2. UnionTypeOK' /\ OneHop' /\ NodesCanonical' /\ AliasesExact'
    BY <1>1, <1>2, <2>1, AbsorbShape
  <2>3. \A k \in Keys :
          find_canonical(k, uf') = IF find_canonical(k, uf) = d THEN c
                                   ELSE find_canonical(k, uf)
    BY <2>1, AbsorbFind
  <2>4. \A k \in Keys : k \in class[a] \cup class[b] <=>
                          find_canonical(k, uf) \in {c, d}
    BY <2>1, MergedMembers
  <2>5. \A k \in Keys : class'[k] = IF k \in class[a] \cup class[b]
                                    THEN class[a] \cup class[b] ELSE class[k]
    BY DEF Union
  <2>6. Equivalence'
    <3> SUFFICES ASSUME NEW j \in Keys, NEW k \in Keys
                 PROVE  find_canonical(j, uf') = find_canonical(k, uf')
                          <=> class'[j] = class'[k]
      BY DEF Equivalence
    <3>1. class'[j] = class'[k] <=> j \in class'[k]
      BY <1>1 DEF ClassesPartition
    <3>2. CASE k \in class[a] \cup class[b]
      <4>1. j \in class'[k] <=> find_canonical(j, uf) \in {c, d}
        BY <2>4, <2>5, <3>2
      <4>2. find_canonical(k, uf') = c
        BY <2>3, <2>4, <3>2
      <4>3. find_canonical(j, uf') = c <=> find_canonical(j, uf) \in {c, d}
        BY <2>3
      <4> QED BY <3>1, <4>1, <4>2, <4>3
    <3>3. CASE k \notin class[a] \cup class[b]
      <4>1. j \in class'[k] <=> find_canonical(j, uf) = find_canonical(k, uf)
        BY <2>5, <3>3, ClassMembers
      <4>2. find_canonical(k, uf) \notin {c, d}
        BY <2>4, <3>3
      <4> QED BY <2>3, <3>1, <4>1, <4>2
    <3> QED BY <3>2, <3>3
  <2>7. DatumExact'
    <3> DEFINE kept == find_node(c, uf)
               gone == find_node(d, uf)
    <3>1. /\ nodes' = [j \in (DOMAIN nodes \cup {c}) \ {d} |->
                         IF j = c
                         THEN [aliases  |-> {d} \cup kept.aliases
                                                \cup gone.aliases,
                               cardinal |-> kept.cardinal
                                              + gone.cardinal + 1,
                               datum    |-> MergeData(kept.datum,
                                                      gone.datum)]
                         ELSE nodes[j]]
      BY <2>1, AbsorbMaps
    <3> SUFFICES ASSUME NEW k \in Keys
                 PROVE  find_opt(k, uf') = DatumOf(class'[k])
      BY <1>2 DEF DatumExact, DatumOf
    <3>2. CASE k \in class[a] \cup class[b]
      <4>1. find_opt(k, uf') = MergeData(kept.datum, gone.datum)
        BY <2>1, <2>3, <2>4, <3>1, <3>2 DEF find_opt, find_node, nodes
      <4>2. class'[k] = class[a] \cup class[b]
        BY <2>5, <3>2
      <4>3. /\ {kept.datum, gone.datum} = {find_opt(a, uf), find_opt(b, uf)}
            /\ MergeData(kept.datum, gone.datum)
                 = MergeData(find_opt(a, uf), find_opt(b, uf))
        BY <2>1 DEF find_opt, MergeData
      <4>4. /\ find_opt(a, uf) = DatumOf(class[a])
            /\ find_opt(b, uf) = DatumOf(class[b])
        BY DEF UnionInv, DatumExact
      <4>5. MergeData(DatumOf(class[a]), DatumOf(class[b]))
              = DatumOf(class[a] \cup class[b])
        BY MergedDatum DEF UnionInv, UnionTypeOK
      <4> QED BY <4>1, <4>2, <4>3, <4>4, <4>5
    <3>3. CASE k \notin class[a] \cup class[b]
      <4>1. find_canonical(k, uf) \notin {c, d}
        BY <2>4, <3>3
      <4>2. find_opt(k, uf') = find_opt(k, uf)
        BY <2>3, <3>1, <4>1 DEF find_opt, find_node, nodes
      <4> QED BY <2>5, <3>3, <4>2 DEF UnionInv, DatumExact
    <3> QED BY <3>2, <3>3
  <2> QED BY <1>1, <1>2, <2>2, <2>6, <2>7 DEF UnionInv, NothingUnnamed
<1> QED BY <1>3, <1>4

-----------------------------------------------------------------------------
LEMMA AddKeeps ==
  ASSUME UnionInv, NEW k \in Keys, NEW datum \in SUBSET Data, Add(k, datum)
  PROVE  UnionInv'
<1> DEFINE c == find_canonical(k, uf)
           old == find_node(c, uf)
           node == [old EXCEPT !.datum = MergeData(datum, @)]
<1>1. c \in Keys /\ c \notin DOMAIN canon
  BY Representative
<1>2. /\ canon' = canon
      /\ nodes' = [j \in DOMAIN nodes \cup {c} |->
                     IF j = c THEN node ELSE nodes[j]]
      /\ uf' = [canonical_elements |-> canon', node_of_canonicals |-> nodes']
  BY DEF Add, add, Put, canon, nodes, UnionInv, UnionTypeOK
<1>3. /\ named' = named \cup {k}
      /\ added' = [added EXCEPT ![k] = @ \cup datum]
      /\ class' = class
  BY DEF Add
<1>4. /\ old \in [aliases : SUBSET Keys, cardinal : Nat,
                  datum : {NoDatum} \cup SUBSET Data]
      /\ old.cardinal = Cardinality(old.aliases)
  BY <1>1, NodeType
<1>5. MergeData(datum, old.datum) \in SUBSET Data
  BY <1>4, NoDatumAssumption DEF MergeData
<1>6. /\ node \in [aliases : SUBSET Keys, cardinal : Nat,
                   datum : {NoDatum} \cup SUBSET Data]
      /\ node.aliases = old.aliases /\ node.cardinal = old.cardinal
      /\ node.datum = MergeData(datum, old.datum)
  BY <1>4, <1>5
<1>7. UnionTypeOK'
  BY <1>1, <1>2, <1>3, <1>6 DEF UnionInv, UnionTypeOK
<1>8. \A j \in Keys : find_canonical(j, uf') = find_canonical(j, uf)
  BY <1>2 DEF find_canonical, canon
<1>9. OneHop' /\ NodesCanonical'
  BY <1>1, <1>2 DEF UnionInv, OneHop, NodesCanonical
<1>10. AliasesExact'
  <2>1. old.aliases = {j \in DOMAIN canon : canon[j] = c}
    <3>1. \A j \in Keys : find_canonical(j, uf) = c <=> j = c \/ j \in old.aliases
      BY <1>1, Represented
    <3>2. old.aliases \subseteq DOMAIN canon
      BY <1>1, AliasesDemoted
    <3> QED BY <1>1, <3>1, <3>2, Representative DEF UnionInv, UnionTypeOK
  <2> QED BY <1>2, <1>4, <1>6, <2>1 DEF UnionInv, AliasesExact
<1>11. ClassesPartition' /\ Equivalence' /\ NothingUnnamed'
  BY <1>3, <1>8 DEF UnionInv, UnionTypeOK, ClassesPartition, Equivalence, NothingUnnamed
<1>12. DatumExact'
  <2> SUFFICES ASSUME NEW j \in Keys
               PROVE  find_opt(j, uf') = (DatumOf(class[j]))'
    BY <1>3 DEF DatumExact
  <2>1. CASE j \in class[k]
    <3>1. find_opt(j, uf') = MergeData(datum, find_opt(k, uf))
      BY <1>2, <1>6, <1>8, <2>1, ClassMembers DEF find_opt, find_node, nodes
    <3>2. class[j] = class[k] /\ k \in class[j]
      BY <2>1, ClassMembers DEF UnionInv, ClassesPartition
    <3>3. find_opt(k, uf) = DatumOf(class[j])
      BY <3>2 DEF UnionInv, DatumExact
    <3>4. (DatumOf(class[j]))' = UNION {added'[i] : i \in class[j]}
      BY <1>3, <3>2 DEF DatumOf
    <3>5. UNION {added'[i] : i \in class[j]}
            = datum \cup UNION {added[i] : i \in class[j]}
      BY <1>3, <3>2 DEF UnionInv, UnionTypeOK
    <3>6. MergeData(datum, DatumOf(class[j]))
            = datum \cup UNION {added[i] : i \in class[j]}
      <4>1. CASE class[j] \cap named = {}
        <5>1. UNION {added[i] : i \in class[j]} = {}
          BY <4>1 DEF UnionInv, UnionTypeOK, NothingUnnamed
        <5>2. DatumOf(class[j]) = NoDatum
          BY <4>1 DEF DatumOf
        <5> QED BY <5>1, <5>2, NoDatumAssumption DEF MergeData
      <4>2. CASE class[j] \cap named # {}
        <5>1. DatumOf(class[j]) = UNION {added[i] : i \in class[j]}
          BY <4>2 DEF DatumOf
        <5>2. DatumOf(class[j]) \in SUBSET Data
          BY <5>1 DEF UnionInv, UnionTypeOK
        <5> QED BY <5>1, <5>2, NoDatumAssumption DEF MergeData
      <4> QED BY <4>1, <4>2
    <3> QED BY <3>1, <3>3, <3>4, <3>5, <3>6
  <2>2. CASE j \notin class[k]
    <3>1. find_opt(j, uf') = find_opt(j, uf)
      BY <1>2, <1>8, <2>2, ClassMembers DEF find_opt, find_node, nodes
    <3>2. k \notin class[j]
      BY <2>2, ClassMembers
    <3>3. (DatumOf(class[j]))' = DatumOf(class[j])
      <4>1. \A i \in class[j] : added'[i] = added[i]
        BY <1>3, <3>2 DEF UnionInv, UnionTypeOK
      <4>2. UNION {added'[i] : i \in class[j]} = UNION {added[i] : i \in class[j]}
        BY <4>1
      <4>3. class[j] \cap named' = class[j] \cap named
        BY <1>3, <3>2
      <4> QED BY <1>3, <4>2, <4>3 DEF DatumOf
    <3> QED BY <3>1, <3>3 DEF UnionInv, DatumExact
  <2> QED BY <2>1, <2>2
<1> QED BY <1>7, <1>9, <1>10, <1>11, <1>12 DEF UnionInv

LEMMA FirstUnionInv == UnionInit => UnionInv
<1> SUFFICES ASSUME UnionInit PROVE UnionInv
  OBVIOUS
<1>1. /\ uf = empty /\ DOMAIN canon = {} /\ DOMAIN nodes = {}
      /\ canon = [k \in {} |-> k] /\ nodes = [k \in {} |-> k]
      /\ class = [k \in Keys |-> {k}] /\ named = {}
      /\ added = [k \in Keys |-> {}]
  BY DEF UnionInit, empty, canon, nodes
<1>2. UnionTypeOK
  BY <1>1 DEF UnionTypeOK, empty
<1>3. \A k \in Keys : find_canonical(k, uf) = k
  BY <1>1 DEF find_canonical, canon
<1>4. \A k \in Keys : find_opt(k, uf) = NoDatum
  BY <1>1 DEF find_opt, find_node, nodes, NoNode
<1> QED BY <1>1, <1>2, <1>3, <1>4
        DEF UnionInv, OneHop, NodesCanonical, AliasesExact, ClassesPartition,
            Equivalence, NothingUnnamed, DatumExact, DatumOf

-----------------------------------------------------------------------------
(* The inductive invariant holds in every reachable state. *)
THEOREM UnionInvariance == UnionSpec => []UnionInv
<1>1. UnionInit => UnionInv
  BY FirstUnionInv
<1>2. UnionInv /\ [UnionNext]_unionVars => UnionInv'
  <2> SUFFICES ASSUME UnionInv, [UnionNext]_unionVars PROVE UnionInv'
    OBVIOUS
  <2>1. CASE \E k \in Keys, datum \in SUBSET Data : Add(k, datum)
    BY <2>1, AddKeeps
  <2>2. CASE \E a, b \in Keys : Union(a, b)
    BY <2>2, UnionKeeps
  <2>3. CASE UNCHANGED unionVars
    BY <2>3 DEF unionVars, UnionInv, UnionTypeOK, OneHop, NodesCanonical, AliasesExact,
                ClassesPartition, Equivalence, NothingUnnamed, DatumExact,
                DatumOf, canon, nodes
  <2> QED BY <2>1, <2>2, <2>3 DEF UnionNext
<1> QED BY <1>1, <1>2, PTL DEF UnionSpec

(* find_canonical decides, for any keys and any sequence of add and union,  *)
(* the least equivalence that contains the unions made.                     *)
THEOREM EquivalenceDecided == UnionSpec => []Equivalence
<1>1. UnionInv => Equivalence
  BY DEF UnionInv
<1> QED BY <1>1, UnionInvariance, PTL

(* find_opt returns all that was added to the keys of a class and nothing   *)
(* else; the slice of a path condition is this datum.                       *)
THEOREM DataKept == UnionSpec => []DatumExact
<1>1. UnionInv => DatumExact
  BY DEF UnionInv
<1> QED BY <1>1, UnionInvariance, PTL

(* The number that decides which class is redirected is the number of its   *)
(* aliases, so the smaller class is.                                        *)
THEOREM NodesExact == UnionSpec => []AliasesExact
<1>1. UnionInv => AliasesExact
  BY DEF UnionInv
<1> QED BY <1>1, UnionInvariance, PTL

(* A key is demoted or has a node, never both, and a demoted key points to  *)
(* one that is not: union never leaves a chain (union_find.ml:144-176).      *)
THEOREM NoChains == UnionSpec => [](OneHop /\ NodesCanonical)
<1>1. UnionInv => OneHop /\ NodesCanonical
  BY DEF UnionInv
<1> QED BY <1>1, UnionInvariance, PTL

-----------------------------------------------------------------------------
(* The priority queue. *)

(* A set of natural numbers that is not empty has a least element. *)
LEMMA LeastNatural ==
  ASSUME NEW S \in SUBSET Nat, S /= {}
  PROVE  \E k \in S : \A j \in S : k <= j
<1> DEFINE R == {ss \in Nat \X Nat : ss[1] < ss[2]}
<1>1. IsWellFoundedOn(R, Nat)
  BY NatLessThanWellFounded DEF OpToRel
<1>2. \E k \in S : \A j \in S : ~ (<<j, k>> \in R)
  <2> HIDE DEF R
  <2> QED BY <1>1, WFMin
<1>3. ASSUME NEW k \in S, NEW j \in S, ~ (<<j, k>> \in R) PROVE k <= j
  BY <1>3
<1> QED BY <1>2, <1>3

(* Parents come first, and a place has the two children the code takes. *)
LEMMA ParentBefore ==
  /\ \A k \in Nat \ {0} : Parent(k) \in Nat /\ Parent(k) < k
  /\ \A k \in Nat \ {0}, j \in Nat : Parent(k) = j <=> k = 2 * j + 1 \/ k = 2 * j + 2
BY DEF Parent

(* Before is a strict weak order. *)
LEMMA OrderOfPriorities ==
  /\ \A a \in Elements : ~ Before(a, a)
  /\ \A a, b \in Elements : Before(a, b) => ~ Before(b, a)
  /\ \A a, b, c \in Elements : Before(a, b) /\ ~ Before(c, b) => ~ Before(c, a)
  /\ \A a, b, c \in Elements : ~ Before(b, a) /\ ~ Before(c, b) => ~ Before(c, a)
  /\ \A a, b, c \in Elements : ~ Before(b, a) /\ Before(c, a) => Before(c, b)
<1>1. \A a \in Elements : priority[a] \in Int
  BY QueueAssumption
<1> QED BY <1>1 DEF Before

(* When nothing is carried, nothing is before the root: otherwise take the *)
(* first place that is; its parent is such a place, too.                   *)
LEMMA RootIsLeast ==
  ASSUME QueueTypeOK, HeapOrdered, at = "idle", n > 0
  PROVE  \A k \in Places : ~ Before(h[k], h[0])
<1> DEFINE Smaller == {k \in Places : Before(h[k], h[0])}
<1> SUFFICES ASSUME Smaller /= {} PROVE FALSE
  OBVIOUS
<1>1. n \in Nat /\ h \in [Places -> Elements] /\ 0 \in Places /\ Places \subseteq Nat
  BY DEF QueueTypeOK, Places
<1>2. Smaller \in SUBSET Nat
  BY <1>1
<1>3. PICK k \in Smaller : \A j \in Smaller : k <= j
  <2> HIDE DEF Smaller
  <2> QED BY <1>2, LeastNatural
<1>4. k \in Places /\ Before(h[k], h[0]) /\ k /= 0
  BY <1>1, <1>3, OrderOfPriorities
<1>5. Parent(k) \in Nat /\ Parent(k) < k
  BY <1>1, <1>4, ParentBefore
<1>6. Parent(k) \in Places
  BY <1>1, <1>4, <1>5 DEF Places
<1>7. ~ Before(h[k], h[Parent(k)])
  BY <1>4 DEF HeapOrdered, AtHand, Filled
<1>8. Before(h[Parent(k)], h[0])
  BY <1>1, <1>4, <1>6, <1>7, OrderOfPriorities
<1>9. k <= Parent(k)
  BY <1>3, <1>6, <1>8
<1> QED BY <1>1, <1>4, <1>5, <1>9

(* What Filled is, by places. *)
LEMMA FilledElements ==
  ASSUME QueueTypeOK
  PROVE  /\ Filled \in [Places -> Elements]
         /\ at = "idle" => Filled = h
         /\ at /= "idle" => \A k \in Places : Filled[k] = IF k = hole THEN x ELSE h[k]
BY DEF QueueTypeOK, Filled

(* An element that is put down is where Filled had it. *)
LEMMA PutDownKeeps ==
  ASSUME QueueTypeOK, at /= "idle", PutDown, UNCHANGED <<n, x, held, popped>>
  PROVE  QueueTypeOK' /\ Filled' = Filled /\ Places' = Places
BY DEF QueueTypeOK, PutDown, Filled, Places

(* A hole that moves exchanges the element carried with the one at place k. *)
LEMMA MoveExchanges ==
  ASSUME QueueTypeOK, at /= "idle", NEW k \in Places, k /= hole, MoveHole(k),
         UNCHANGED <<n, x, held, popped>>
  PROVE  /\ QueueTypeOK' /\ Places' = Places /\ at' = at /\ hole' = k
         /\ \A j \in Places :
              Filled'[j] = IF j = k THEN Filled[hole]
                           ELSE IF j = hole THEN Filled[k] ELSE Filled[j]
<1>1. QueueTypeOK'
  BY DEF QueueTypeOK, MoveHole, Places
<1>2. Places' = Places /\ at' = at /\ hole' = k
  BY DEF MoveHole, Places
<1>3. \A j \in Places : h'[j] = IF j = hole THEN h[k] ELSE h[j]
  BY DEF MoveHole, QueueTypeOK
<1>4. \A j \in Places : Filled'[j] = IF j = k THEN x ELSE h'[j]
  BY <1>1, <1>2 DEF Filled, QueueTypeOK
<1> QED BY <1>1, <1>2, <1>3, <1>4, FilledElements DEF QueueTypeOK

(* An exchange loses no element and doubles none. *)
LEMMA ExchangeServes ==
  ASSUME QueueTypeOK, LeastFirst, UNCHANGED <<held, popped>>, Places' = Places,
         NEW u \in Places, NEW v \in Places,
         \A j \in Places :
           Filled'[j] = IF j = u THEN Filled[v] ELSE IF j = v THEN Filled[u] ELSE Filled[j]
  PROVE  LeastFirst'
<1>1. held' = {Filled'[k] : k \in Places'}
  <2>1. held = {Filled[k] : k \in Places}
    BY DEF LeastFirst
  <2>2. ASSUME NEW k \in Places PROVE \E j \in Places : Filled'[j] = Filled[k]
    <3>1. CASE k = u BY <3>1
    <3>2. CASE k = v BY <3>2
    <3>3. CASE k /= u /\ k /= v BY <3>3
    <3> QED BY <3>1, <3>2, <3>3
  <2>3. ASSUME NEW k \in Places PROVE \E j \in Places : Filled'[k] = Filled[j]
    OBVIOUS
  <2>4. \A e : e \in held <=> \E k \in Places : e = Filled'[k]
    <3>1. ASSUME NEW e \in held PROVE \E k \in Places : e = Filled'[k]
      <4>1. PICK k \in Places : e = Filled[k]
        BY <2>1
      <4> QED BY <2>2, <4>1
    <3>2. ASSUME NEW k \in Places PROVE Filled'[k] \in held
      <4>1. PICK j \in Places : Filled'[k] = Filled[j]
        BY <2>3
      <4> QED BY <2>1, <4>1
    <3> QED BY <3>1, <3>2
  <2> QED BY <2>4
<1>2. \A j, k \in Places' : Filled'[j] = Filled'[k] => j = k
  BY DEF LeastFirst
<1>3. Before(u, v)' <=> Before(u, v)
  BY DEF Before
<1> QED BY <1>1, <1>2 DEF LeastFirst, Before

(* At first the queue is empty. *)
LEMMA QueueBegins == QueueInit => QueueInv
<1> SUFFICES ASSUME QueueInit PROVE QueueInv
  OBVIOUS
<1>1. Places = {} /\ 0 .. -1 = {}
  BY DEF QueueInit, Places
<1> QED
  BY <1>1 DEF QueueInit, QueueInv, QueueTypeOK, LeastFirst, HeapOrdered, Filled

(* An element that is pushed is carried up from behind the others. *)
LEMMA PushKeeps ==
  ASSUME QueueInv, NEW e \in Elements \ held, push(e)
  PROVE  QueueInv'
<1> USE DEF QueueInv
<1>1. QueueTypeOK'
  BY DEF push, QueueTypeOK, Places
<1>2. n \in Nat /\ n' = n + 1 /\ Places' = Places \cup {n} /\ n \notin Places
  BY DEF push, QueueTypeOK, Places
<1>3. \A k \in Places' : Filled'[k] = IF k = n THEN e ELSE Filled[k]
  BY <1>1, <1>2 DEF push, QueueTypeOK, Filled, Places
<1>4. LeastFirst'
  <2>1. held' = {Filled'[k] : k \in Places'}
    BY <1>2, <1>3 DEF LeastFirst, push
  <2>2. \A j, k \in Places' : Filled'[j] = Filled'[k] => j = k
    BY <1>2, <1>3 DEF LeastFirst
  <2>3. popped' = NoElement
    BY DEF push
  <2> QED BY <2>1, <2>2, <2>3 DEF LeastFirst
<1>5. HeapOrdered'
  <2>1. at' = "move_up" /\ hole' = n
    BY DEF push
  <2>2. \A k \in Places' \ {0} : Parent(k) \in Places /\ Parent(k) /= n
    BY <1>2, ParentBefore DEF Places
  <2>3. ASSUME NEW k \in Places' \ {0}, k /= n PROVE ~ Before(Filled[k], Filled[Parent(k)])
    BY <1>2, <2>3 DEF HeapOrdered, AtHand, push
  <2>4. ASSUME NEW k \in Places' \ {0}, k /= n PROVE ~ Before(Filled'[k], Filled'[Parent(k)])
    BY <1>2, <1>3, <2>2, <2>3, <2>4
  <2> QED BY <1>2, <2>1, <2>2, <2>4 DEF HeapOrdered, AtHand, Before, Parent
<1> QED BY <1>1, <1>4, <1>5

(* The element comes to its place, or goes up past a parent that is behind  *)
(* it: then it is before the other child of that parent, too.               *)
LEMMA MoveUpKeeps ==
  ASSUME QueueInv, move_up
  PROVE  QueueInv'
<1> USE DEF QueueInv
<1>1. at = "move_up" /\ UNCHANGED <<n, x, held, popped>>
  BY DEF move_up
<1>2. n \in Nat /\ Places \subseteq Nat /\ hole \in Places /\ x \in Elements
  BY <1>1 DEF QueueTypeOK, Places
<1>3. /\ Filled \in [Places -> Elements] /\ Filled[hole] = x
      /\ \A k \in Places : k /= hole => Filled[k] = h[k]
  BY <1>1, <1>2, FilledElements
<1>4. CASE hole > 0 /\ Before(x, h[Parent(hole)])
  <2> DEFINE p == Parent(hole)
  <2>1. p \in Places /\ p < hole
    BY <1>2, <1>4, ParentBefore DEF Places
  <2>2. MoveHole(p)
    BY <1>1, <1>4 DEF move_up
  <2>3. /\ QueueTypeOK' /\ Places' = Places /\ at' = at /\ hole' = p
        /\ \A j \in Places : Filled'[j] = IF j = p THEN Filled[hole]
                                          ELSE IF j = hole THEN Filled[p] ELSE Filled[j]
    <3>1. p /= hole
      BY <1>2, <2>1
    <3> HIDE DEF p
    <3> QED BY <1>1, <2>1, <2>2, <3>1, MoveExchanges
  <2>4. LeastFirst'
    <3> HIDE DEF p
    <3> QED BY <1>1, <1>2, <2>1, <2>3, ExchangeServes
  <2>5. Filled[p] = h[p] /\ Before(Filled[hole], Filled[p])
    <3>1. p /= hole
      BY <1>2, <2>1
    <3>2. Filled[p] = h[p]
      BY <1>3, <2>1, <3>1
    <3>3. Before(x, h[p])
      BY <1>4
    <3> HIDE DEF p
    <3> QED BY <1>3, <3>2, <3>3
  <2>6. ASSUME NEW k \in Places \ {0}, k /= p
        PROVE  ~ Before(Filled'[k], Filled'[Parent(k)])
    <3> DEFINE q == Parent(k)
    <3>0. q \in Places /\ q < k
      BY <1>2, ParentBefore DEF Places
    <3>1. CASE k = hole
      <4>1. Filled'[k] = Filled[p] /\ Filled'[q] = Filled[hole]
        BY <1>2, <2>1, <2>3, <3>1
      <4> QED BY <1>2, <1>3, <2>1, <2>5, <4>1, OrderOfPriorities
    <3>2. CASE k /= hole
      <4>0. Filled'[k] = Filled[k]
        BY <2>3, <2>6, <3>2
      <4>1. ~ Before(Filled[k], Filled[q])
        BY <1>1, <3>2 DEF HeapOrdered, AtHand
      <4>2. CASE q = hole
        <5>1. ~ Before(Filled[k], Filled[p])
          BY <1>1, <1>4, <4>2 DEF HeapOrdered
        <5>2. Filled'[q] = Filled[p]
          BY <1>2, <2>1, <2>3, <4>2
        <5> QED BY <4>0, <5>1, <5>2 DEF Before
      <4>3. CASE q = p
        <5>1. Filled'[q] = Filled[hole]
          BY <2>1, <2>3, <4>3
        <5>2. Filled[k] \in Elements /\ Filled[p] \in Elements /\ Filled[hole] \in Elements
          BY <1>2, <1>3, <2>1
        <5> QED BY <2>5, <4>0, <4>1, <4>3, <5>1, <5>2, OrderOfPriorities
      <4>4. CASE q /= hole /\ q /= p
        BY <2>3, <3>0, <4>0, <4>1, <4>4
      <4> QED BY <4>2, <4>3, <4>4
    <3> QED BY <3>1, <3>2
  <2>7. ASSUME NEW k \in Places \ {0}, Parent(k) = p, p > 0
        PROVE  ~ Before(Filled'[k], Filled'[Parent(p)])
    <3>1. Parent(p) \in Places /\ Parent(p) /= p /\ Parent(p) /= hole
      BY <1>2, <2>1, <2>7, ParentBefore DEF Places
    <3>2. Filled'[Parent(p)] = Filled[Parent(p)]
      BY <2>3, <3>1
    <3>3. ~ Before(Filled[p], Filled[Parent(p)])
      BY <1>1, <2>1, <2>7 DEF HeapOrdered, AtHand
    <3>4. k /= p
      BY <1>2, <2>7, ParentBefore
    <3>5. CASE k = hole
      BY <2>1, <2>3, <3>2, <3>3, <3>4, <3>5
    <3>6. CASE k /= hole
      <4>1. ~ Before(Filled[k], Filled[p])
        BY <1>1, <2>7, <3>6 DEF HeapOrdered, AtHand
      <4>2. Filled'[k] = Filled[k]
        BY <2>3, <3>4, <3>6
      <4>3. /\ Filled[k] \in Elements /\ Filled[p] \in Elements
            /\ Filled[Parent(p)] \in Elements
        BY <1>3, <2>1, <3>1
      <4> QED BY <3>2, <3>3, <4>1, <4>2, <4>3, OrderOfPriorities
    <3> QED BY <3>5, <3>6
  <2>8. HeapOrdered'
    <3> HIDE DEF p
    <3> QED BY <1>1, <2>3, <2>6, <2>7 DEF HeapOrdered, AtHand, Before, Parent
  <2> QED BY <2>3, <2>4, <2>8
<1>5. CASE ~ (hole > 0 /\ Before(x, h[Parent(hole)]))
  <2>1. PutDown
    BY <1>1, <1>5 DEF move_up
  <2>2. QueueTypeOK' /\ Filled' = Filled /\ Places' = Places
    BY <1>1, <2>1, PutDownKeeps
  <2>3. LeastFirst'
    BY <1>1, <2>2 DEF LeastFirst, Before
  <2>4. ASSUME NEW k \in Places \ {0} PROVE ~ Before(Filled[k], Filled[Parent(k)])
    <3>1. CASE k = hole
      <4>1. Parent(hole) \in Places /\ Parent(hole) /= hole
        BY <1>2, <3>1, ParentBefore DEF Places
      <4>2. hole > 0
        BY <1>2, <3>1
      <4> QED BY <1>3, <1>5, <3>1, <4>1, <4>2
    <3>2. CASE k /= hole
      BY <1>1, <3>2 DEF HeapOrdered, AtHand
    <3> QED BY <3>1, <3>2
  <2>5. HeapOrdered'
    BY <2>1, <2>2, <2>4 DEF PutDown, HeapOrdered, Before
  <2> QED BY <2>2, <2>3, <2>5
<1> QED BY <1>4, <1>5

(* The child that is carried past is before the element and not behind the  *)
(* other child.                                                             *)
LEMMA SmallestNode ==
  ASSUME QueueTypeOK, at /= "idle", NEW j, j = smallest_node(hole)
  PROVE  /\ j \in Places
         /\ j /= hole => /\ j > 0 /\ Parent(j) = hole
                         /\ Before(h[j], x)
                         /\ \A k \in Places \ {0} :
                              Parent(k) = hole => ~ Before(h[k], h[j])
         /\ j = hole => \A k \in Places \ {0} : Parent(k) = hole => ~ Before(h[k], x)
<1> DEFINE l == 2 * hole + 1
           r == l + 1
           m == IF r < n THEN min(l, r) ELSE l
<1>1. n \in Nat /\ hole \in Places /\ Places \subseteq Nat /\ x \in Elements
  BY DEF QueueTypeOK, Places
<1>2. j = IF l >= n THEN hole ELSE IF Before(h[m], x) THEN m ELSE hole
  BY DEF smallest_node
<1>3. \A k \in Places \ {0} : Parent(k) = hole <=> k = l \/ k = r
  BY <1>1, ParentBefore
<1>4. \A k \in Places : h[k] \in Elements
  BY DEF QueueTypeOK
<1>5. l \in Nat /\ r \in Nat /\ l > 0 /\ r > 0 /\ l /= hole /\ r /= hole /\ r = l + 1
  BY <1>1 DEF Places
<1> HIDE DEF l, r
<1>6. CASE l >= n
  <2>1. l \notin Places /\ r \notin Places
    BY <1>1, <1>5, <1>6 DEF Places
  <2> QED BY <1>1, <1>2, <1>3, <1>6, <2>1
<1>7. CASE l < n
  <2>1. l \in Places \ {0} /\ (r \in Places <=> r < n)
    BY <1>1, <1>5, <1>7 DEF Places
  <2>2. /\ m \in Places \ {0} /\ (m = l \/ m = r)
        /\ ~ Before(h[l], h[m]) /\ (r \in Places => ~ Before(h[r], h[m]))
    <3>1. CASE r < n
      BY <1>4, <1>5, <2>1, <3>1, OrderOfPriorities DEF min
    <3>2. CASE ~ r < n
      BY <1>4, <1>5, <2>1, <3>2, OrderOfPriorities
    <3> QED BY <3>1, <3>2
  <2>3. m > 0 /\ m /= hole
    BY <1>5, <2>2
  <2>4. j = IF Before(h[m], x) THEN m ELSE hole
    BY <1>1, <1>2, <1>5, <1>7
  <2> HIDE DEF m
  <2>5. CASE Before(h[m], x)
    BY <1>3, <2>2, <2>3, <2>4, <2>5
  <2>6. CASE ~ Before(h[m], x)
    BY <1>1, <1>3, <1>4, <2>1, <2>2, <2>3, <2>4, <2>6, OrderOfPriorities
  <2> QED BY <2>5, <2>6
<1> QED BY <1>1, <1>5, <1>6, <1>7

(* The element comes to its place, or goes down past the child that may be  *)
(* its parent and its sibling's.                                            *)
LEMMA MoveDownKeeps ==
  ASSUME QueueInv, move_down
  PROVE  QueueInv'
<1> USE DEF QueueInv
<1>1. at = "move_down" /\ UNCHANGED <<n, x, held, popped>>
  BY DEF move_down
<1>2. n \in Nat /\ Places \subseteq Nat /\ hole \in Places /\ x \in Elements
  BY <1>1 DEF QueueTypeOK, Places
<1>3. /\ Filled \in [Places -> Elements] /\ Filled[hole] = x
      /\ \A k \in Places : k /= hole => Filled[k] = h[k]
  BY <1>1, <1>2, FilledElements
<1>4. \A k \in Places \ {0} : Parent(k) \in Places /\ Parent(k) /= k
  BY <1>2, ParentBefore DEF Places
<1>5. PICK c : c = smallest_node(hole)
  OBVIOUS
<1>6. /\ c \in Places
      /\ c /= hole => /\ c > 0 /\ Parent(c) = hole
                      /\ Before(h[c], x)
                      /\ \A k \in Places \ {0} :
                           Parent(k) = hole => ~ Before(h[k], h[c])
      /\ c = hole => \A k \in Places \ {0} : Parent(k) = hole => ~ Before(h[k], x)
  BY <1>1, <1>5, SmallestNode
<1>7. CASE c /= hole
  <2>1. MoveHole(c)
    BY <1>1, <1>5, <1>7 DEF move_down
  <2>2. /\ QueueTypeOK' /\ Places' = Places /\ at' = at /\ hole' = c
        /\ \A j \in Places : Filled'[j] = IF j = c THEN Filled[hole]
                                          ELSE IF j = hole THEN Filled[c] ELSE Filled[j]
    BY <1>1, <1>6, <1>7, <2>1, MoveExchanges
  <2>3. LeastFirst'
    BY <1>1, <1>2, <1>6, <2>2, ExchangeServes
  <2>4. Before(Filled[c], Filled[hole]) /\ Filled[c] = h[c] /\ c \in Places \ {0}
    BY <1>2, <1>3, <1>6, <1>7
  <2>5. ASSUME NEW k \in Places \ {0}, Parent(k) /= c
        PROVE  ~ Before(Filled'[k], Filled'[Parent(k)])
    <3>1. CASE Parent(k) = hole
      <4>1. Filled'[Parent(k)] = Filled[c]
        BY <1>2, <1>7, <2>2, <3>1
      <4>2. CASE k = c
        BY <1>2, <1>3, <2>2, <2>4, <4>1, <4>2, OrderOfPriorities
      <4>3. CASE k /= c
        <5>1. k /= hole
          BY <1>4, <3>1
        <5>2. ~ Before(h[k], h[c])
          BY <1>6, <1>7, <3>1
        <5> QED BY <1>3, <2>2, <2>4, <4>1, <4>3, <5>1, <5>2
      <4> QED BY <4>2, <4>3
    <3>2. CASE Parent(k) /= hole
      <4>1. k /= c
        BY <1>6, <1>7, <3>2
      <4>2. Filled'[Parent(k)] = Filled[Parent(k)]
        BY <1>4, <2>2, <2>5, <3>2
      <4>3. CASE k = hole
        <5>1. hole > 0 /\ ~ Before(Filled[c], Filled[Parent(hole)])
          BY <1>1, <1>2, <1>6, <1>7, <2>4, <4>3 DEF HeapOrdered
        <5> QED BY <1>7, <2>2, <4>2, <4>3, <5>1
      <4>4. CASE k /= hole
        BY <1>1, <2>2, <3>2, <4>1, <4>2, <4>4 DEF HeapOrdered, AtHand
      <4> QED BY <4>3, <4>4
    <3> QED BY <3>1, <3>2
  <2>6. ASSUME NEW k \in Places \ {0}, Parent(k) = c
        PROVE  ~ Before(Filled'[k], Filled'[Parent(c)])
    <3>1. Parent(c) = hole /\ Filled'[hole] = Filled[c]
      BY <1>2, <1>6, <1>7, <2>2
    <3>2. k /= c /\ k /= hole
      <4>1. c \in Nat /\ k \in Nat /\ c > hole /\ k > c
        BY <1>2, <1>6, <1>7, <2>6, ParentBefore
      <4> QED BY <1>2, <4>1
    <3>3. Filled'[k] = Filled[k]
      BY <2>2, <3>2
    <3>4. ~ Before(Filled[k], Filled[Parent(k)])
      BY <1>1, <1>7, <2>6 DEF HeapOrdered, AtHand
    <3> QED BY <2>6, <3>1, <3>3, <3>4
  <2>7. HeapOrdered'
    BY <1>1, <2>2, <2>5, <2>6 DEF HeapOrdered, AtHand, Before, Parent
  <2> QED BY <2>2, <2>3, <2>7
<1>8. CASE c = hole
  <2>1. PutDown
    BY <1>1, <1>5, <1>8 DEF move_down
  <2>2. QueueTypeOK' /\ Filled' = Filled /\ Places' = Places
    BY <1>1, <2>1, PutDownKeeps
  <2>3. LeastFirst'
    BY <1>1, <2>2 DEF LeastFirst, Before
  <2>4. ASSUME NEW k \in Places \ {0} PROVE ~ Before(Filled[k], Filled[Parent(k)])
    <3>1. CASE Parent(k) = hole
      BY <1>3, <1>4, <1>6, <1>8, <3>1
    <3>2. CASE Parent(k) /= hole
      BY <1>1, <3>2 DEF HeapOrdered, AtHand
    <3> QED BY <3>1, <3>2
  <2>5. HeapOrdered'
    BY <2>1, <2>2, <2>4 DEF PutDown, HeapOrdered, Before
  <2> QED BY <2>2, <2>3, <2>5
<1> QED BY <1>7, <1>8

(* The root is what is popped, and the last element takes its place.        *)
LEMMA PopKeeps ==
  ASSUME QueueInv, pop
  PROVE  QueueInv'
<1> USE DEF QueueInv
<1>1. /\ at = "idle" /\ n \in Nat /\ n > 0 /\ h \in [Places -> Elements]
      /\ n' = n - 1 /\ 0 \in Places /\ n - 1 \in Places /\ Places \subseteq Nat
      /\ Places' = Places \ {n - 1} /\ Filled = h
  BY DEF pop, QueueTypeOK, Places, Filled
<1>2. QueueTypeOK'
  <2>1. h' \in [Places' -> Elements]
    BY <1>1 DEF pop, Places
  <2>2. popped' \in Elements /\ held' \subseteq Elements /\ n' \in Nat
    BY <1>1 DEF pop, QueueTypeOK
  <2>3. CASE n > 1
    BY <1>1, <2>1, <2>2, <2>3 DEF pop, QueueTypeOK, Places
  <2>4. CASE n = 1
    BY <1>1, <2>1, <2>2, <2>4 DEF pop, QueueTypeOK, Places
  <2> QED BY <1>1, <2>3, <2>4
<1>3. \A k \in Places' : h'[k] = h[k]
  BY <1>1 DEF pop, Places
<1>4. \A k \in Places' : Filled'[k] = IF k = 0 THEN h[n - 1] ELSE h[k]
  <2>1. CASE n > 1
    <3>1. at' = "move_down" /\ hole' = 0 /\ x' = h[n - 1]
      BY <2>1 DEF pop
    <3> QED BY <1>2, <1>3, <3>1, FilledElements DEF Filled, QueueTypeOK
  <2>2. CASE n = 1
    BY <1>1, <2>2 DEF Places
  <2> QED BY <1>1, <2>1, <2>2
<1>5. LeastFirst'
  <2>1. /\ held = {h[k] : k \in Places}
        /\ \A j, k \in Places : h[j] = h[k] => j = k
    BY <1>1 DEF LeastFirst
  <2>2. \A e : e \in held' <=> \E k \in Places : k /= 0 /\ e = h[k]
    BY <1>1, <2>1 DEF pop
  <2>3. \A e : (\E k \in Places : k /= 0 /\ e = h[k])
                 <=> \E k \in Places' : e = Filled'[k]
    <3>1. ASSUME NEW k \in Places, k /= 0 PROVE \E j \in Places' : h[k] = Filled'[j]
      <4>1. CASE k = n - 1
        <5>1. 0 \in Places'
          BY <1>1, <3>1, <4>1
        <5> QED BY <1>4, <4>1, <5>1
      <4>2. CASE k /= n - 1
        BY <1>1, <1>4, <3>1, <4>2
      <4> QED BY <4>1, <4>2
    <3>2. ASSUME NEW k \in Places'
          PROVE  \E j \in Places : j /= 0 /\ Filled'[k] = h[j]
      <4>1. CASE k = 0
        <5>1. n - 1 /= 0
          BY <1>1, <3>2, <4>1
        <5> QED BY <1>1, <1>4, <4>1, <5>1
      <4>2. CASE k /= 0
        BY <1>1, <1>4, <4>2
      <4> QED BY <4>1, <4>2
    <3> QED BY <3>1, <3>2
  <2>4. held' = {Filled'[k] : k \in Places'}
    BY <2>2, <2>3
  <2>5. \A j, k \in Places' : Filled'[j] = Filled'[k] => j = k
    BY <1>1, <1>4, <2>1
  <2>6. popped' = h[0] /\ popped' \notin held'
    BY <2>1 DEF pop
  <2>7. \A e \in held' : ~ Before(e, h[0])
    BY <1>1, <2>2, RootIsLeast
  <2> QED BY <2>4, <2>5, <2>6, <2>7 DEF LeastFirst, Before
<1>6. HeapOrdered'
  <2>1. CASE n > 1
    <3>1. at' = "move_down" /\ hole' = 0
      BY <2>1 DEF pop
    <3>2. ASSUME NEW k \in Places' \ {0}, Parent(k) /= 0
          PROVE  ~ Before(Filled'[k], Filled'[Parent(k)])
      <4>1. Parent(k) \in Places'
        BY <1>1, ParentBefore DEF Places
      <4>2. ~ Before(h[k], h[Parent(k)])
        BY <1>1 DEF HeapOrdered, AtHand
      <4> QED BY <1>4, <3>2, <4>1, <4>2
    <3> QED BY <3>1, <3>2 DEF HeapOrdered, AtHand, Before, Parent
  <2>2. CASE n = 1
    <3>1. Places' = {} /\ at' = "idle"
      BY <1>1, <2>2 DEF pop, Places
    <3> QED BY <3>1 DEF HeapOrdered
  <2> QED BY <1>1, <2>1, <2>2
<1> QED BY <1>2, <1>5, <1>6

(* The invariant holds in every reachable state, for any elements with any  *)
(* priorities: the places that are not at hand are in order, what is held   *)
(* is in the array once, and what was popped is before none of it.          *)
THEOREM QueueInvariance == QueueSpec => []QueueInv
<1>1. QueueInit => QueueInv
  BY QueueBegins
<1>2. QueueInv /\ [QueueNext]_queueVars => QueueInv'
  <2> SUFFICES ASSUME QueueInv, [QueueNext]_queueVars PROVE QueueInv'
    OBVIOUS
  <2>1. ASSUME NEW e \in Elements \ held, push(e) PROVE QueueInv'
    BY <2>1, PushKeeps
  <2>2. CASE move_up
    BY <2>2, MoveUpKeeps
  <2>3. CASE move_down
    BY <2>3, MoveDownKeeps
  <2>4. CASE pop
    BY <2>4, PopKeeps
  <2>5. CASE pop_None
    <3>1. /\ UNCHANGED <<h, n, at, x, hole, held>> /\ popped' = NoElement
      BY <2>5 DEF pop_None
    <3> QED
      BY <3>1 DEF QueueInv, QueueTypeOK, LeastFirst, HeapOrdered, Filled, Places,
                  AtHand, Before, Parent
  <2>6. CASE UNCHANGED queueVars
    BY <2>6 DEF queueVars, QueueInv, QueueTypeOK, LeastFirst, HeapOrdered, Filled,
                Places, AtHand, Before, Parent
  <2> QED BY <2>1, <2>2, <2>3, <2>4, <2>5, <2>6 DEF QueueNext
<1> QED BY <1>1, <1>2, PTL DEF QueueSpec

(* Pop serves the least of what is held, and nothing is lost or doubled.    *)
THEOREM QueueServesLeast == QueueSpec => []LeastFirst
<1>1. QueueInv => LeastFirst
  BY DEF QueueInv
<1> QED BY <1>1, QueueInvariance, PTL

-----------------------------------------------------------------------------
(* The synchronised container. *)

(* A `get' removes exactly one element, whichever the container. *)
LEMMA GetterRemovesOne ==
  ASSUME NEW buf \in Seq(Values), NEW i \in Getter(buf)
  PROVE  /\ i \in 1 .. Len(buf)
         /\ buf[i] \in Values
         /\ Without(buf, i) \in Seq(Values)
         /\ Len(Without(buf, i)) = Len(buf) - 1
<1>1. i \in 1 .. Len(buf)
  BY DEF Getter
<1>2. buf[i] \in Values /\ Len(buf) \in Nat
  BY <1>1
<1>3. Without(buf, i) \in [1 .. Len(buf) - 1 -> Values]
  <2>1. \A j \in 1 .. Len(buf) - 1 :
          (IF j < i THEN buf[j] ELSE buf[j + 1]) \in Values
    BY <1>2
  <2> QED BY <2>1 DEF Without
<1>4. Len(buf) - 1 \in Nat
  BY <1>1, <1>2
<1> QED BY <1>1, <1>2, <1>3, <1>4

(* How the sizes of sets of threads change. *)
LEMMA ThreadSetSizes ==
  ASSUME NEW S \in SUBSET Threads
  PROVE  /\ Cardinality(S) \in Nat
         /\ Cardinality(S) = 0 <=> S = {}
         /\ \A t \in Threads \ S : Cardinality(S \cup {t}) = Cardinality(S) + 1
         /\ \A t \in S : Cardinality(S \ {t}) = Cardinality(S) - 1
         /\ \A t \in Threads : Cardinality(S \ {t}) >= Cardinality(S) - 1
<1>1. IsFiniteSet(S)
  BY ThreadsAssumption, FS_Subset
<1>2. Cardinality(S) \in Nat
  BY <1>1, FS_CardinalityType
<1>3. Cardinality(S) = 0 <=> S = {}
  BY <1>1, FS_EmptySet
<1>4. \A t \in Threads \ S : Cardinality(S \cup {t}) = Cardinality(S) + 1
  BY <1>1, FS_AddElement
<1>5. \A t \in Threads :
        Cardinality(S \ {t}) = IF t \in S THEN Cardinality(S) - 1
                                          ELSE Cardinality(S)
  BY <1>1, FS_RemoveElement
<1> QED BY <1>2, <1>3, <1>4, <1>5

(* The induction: Inv holds initially, and one lemma per operation of the   *)
(* client shows that it survives that operation.                            *)
LEMMA FirstInv == Init => Inv
<1> SUFFICES ASSUME Init PROVE Inv
  OBVIOUS
<1>1. TypeOK
  <2>1. sync \in SyncType
    BY DEF Init, Empty, SyncType
  <2>2. call \in [Threads -> Calls] /\ pushed \in Seq(Values) /\ taken \in Seq(Values)
    BY DEF Init, Calls
  <2>3. started \in BOOLEAN /\ sawNone \in BOOLEAN
    BY Zenon DEF Init
  <2> QED BY <2>1, <2>2, <2>3 DEF Init, TypeOK
<1>2. sync.waiting = {} /\ sync.woken = {} /\ sync.pledges = 0
  BY DEF Init, Empty
<1>3. Cardinality({}) = 0
  BY FS_EmptySet
<1> QED BY <1>1, <1>2, <1>3
        DEF Init, Inv, OnlyCallersWait, NoLostWakeup, SleepersHavePledge,
            PledgesAccounted, NoneIsFinal, CallsInOrder

LEMMA CallInv ==
  ASSUME Inv, NEW t \in Threads, Call(t)
  PROVE  Inv'
<1>1. TypeOK'
  BY DEF Inv, TypeOK, Call, Calls
<1>2. CallsInOrder'
  BY DEF Inv, TypeOK, Call, Calls, CallsInOrder
<1>3. \A u \in Threads : call[u] # "idle" => call'[u] # "idle"
  BY DEF Inv, TypeOK, Call, Calls
<1> QED BY <1>1, <1>2, <1>3
        DEF Inv, TypeOK, SyncType, Call, OnlyCallersWait, NoLostWakeup,
            SleepersHavePledge, PledgesAccounted, NoneIsFinal

LEMMA ReturnSomeInv ==
  ASSUME Inv, NEW t \in Threads, ReturnSome(t)
  PROVE  Inv'
<1>1. PICK v \in Values, i \in Getter(sync.buf) :
        /\ t \notin sync.waiting
        /\ sync' = [sync EXCEPT !.buf = Without(sync.buf, i),
                                !.pledges = IF call[t] = "pledge"
                                            THEN @ + 1 ELSE @,
                                !.woken = @ \ {t}]
        /\ taken' = Append(taken, v)
  BY DEF ReturnSome, GetSome, Runnable
<1>2. /\ i \in 1 .. Len(sync.buf)
      /\ Without(sync.buf, i) \in Seq(Values)
      /\ Len(Without(sync.buf, i)) = Len(sync.buf) - 1
  BY GetterRemovesOne DEF Inv, TypeOK, SyncType
<1>3. TypeOK'
  <2>1. sync' \in SyncType
    <3>1. sync'.pledges \in Int /\ sync'.buf \in Seq(Values)
      BY <1>1, <1>2 DEF Inv, TypeOK, SyncType
    <3>2. sync'.woken \in SUBSET Threads
      BY <1>1 DEF Inv, TypeOK, SyncType
    <3> QED BY <1>1, <3>1, <3>2 DEF Inv, TypeOK, SyncType
  <2> QED BY <1>1, <2>1 DEF Inv, TypeOK, ReturnSome, Calls
<1>4. OnlyCallersWait'
  BY <1>1 DEF Inv, TypeOK, SyncType, OnlyCallersWait, ReturnSome
<1>5. NoLostWakeup'
  <2>1. /\ sync'.waiting = sync.waiting
        /\ Len(sync'.buf) = Len(sync.buf) - 1
        /\ sync'.woken = sync.woken \ {t}
    BY <1>1, <1>2 DEF Inv, TypeOK, SyncType
  <2>2. /\ Cardinality(sync.woken) \in Nat
        /\ Cardinality(sync'.woken) \in Nat
        /\ Cardinality(sync'.woken) >= Cardinality(sync.woken) - 1
    BY <2>1, ThreadSetSizes DEF Inv, TypeOK, SyncType
  <2>3. Len(sync.buf) \in Nat
    BY DEF Inv, TypeOK, SyncType
  <2> QED BY <2>1, <2>2, <2>3 DEF Inv, NoLostWakeup
<1>6. PledgesAccounted'
  <2>1. CASE call[t] = "pledge"
    <3>1. t \in Threads \ holders /\ holders' = holders \cup {t}
      BY <2>1 DEF Inv, CallsInOrder, ReturnSome
    <3>2. sync'.pledges = sync.pledges + 1
      BY <1>1, <2>1 DEF Inv, TypeOK, SyncType
    <3> QED BY <3>1, <3>2, ThreadSetSizes DEF Inv, TypeOK, PledgesAccounted
  <2>2. CASE call[t] # "pledge"
    BY <1>1, <2>2 DEF Inv, TypeOK, SyncType, PledgesAccounted, ReturnSome
  <2> QED BY <2>1, <2>2
<1>7. SleepersHavePledge'
  BY <1>1 DEF Inv, TypeOK, SyncType, SleepersHavePledge
<1>8. NoneIsFinal'
  BY <1>2 DEF Inv, NoneIsFinal, ReturnSome
<1>9. CallsInOrder'
  BY DEF Inv, TypeOK, Calls, ReturnSome, CallsInOrder
<1> QED BY <1>3, <1>4, <1>5, <1>6, <1>7, <1>8, <1>9 DEF Inv

LEMMA ReturnNoneInv ==
  ASSUME Inv, NEW t \in Threads, ReturnNone(t)
  PROVE  Inv'
<1>1. sync' = [sync EXCEPT !.waiting = {},
                           !.woken = (@ \cup sync.waiting) \ {t}]
  BY DEF ReturnNone, GetNone
<1>2. TypeOK'
  BY <1>1 DEF Inv, TypeOK, SyncType, Calls, ReturnNone
<1>3. OnlyCallersWait'
  BY <1>1 DEF Inv, TypeOK, SyncType, OnlyCallersWait, ReturnNone
<1>4. NoneIsFinal'
  <2>1. CASE sync.closed
    BY <1>1, <2>1 DEF Inv, TypeOK, SyncType, NoneIsFinal, ReturnNone
  <2>2. CASE ~sync.closed
    <3>1. sync.pledges = 0 /\ sync.buf = <<>>
      BY <2>2 DEF ReturnNone, GetNone, Finished
    <3>2. holders = {}
      BY <3>1, ThreadSetSizes DEF Inv, TypeOK, PledgesAccounted
    <3> QED BY <1>1, <3>1, <3>2
            DEF Inv, TypeOK, SyncType, NoneIsFinal, ReturnNone
  <2> QED BY <2>1, <2>2
<1>5. CallsInOrder'
  BY DEF ReturnNone, Inv, TypeOK, Calls, CallsInOrder
<1>6. NoLostWakeup' /\ SleepersHavePledge'
  BY <1>1 DEF Inv, TypeOK, SyncType, NoLostWakeup, SleepersHavePledge
<1>7. PledgesAccounted'
  BY <1>1 DEF Inv, TypeOK, SyncType, PledgesAccounted, ReturnNone
<1> QED BY <1>2, <1>3, <1>4, <1>5, <1>6, <1>7 DEF Inv

LEMMA BlockInv ==
  ASSUME Inv, NEW t \in Threads, Block(t)
  PROVE  Inv'
<1>1. /\ sync' = [sync EXCEPT !.waiting = @ \cup {t}, !.woken = @ \ {t}]
      /\ sync.buf = <<>>
      /\ sync.pledges # 0 /\ ~sync.closed
      /\ call[t] # "idle"
      /\ UNCHANGED <<call, holders, started, sawNone, pushed, taken>>
  BY DEF Block, GetWait, Finished
<1>2. TypeOK' /\ CallsInOrder'
  BY <1>1 DEF Inv, TypeOK, SyncType, CallsInOrder
<1>3. OnlyCallersWait' /\ NoneIsFinal' /\ PledgesAccounted'
  BY <1>1 DEF Inv, TypeOK, SyncType, OnlyCallersWait, NoneIsFinal,
              PledgesAccounted
<1>4. NoLostWakeup'
  <2>1. Len(sync'.buf) = 0 /\ Cardinality(sync'.woken) \in Nat
    BY <1>1, <1>2, ThreadSetSizes DEF TypeOK, SyncType
  <2> QED BY <2>1 DEF NoLostWakeup
<1>5. SleepersHavePledge'
  <2>1. sync.pledges \in Nat
    BY ThreadSetSizes DEF Inv, TypeOK, PledgesAccounted
  <2> QED BY <1>1, <2>1 DEF Inv, TypeOK, SyncType, SleepersHavePledge
<1> QED BY <1>2, <1>3, <1>4, <1>5 DEF Inv

LEMMA SpuriousInv ==
  ASSUME Inv, NEW t \in Threads, Spurious(t)
  PROVE  Inv'
<1>1. /\ t \in sync.waiting
      /\ sync' = [sync EXCEPT !.waiting = @ \ {t}, !.woken = @ \cup {t}]
      /\ UNCHANGED <<call, holders, started, sawNone, pushed, taken>>
  BY DEF Spurious, SpuriousWakeup
<1>2. TypeOK' /\ CallsInOrder'
  BY <1>1 DEF Inv, TypeOK, SyncType, CallsInOrder
<1>3. /\ OnlyCallersWait' /\ NoneIsFinal' /\ PledgesAccounted'
      /\ SleepersHavePledge'
  BY <1>1 DEF Inv, TypeOK, SyncType, OnlyCallersWait, NoneIsFinal,
              PledgesAccounted, SleepersHavePledge
<1>4. NoLostWakeup'
  <2>1. /\ sync'.woken = sync.woken \cup {t}
        /\ t \in Threads \ sync.woken
        /\ sync'.buf = sync.buf
    BY <1>1 DEF Inv, TypeOK, SyncType, OnlyCallersWait
  <2>2. /\ Cardinality(sync'.woken) = Cardinality(sync.woken) + 1
        /\ Cardinality(sync.woken) \in Nat
        /\ Len(sync.buf) \in Nat
    BY <2>1, ThreadSetSizes DEF Inv, TypeOK, SyncType
  <2> QED BY <1>1, <2>1, <2>2 DEF Inv, NoLostWakeup
<1> QED BY <1>2, <1>3, <1>4 DEF Inv

LEMMA PushInv ==
  ASSUME Inv, NEW t \in Threads, Push(t)
  PROVE  Inv'
<1>1. PICK v \in Values, signalled \in SUBSET sync.waiting :
        /\ IF sync.waiting = {} THEN signalled = {}
                                ELSE \E u \in sync.waiting : signalled = {u}
        /\ sync' = [sync EXCEPT !.buf = Append(@, v),
                                !.waiting = @ \ signalled,
                                !.woken = @ \cup signalled]
        /\ pushed' = Append(pushed, v)
  BY DEF Push, Write
<1>2. UNCHANGED <<call, holders, started, sawNone, taken>>
  BY DEF Push
<1>3. /\ sync'.buf = Append(sync.buf, v)
      /\ sync'.waiting = sync.waiting \ signalled
      /\ sync'.woken = sync.woken \cup signalled
      /\ sync'.pledges = sync.pledges
      /\ sync'.closed = sync.closed
  BY <1>1 DEF Inv, TypeOK, SyncType
<1>4. TypeOK' /\ CallsInOrder'
  <2>1. /\ Append(sync.buf, v) \in Seq(Values)
        /\ sync.waiting \ signalled \in SUBSET Threads
        /\ sync.woken \cup signalled \in SUBSET Threads
    BY DEF Inv, TypeOK, SyncType
  <2>2. sync' \in SyncType
    BY <1>1, <2>1 DEF Inv, TypeOK, SyncType
  <2>3. TypeOK'
    BY <1>1, <1>2, <2>2 DEF Inv, TypeOK
  <2> QED BY <1>2, <2>3 DEF Inv, CallsInOrder
<1>5. OnlyCallersWait' /\ PledgesAccounted' /\ SleepersHavePledge'
  BY <1>1, <1>2, <1>3
     DEF Inv, OnlyCallersWait, PledgesAccounted, SleepersHavePledge
<1>6. NoLostWakeup'
  <2>1. CASE sync.waiting = {}
    BY <1>3, <2>1 DEF NoLostWakeup
  <2>2. CASE sync.waiting # {}
    <3>1. PICK u \in sync.waiting : signalled = {u}
      BY <1>1, <2>2
    <3>2. u \in Threads \ sync.woken
      BY DEF Inv, TypeOK, SyncType, OnlyCallersWait
    <3>3. /\ Cardinality(sync'.woken) = Cardinality(sync.woken) + 1
          /\ Cardinality(sync.woken) \in Nat
      BY <1>3, <3>1, <3>2, ThreadSetSizes DEF Inv, TypeOK, SyncType
    <3>4. Len(sync'.buf) = Len(sync.buf) + 1 /\ Len(sync.buf) \in Nat
      BY <1>3 DEF Inv, TypeOK, SyncType
    <3> QED BY <2>2, <3>3, <3>4 DEF Inv, NoLostWakeup
  <2> QED BY <2>1, <2>2
<1>7. NoneIsFinal'
  <2>1. ~sawNone
    BY DEF Push, MayFeed, Inv, CallsInOrder, NoneIsFinal
  <2> QED BY <1>2, <2>1 DEF NoneIsFinal
<1> QED BY <1>4, <1>5, <1>6, <1>7 DEF Inv

LEMMA PledgeInv ==
  ASSUME Inv, NEW t \in Threads, NEW u \in Threads, Pledge(t, u)
  PROVE  Inv'
<1>1. /\ sync' = [sync EXCEPT !.pledges = @ + 1]
      /\ holders' = holders \cup {u}
      /\ u \notin holders /\ call[u] = "idle"
      /\ UNCHANGED <<call, started, sawNone, pushed, taken>>
  BY DEF Pledge, MakePledge
<1>2. TypeOK'
  <2>1. sync.pledges + 1 \in Int /\ sync \in SyncType
    BY DEF Inv, TypeOK, SyncType
  <2>2. sync' \in SyncType
    BY <1>1, <2>1 DEF SyncType
  <2>3. holders' \in SUBSET Threads
    BY <1>1 DEF Inv, TypeOK
  <2> QED BY <1>1, <2>2, <2>3 DEF Inv, TypeOK
<1>9. CallsInOrder'
  BY <1>1 DEF Inv, CallsInOrder
<1>3. OnlyCallersWait' /\ NoLostWakeup'
  BY <1>1 DEF Inv, TypeOK, SyncType, OnlyCallersWait, NoLostWakeup
<1>4. SleepersHavePledge'
  BY <1>1 DEF Inv, TypeOK, SyncType, SleepersHavePledge
<1>5. PledgesAccounted'
  BY <1>1, ThreadSetSizes DEF Inv, TypeOK, SyncType, PledgesAccounted
<1>6. NoneIsFinal'
  <2>1. ~sawNone
    BY DEF Pledge, MayFeed, Inv, CallsInOrder, NoneIsFinal
  <2> QED BY <1>1, <2>1 DEF NoneIsFinal
<1> QED BY <1>2, <1>9, <1>3, <1>4, <1>5, <1>6 DEF Inv

LEMMA EndInv ==
  ASSUME Inv, NEW t \in Threads, End(t)
  PROVE  Inv'
<1>1. /\ sync' = IF sync.pledges - 1 = 0
                 THEN [sync EXCEPT !.pledges = @ - 1, !.waiting = {},
                                   !.woken = @ \cup sync.waiting]
                 ELSE [sync EXCEPT !.pledges = @ - 1]
      /\ holders' = holders \ {t}
      /\ t \in holders
      /\ UNCHANGED <<call, started, sawNone, pushed, taken>>
  BY DEF End, EndPledge, Broadcast, Inv, TypeOK, SyncType
<1>2. sync.pledges \in Nat
  BY ThreadSetSizes DEF Inv, TypeOK, PledgesAccounted
<1>3. TypeOK'
  <2>1. sync' \in SyncType
    <3>1. /\ sync.pledges - 1 \in Int
          /\ sync.woken \cup sync.waiting \in SUBSET Threads
          /\ sync \in SyncType
      BY DEF Inv, TypeOK, SyncType
    <3>2. CASE sync.pledges - 1 = 0
      <4>1. sync' = [sync EXCEPT !.pledges = @ - 1, !.waiting = {},
                                 !.woken = @ \cup sync.waiting]
        BY <1>1, <3>2
      <4> QED BY <3>1, <4>1 DEF SyncType
    <3>3. CASE sync.pledges - 1 # 0
      <4>1. sync' = [sync EXCEPT !.pledges = @ - 1]
        BY <1>1, <3>3
      <4> QED BY <3>1, <4>1 DEF SyncType
    <3> QED BY <3>2, <3>3
  <2> QED BY <1>1, <2>1 DEF Inv, TypeOK
<1>9. CallsInOrder'
  BY <1>1 DEF Inv, CallsInOrder
<1>4. OnlyCallersWait' /\ NoLostWakeup'
  BY <1>1 DEF Inv, TypeOK, SyncType, OnlyCallersWait, NoLostWakeup
<1>5. SleepersHavePledge'
  BY <1>1, <1>2 DEF Inv, TypeOK, SyncType, SleepersHavePledge
<1>6. PledgesAccounted'
  BY <1>1, ThreadSetSizes DEF Inv, TypeOK, SyncType, PledgesAccounted
<1>7. NoneIsFinal'
  BY <1>1 DEF Inv, NoneIsFinal
<1> QED BY <1>3, <1>9, <1>4, <1>5, <1>6, <1>7 DEF Inv

LEMMA CrashInv ==
  ASSUME Inv, NEW t \in Threads, Crash(t)
  PROVE  Inv'
<1>1. /\ sync' = [sync EXCEPT !.closed = TRUE, !.waiting = {},
                              !.woken = @ \cup sync.waiting]
      /\ UNCHANGED <<call, holders, started, sawNone, pushed, taken>>
  BY DEF Crash, Fail, Broadcast, Inv, TypeOK, SyncType
<1>2. TypeOK' /\ CallsInOrder'
  BY <1>1 DEF Inv, TypeOK, SyncType, CallsInOrder
<1>3. /\ OnlyCallersWait' /\ NoLostWakeup' /\ SleepersHavePledge'
      /\ PledgesAccounted' /\ NoneIsFinal'
  BY <1>1 DEF Inv, TypeOK, SyncType, OnlyCallersWait, NoLostWakeup,
              SleepersHavePledge, PledgesAccounted, NoneIsFinal
<1> QED BY <1>2, <1>3 DEF Inv

-----------------------------------------------------------------------------
(* The inductive invariant holds in every reachable state. *)
THEOREM Invariance == Spec => []Inv
<1>1. Init => Inv
  BY FirstInv
<1>2. Inv /\ [Next]_vars => Inv'
  <2> SUFFICES ASSUME Inv, [Next]_vars PROVE Inv'
    OBVIOUS
  <2>1. CASE Next
    <3>1. PICK t \in Threads :
            \/ Call(t) \/ ReturnSome(t) \/ ReturnNone(t) \/ Block(t)
            \/ Spurious(t) \/ Push(t) \/ End(t) \/ Crash(t)
            \/ \E u \in Threads : Pledge(t, u)
      BY <2>1 DEF Next
    <3>2. CASE Call(t)       BY <3>2, CallInv
    <3>3. CASE ReturnSome(t) BY <3>3, ReturnSomeInv
    <3>4. CASE ReturnNone(t) BY <3>4, ReturnNoneInv
    <3>5. CASE Block(t)      BY <3>5, BlockInv
    <3>6. CASE Spurious(t)   BY <3>6, SpuriousInv
    <3>7. CASE Push(t)       BY <3>7, PushInv
    <3>8. CASE End(t)        BY <3>8, EndInv
    <3>9. CASE Crash(t)      BY <3>9, CrashInv
    <3>10. CASE \E u \in Threads : Pledge(t, u)
      BY <3>10, PledgeInv
    <3> QED
      BY <3>1, <3>2, <3>3, <3>4, <3>5, <3>6, <3>7, <3>8, <3>9, <3>10
  <2>2. CASE UNCHANGED vars
    BY <2>2 DEF vars, Inv, TypeOK, SyncType, OnlyCallersWait, NoLostWakeup,
                SleepersHavePledge, PledgesAccounted, NoneIsFinal,
                CallsInOrder
  <2> QED BY <2>1, <2>2
<1> QED BY <1>1, <1>2, PTL DEF Spec

(* For any number of threads and elements a sleeping thread leaves no       *)
(* element behind that nobody is on its way to take: signalling one thread  *)
(* per push (wq.ml:31) is enough.                                           *)
THEOREM NoWakeupIsLost == Spec => []NoLostWakeup
<1>1. Inv => NoLostWakeup
  BY DEF Inv
<1> QED BY <1>1, Invariance, PTL

(* A thread never sleeps once the last pledge is ended or the container has *)
(* failed: end_pledge and fail wake everybody (synchronizer.ml:49, 55).     *)
THEOREM NobodySleepsInVain == Spec => []SleepersHavePledge
<1>1. Inv => SleepersHavePledge
  BY DEF Inv
<1> QED BY <1>1, Invariance, PTL

(* The counter is the number of open pledges, so its reaching 0 means that  *)
(* nobody is left who could push (synchronizer.ml:26).                      *)
THEOREM PledgeCounterExact == Spec => []PledgesAccounted
<1>1. Inv => PledgesAccounted
  BY DEF Inv
<1> QED BY <1>1, Invariance, PTL

(* A `get' that returns None on a container that has not failed has seen    *)
(* the end: the container is empty and stays so (synchronizer.ml:26-28).    *)
THEOREM NoneMeansDone == Spec => []NoneIsFinal
<1>1. Inv => NoneIsFinal
  BY DEF Inv
<1> QED BY <1>1, Invariance, PTL

-----------------------------------------------------------------------------
(* The histories: an invariant of their own, on top of the types in Inv.    *)

(* Without its i-th element a sequence that does not repeat itself has the  *)
(* other elements, and still does not.                                      *)
LEMMA WithoutRange ==
  ASSUME NEW buf \in Seq(Values), NEW i \in 1 .. Len(buf),
         \A j, k \in 1 .. Len(buf) : buf[j] = buf[k] => j = k
  PROVE  LET rest == Without(buf, i)
         IN /\ SeqRange(rest) = SeqRange(buf) \ {buf[i]}
            /\ \A j, k \in 1 .. Len(rest) : rest[j] = rest[k] => j = k
<1> DEFINE rest == Without(buf, i)
           from(j) == IF j < i THEN j ELSE j + 1
<1>1. Len(buf) \in Nat /\ i \in Nat /\ i <= Len(buf) /\ Len(buf) - 1 \in Nat
  OBVIOUS
<1>2. rest = [j \in 1 .. Len(buf) - 1 |-> IF j < i THEN buf[j] ELSE buf[j + 1]]
  BY DEF Without
<1>3. Len(rest) = Len(buf) - 1
  BY <1>1, <1>2
<1>4. \A j \in 1 .. Len(buf) - 1 :
        rest[j] = buf[from(j)] /\ from(j) \in 1 .. Len(buf) /\ from(j) /= i
  BY <1>1, <1>2
<1>5. \A j, k \in 1 .. Len(buf) - 1 : from(j) = from(k) => j = k
  BY <1>1
<1>6. \A k \in 1 .. Len(buf) : k /= i => \E j \in 1 .. Len(buf) - 1 : from(j) = k
  <2> TAKE k \in 1 .. Len(buf)
  <2> HAVE k /= i
  <2>1. CASE k < i
    <3>1. k \in 1 .. Len(buf) - 1 /\ from(k) = k
      BY <1>1, <2>1
    <3> QED BY <3>1
  <2>2. CASE k > i
    <3>1. k - 1 \in 1 .. Len(buf) - 1 /\ from(k - 1) = k
      BY <1>1, <2>2
    <3> QED BY <3>1
  <2> QED BY <1>1, <2>1, <2>2
<1> HIDE DEF rest, from
<1>7. \A j, k \in 1 .. Len(rest) : rest[j] = rest[k] => j = k
  <2> SUFFICES ASSUME NEW j \in 1 .. Len(rest), NEW k \in 1 .. Len(rest), rest[j] = rest[k]
               PROVE  j = k
    OBVIOUS
  <2>1. j \in 1 .. Len(buf) - 1 /\ k \in 1 .. Len(buf) - 1
    BY ONLY <1>3, j \in 1 .. Len(rest), k \in 1 .. Len(rest)
  <2>2. buf[from(j)] = buf[from(k)] /\ from(j) \in 1 .. Len(buf) /\ from(k) \in 1 .. Len(buf)
    BY ONLY <1>4, <2>1, rest[j] = rest[k]
  <2>3. from(j) = from(k)
    BY <2>2
  <2> QED BY ONLY <1>5, <2>1, <2>3
<1>8. \A v \in SeqRange(rest) : v \in SeqRange(buf) /\ v /= buf[i]
  BY <1>3, <1>4 DEF SeqRange
<1>9. \A v \in SeqRange(buf) : v /= buf[i] => v \in SeqRange(rest)
  <2> SUFFICES ASSUME NEW v \in SeqRange(buf), v /= buf[i] PROVE v \in SeqRange(rest)
    OBVIOUS
  <2>1. PICK k \in 1 .. Len(buf) : v = buf[k]
    BY DEF SeqRange
  <2>2. PICK j \in 1 .. Len(buf) - 1 : from(j) = k
    BY <1>6, <2>1
  <2>3. rest[j] = v /\ j \in 1 .. Len(rest)
    BY <1>3, <1>4, <2>1, <2>2
  <2> QED BY <2>3 DEF SeqRange
<1> QED BY <1>7, <1>8, <1>9 DEF rest

(* Appending adds one element to what a sequence holds.                     *)
LEMMA AppendRange ==
  ASSUME NEW s \in Seq(Values), NEW v \in Values
  PROVE  /\ SeqRange(Append(s, v)) = SeqRange(s) \cup {v}
         /\ Len(Append(s, v)) = Len(s) + 1
         /\ (\A j, k \in 1 .. Len(s) : s[j] = s[k] => j = k) /\ v \notin SeqRange(s)
              => \A j, k \in 1 .. Len(s) + 1 : Append(s, v)[j] = Append(s, v)[k] => j = k
<1>1. /\ Len(s) \in Nat /\ Len(Append(s, v)) = Len(s) + 1
      /\ Append(s, v)[Len(s) + 1] = v
      /\ \A j \in 1 .. Len(s) : Append(s, v)[j] = s[j]
  OBVIOUS
<1>2. 1 .. Len(s) + 1 = (1 .. Len(s)) \cup {Len(s) + 1}
  BY <1>1
<1> QED BY <1>1, <1>2 DEF SeqRange

(* An element that is returned moves from the container to the history.     *)
LEMMA ReturnSomeOnce ==
  ASSUME Inv, ExactlyOnce, NotYetTaken, NEW t \in Threads, ReturnSome(t)
  PROVE  ExactlyOnce' /\ NotYetTaken'
<1>1. PICK v \in Values, i \in Getter(sync.buf) :
        /\ v = sync.buf[i]
        /\ sync' = [sync EXCEPT !.buf = Without(sync.buf, i),
                                !.pledges = IF call[t] = "pledge"
                                            THEN @ + 1 ELSE @,
                                !.woken = @ \ {t}]
        /\ taken' = Append(taken, v)
  BY DEF ReturnSome, GetSome
<1>2. sync.buf \in Seq(Values) /\ taken \in Seq(Values) /\ pushed' = pushed
  BY DEF Inv, TypeOK, SyncType, ReturnSome
<1>3. i \in 1 .. Len(sync.buf) /\ Len(Without(sync.buf, i)) = Len(sync.buf) - 1
  BY <1>2, GetterRemovesOne
<1> DEFINE rest == Without(sync.buf, i)
<1>4. sync'.buf = rest
  BY <1>1 DEF Inv, TypeOK, SyncType
<1>5. /\ SeqRange(rest) = SeqRange(sync.buf) \ {v}
      /\ \A j, k \in 1 .. Len(rest) : rest[j] = rest[k] => j = k
  BY <1>1, <1>2, <1>3, WithoutRange DEF NotYetTaken
<1>6. v \in SeqRange(sync.buf) /\ v \notin SeqRange(taken)
  BY <1>1, <1>3 DEF NotYetTaken, SeqRange
<1>7. /\ SeqRange(taken') = SeqRange(taken) \cup {v} /\ Len(taken') = Len(taken) + 1
      /\ \A j, k \in 1 .. Len(taken') : taken'[j] = taken'[k] => j = k
  BY <1>1, <1>2, <1>6, AppendRange DEF ExactlyOnce
<1>8. Len(sync.buf) \in Nat /\ Len(taken) \in Nat
  BY <1>2
<1> HIDE DEF rest
<1>9. NotYetTaken'
  BY <1>4, <1>5, <1>6, <1>7 DEF NotYetTaken
<1>10. Len(pushed') = Len(taken') + Len(sync'.buf)
  BY <1>2, <1>3, <1>4, <1>7, <1>8 DEF ExactlyOnce, rest
<1>11. SeqRange(pushed') = SeqRange(taken') \cup SeqRange(sync'.buf)
  BY <1>2, <1>4, <1>5, <1>6, <1>7 DEF ExactlyOnce
<1> QED BY <1>7, <1>9, <1>10, <1>11 DEF ExactlyOnce

(* An element that is pushed is new.                                        *)
LEMMA PushOnce ==
  ASSUME Inv, ExactlyOnce, NotYetTaken, NEW t \in Threads, Push(t)
  PROVE  ExactlyOnce' /\ NotYetTaken'
<1>1. PICK v \in Values \ SeqRange(pushed) :
        /\ sync'.buf = Append(sync.buf, v)
        /\ pushed' = Append(pushed, v)
  BY DEF Push, Write, Inv, TypeOK, SyncType
<1>2. /\ sync.buf \in Seq(Values) /\ taken \in Seq(Values) /\ pushed \in Seq(Values)
      /\ taken' = taken
  BY DEF Inv, TypeOK, SyncType, Push
<1>3. v \notin SeqRange(taken) /\ v \notin SeqRange(sync.buf)
  BY DEF ExactlyOnce
<1>4. /\ SeqRange(sync'.buf) = SeqRange(sync.buf) \cup {v}
      /\ Len(sync'.buf) = Len(sync.buf) + 1
      /\ \A j, k \in 1 .. Len(sync.buf) + 1 : sync'.buf[j] = sync'.buf[k] => j = k
  BY <1>1, <1>2, <1>3, AppendRange DEF NotYetTaken
<1>5. /\ SeqRange(pushed') = SeqRange(pushed) \cup {v} /\ Len(pushed') = Len(pushed) + 1
  BY <1>1, <1>2, AppendRange
<1>6. Len(sync.buf) \in Nat /\ Len(taken) \in Nat /\ Len(pushed) \in Nat
  BY <1>2
<1>7. NotYetTaken'
  BY <1>2, <1>3, <1>4 DEF NotYetTaken
<1>8. Len(pushed') = Len(taken') + Len(sync'.buf)
  BY <1>2, <1>4, <1>5, <1>6 DEF ExactlyOnce
<1>9. SeqRange(pushed') = SeqRange(taken') \cup SeqRange(sync'.buf)
  BY <1>2, <1>4, <1>5 DEF ExactlyOnce
<1> QED BY <1>2, <1>7, <1>8, <1>9 DEF ExactlyOnce

(* Whatever the container and however many threads push and take, every     *)
(* element pushed is returned at most once, and until then the container    *)
(* holds it (synchronizer.ml:32-39).                                    *)
THEOREM NothingLostOrTwice == Spec => []ExactlyOnce
<1>1. Init => ExactlyOnce /\ NotYetTaken
  BY DEF Init, Empty, ExactlyOnce, NotYetTaken, SeqRange
<1>2. Inv /\ ExactlyOnce /\ NotYetTaken /\ [Next]_vars => ExactlyOnce' /\ NotYetTaken'
  <2> SUFFICES ASSUME Inv, ExactlyOnce, NotYetTaken, [Next]_vars
               PROVE  ExactlyOnce' /\ NotYetTaken'
    OBVIOUS
  <2>1. ASSUME sync'.buf = sync.buf, UNCHANGED <<pushed, taken>>
        PROVE  ExactlyOnce' /\ NotYetTaken'
    BY <2>1 DEF ExactlyOnce, NotYetTaken
  <2>2. CASE UNCHANGED vars
    BY <2>1, <2>2 DEF vars
  <2>3. ASSUME NEW t \in Threads,
               \/ Call(t) \/ ReturnNone(t) \/ Block(t) \/ Spurious(t) \/ End(t)
               \/ Crash(t) \/ \E u \in Threads : Pledge(t, u)
        PROVE  sync'.buf = sync.buf /\ UNCHANGED <<pushed, taken>>
    BY <2>3 DEF Inv, TypeOK, SyncType, Call, ReturnNone, GetNone, Block, GetWait,
                Spurious, SpuriousWakeup, End, EndPledge, Crash, Fail, Broadcast,
                Pledge, MakePledge
  <2>4. CASE Next
    <3>1. PICK t \in Threads :
            \/ Call(t) \/ ReturnSome(t) \/ ReturnNone(t) \/ Block(t)
            \/ Spurious(t) \/ Push(t) \/ End(t) \/ Crash(t)
            \/ \E u \in Threads : Pledge(t, u)
      BY <2>4 DEF Next
    <3>2. CASE ReturnSome(t)
      BY <3>2, ReturnSomeOnce
    <3>3. CASE Push(t)
      BY <3>3, PushOnce
    <3>4. CASE ~ ReturnSome(t) /\ ~ Push(t)
      BY <2>1, <2>3, <3>1, <3>4
    <3> QED BY <3>2, <3>3, <3>4
  <2> QED BY <2>2, <2>4
<1> QED BY <1>1, <1>2, Invariance, PTL DEF Spec
=============================================================================
