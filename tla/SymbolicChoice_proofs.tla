------------------------ MODULE SymbolicChoice_proofs ------------------------
(***************************************************************************)
(* The choices of the symbolic engine are right for any program: any       *)
(* tests, expressions, symbols, values and numbers of choices.             *)
(*                                                                         *)
(* The union-find of a path condition keeps the conditions of each class   *)
(* (Halfway, AddPCKeepsGood), so that a slice shares no symbol with the    *)
(* rest (SliceIs) and is what chains of shared symbols reach               *)
(* (SliceIsLinked); since a condition depends on its symbols alone         *)
(* (Locality), models of slice and rest are put together (Glue).           *)
(***************************************************************************)
EXTENDS SymbolicChoice, FiniteSetTheorems, WellFoundedInduction, TLAPS

(* What a condition can be, by its fields. *)
KindOf(c, neg) ==
  /\ c.neg = neg
  /\ \/ c.kind = "test" /\ c.test \in Tests
     \/ c.kind = "is" /\ c.sym \in Fresh /\ c.expr \in Exprs
     \/ c.kind = "val" /\ c.sym \in Symbols /\ c.val \in Vals

LEMMA ConditionKinds ==
  ASSUME NEW c \in Conditions
  PROVE  KindOf(c, TRUE) \/ KindOf(c, FALSE)
<1>1. \A d \in Positive : KindOf(d, FALSE)
  BY DEF Positive, Test, Assignment, IsValue, KindOf
<1>2. \A d \in Positive : KindOf(Negation(d), TRUE)
  <2> TAKE d \in Positive
  <2>1. ~d.neg = TRUE
    BY <1>1 DEF KindOf
  <2>2. Negation(d) = [d EXCEPT !.neg = TRUE]
    BY <2>1, Zenon DEF Negation
  <2>3. CASE \E t \in Tests : d = Test(t)
    BY <2>2, <2>3 DEF Test, KindOf
  <2>4. CASE \E s \in Fresh, e \in Exprs : d = Assignment(s, e)
    BY <2>2, <2>4 DEF Assignment, KindOf
  <2>5. CASE \E s \in Symbols, v \in Vals : d = IsValue(s, v)
    BY <2>2, <2>5 DEF IsValue, KindOf
  <2>6. \/ \E t \in Tests : d = Test(t)
        \/ \E s \in Fresh, e \in Exprs : d = Assignment(s, e)
        \/ \E s \in Symbols, v \in Vals : d = IsValue(s, v)
    BY DEF Positive
  <2> QED BY <2>3, <2>4, <2>5, <2>6
<1> QED BY <1>1, <1>2 DEF Conditions

(* A condition has a symbol, and all of them are symbols. *)
LEMMA SymbolsOfConditions ==
  ASSUME NEW c \in Conditions
  PROVE  /\ GetSymbols[c] \in Seq(Symbols) /\ GetSymbols[c] # <<>>
         /\ Len(GetSymbols[c]) \in Nat \ {0}
         /\ Head(GetSymbols[c]) = GetSymbols[c][1]
         /\ \A n \in 1 .. Len(GetSymbols[c]) : GetSymbols[c][n] \in Symbols
         /\ PC!SymbolSet(c)
              = {GetSymbols[c][n] : n \in 1 .. Len(GetSymbols[c])}
<1>1. GetSymbols[c] \in Seq(Symbols) /\ GetSymbols[c] # <<>>
  <2>1. CASE c.kind = "test" /\ c.test \in Tests
    <3>1. GetSymbols[c] = TestSymbols[c.test]
      BY <2>1 DEF GetSymbols
    <3>2. TestSymbols[c.test] \in Seq(Symbols) /\ TestSymbols[c.test] # <<>>
      BY <2>1, ChoicesAssumption DEF Symbols
    <3> QED BY <3>1, <3>2
  <2>2. CASE c.kind = "is" /\ c.sym \in Fresh /\ c.expr \in Exprs
    <3>1. GetSymbols[c] = <<c.sym>> \o ExprSymbols[c.expr]
      BY <2>2 DEF GetSymbols
    <3>2. ExprSymbols[c.expr] \in Seq(Symbols) /\ <<c.sym>> \in Seq(Symbols)
      BY <2>2, ChoicesAssumption DEF Symbols
    <3> QED BY <3>1, <3>2
  <2>3. CASE c.kind = "val" /\ c.sym \in Symbols /\ c.val \in Vals
    BY <2>3 DEF GetSymbols
  <2> QED BY <2>1, <2>2, <2>3, ConditionKinds DEF KindOf
<1>2. PC!SymbolSet(c) = {GetSymbols[c][n] : n \in 1 .. Len(GetSymbols[c])}
  BY <1>1 DEF PC!SymbolSet, PC!ToSet
<1> QED BY <1>1, <1>2

(* When a condition holds. *)
Truth(c, a) ==
  \/ c.kind = "test" /\ TestHolds(c.test, a) = TRUE
  \/ c.kind = "val" /\ a[c.sym] = c.val
  \/ c.kind = "is" /\ a[c.sym] = ExprValue(c.expr, a)

LEMMA HoldsOf ==
  ASSUME NEW c \in Conditions, NEW a \in Valuations
  PROVE  /\ c.neg = TRUE => (a \in Holds[c] <=> ~Truth(c, a))
         /\ c.neg = FALSE => (a \in Holds[c] <=> Truth(c, a))
<1>1. a \in Holds[c] <=>
        c.neg # IF c.kind = "test" THEN TestHolds(c.test, a)
                ELSE a[c.sym] = IF c.kind = "val" THEN c.val
                                ELSE ExprValue(c.expr, a)
  BY DEF Holds
<1>2. "val" # "test" /\ "is" # "test" /\ "is" # "val"
  OBVIOUS
<1>3. CASE c.kind = "test" /\ c.test \in Tests
  <2>1. TestHolds(c.test, a) \in BOOLEAN
    BY <1>3, ChoicesAssumption
  <2>2. a \in Holds[c] <=> c.neg # TestHolds(c.test, a)
    BY <1>1, <1>3, Zenon
  <2>3. Truth(c, a) <=> TestHolds(c.test, a) = TRUE
    BY <1>2, <1>3, Zenon DEF Truth
  <2> QED BY <2>1, <2>2, <2>3
<1>4. CASE c.kind = "val"
  <2>1. Truth(c, a) <=> a[c.sym] = c.val
    BY <1>2, <1>4, Zenon DEF Truth
  <2>2. a \in Holds[c] <=> c.neg # (a[c.sym] = c.val)
    BY <1>1, <1>2, <1>4, Zenon
  <2> QED BY <2>1, <2>2
<1>5. CASE c.kind = "is"
  <2>1. Truth(c, a) <=> a[c.sym] = ExprValue(c.expr, a)
    BY <1>2, <1>5, Zenon DEF Truth
  <2>2. a \in Holds[c] <=> c.neg # (a[c.sym] = ExprValue(c.expr, a))
    BY <1>1, <1>2, <1>5, Zenon
  <2> QED BY <2>1, <2>2
<1> QED BY <1>3, <1>4, <1>5, ConditionKinds DEF KindOf

(* A condition depends on its symbols alone. *)
LEMMA Locality ==
  ASSUME NEW c \in Conditions, NEW a \in Valuations, NEW b \in Valuations,
         \A s \in PC!SymbolSet(c) : a[s] = b[s], a \in Holds[c]
  PROVE  b \in Holds[c]
<1>1. \A n \in 1 .. Len(GetSymbols[c]) : a[GetSymbols[c][n]] = b[GetSymbols[c][n]]
  BY SymbolsOfConditions
<1>2. CASE c.kind = "test" /\ c.test \in Tests
  <2>1. GetSymbols[c] = TestSymbols[c.test]
    BY <1>2 DEF GetSymbols
  <2>2. TestHolds(c.test, a) = TestHolds(c.test, b)
    BY <1>1, <1>2, <2>1, ChoicesAssumption DEF AgreeOn
  <2>3. Truth(c, a) <=> Truth(c, b)
    BY <1>2, <2>2 DEF Truth
  <2> QED BY <2>3, HoldsOf, ConditionKinds DEF KindOf
<1>3. CASE c.kind = "is" /\ c.sym \in Fresh /\ c.expr \in Exprs
  <2>1. GetSymbols[c] = <<c.sym>> \o ExprSymbols[c.expr]
    BY <1>3 DEF GetSymbols
  <2>2. ExprSymbols[c.expr] \in Seq(Inputs)
    BY <1>3, ChoicesAssumption
  <2>3. /\ Len(GetSymbols[c]) = Len(ExprSymbols[c.expr]) + 1
        /\ GetSymbols[c][1] = c.sym
        /\ \A n \in 1 .. Len(ExprSymbols[c.expr]) :
             GetSymbols[c][n + 1] = ExprSymbols[c.expr][n]
    BY <2>1, <2>2
  <2>4. a[c.sym] = b[c.sym]
    BY <1>1, <2>2, <2>3
  <2>5. \A n \in 1 .. Len(ExprSymbols[c.expr]) :
          a[ExprSymbols[c.expr][n]] = b[ExprSymbols[c.expr][n]]
    <3> TAKE n \in 1 .. Len(ExprSymbols[c.expr])
    <3>1. n + 1 \in 1 .. Len(GetSymbols[c])
      BY <2>2, <2>3
    <3> QED BY <1>1, <2>3, <3>1
  <2>6. ExprValue(c.expr, a) = ExprValue(c.expr, b)
    BY <1>3, <2>5, ChoicesAssumption DEF AgreeOn
  <2>7. Truth(c, a) <=> Truth(c, b)
    BY <1>3, <2>4, <2>6 DEF Truth
  <2> QED BY <2>7, HoldsOf, ConditionKinds DEF KindOf
<1>4. CASE c.kind = "val" /\ c.sym \in Symbols /\ c.val \in Vals
  <2>1. GetSymbols[c] = <<c.sym>>
    BY <1>4 DEF GetSymbols
  <2>2. a[c.sym] = b[c.sym]
    BY <1>1, <2>1
  <2>3. Truth(c, a) <=> Truth(c, b)
    BY <1>4, <2>2 DEF Truth
  <2> QED BY <2>3, HoldsOf, ConditionKinds DEF KindOf
<1> QED BY <1>2, <1>3, <1>4, ConditionKinds DEF KindOf

(* Fewer conditions have more models. *)
LEMMA FewerConditions ==
  ASSUME NEW cs, NEW ds \in SUBSET cs, Sat(cs)
  PROVE  Sat(ds)
BY DEF Sat, Models

(* Models of two sets of conditions that share no symbol are put together.  *)
LEMMA Glue ==
  ASSUME NEW cs \in SUBSET Conditions, NEW ds \in SUBSET Conditions,
         \A c \in cs, d \in ds : PC!SymbolSet(c) \cap PC!SymbolSet(d) = {},
         Sat(cs), Sat(ds)
  PROVE  Sat(cs \cup ds)
<1>1. PICK a \in Valuations : \A c \in cs : a \in Holds[c]
  BY DEF Sat, Models
<1>2. PICK b \in Valuations : \A d \in ds : b \in Holds[d]
  BY DEF Sat, Models
<1> DEFINE both == [s \in Symbols |->
                     IF \E c \in cs : s \in PC!SymbolSet(c) THEN a[s] ELSE b[s]]
<1>3. both \in Valuations
  BY DEF Valuations
<1>4. \A c \in cs : \A s \in PC!SymbolSet(c) : both[s] = a[s]
  BY SymbolsOfConditions
<1>5. \A d \in ds : \A s \in PC!SymbolSet(d) : both[s] = b[s]
  <2> TAKE d \in ds
  <2> TAKE s \in PC!SymbolSet(d)
  <2>1. s \in Symbols
    BY SymbolsOfConditions
  <2>2. ~ \E c \in cs : s \in PC!SymbolSet(c)
    OBVIOUS
  <2> QED BY <2>1, <2>2
<1> HIDE DEF both
<1>6. \A c \in cs : both \in Holds[c]
  BY <1>1, <1>3, <1>4, Locality
<1>7. \A d \in ds : both \in Holds[d]
  BY <1>2, <1>3, <1>5, Locality
<1> QED BY <1>3, <1>6, <1>7 DEF Sat, Models

-----------------------------------------------------------------------------
(* The union-find of a path condition. *)

(* The representative of a symbol is one look-up away. *)
LEMMA RepIsRoot ==
  ASSUME NEW t, PC!ClassesGood(t), NEW k \in Symbols
  PROVE  /\ PC!Rep(k, t) \in PC!Roots(t) /\ PC!Rep(k, t) \in Symbols
         /\ k \in PC!Roots(t) => PC!Rep(k, t) = k
BY DEF PC!ClassesGood, PC!Rep, PC!Roots, PC!UF!find_canonical

(* A root represents itself and its aliases. *)
LEMMA ClassOfRoot ==
  ASSUME NEW t, PC!ClassesGood(t), NEW r \in PC!Roots(t), NEW k \in Symbols
  PROVE  PC!Rep(k, t) = r <=> k = r \/ k \in PC!UF!find_node(r, t).aliases
BY DEF PC!ClassesGood, PC!Rep, PC!Roots, PC!UF!find_canonical

(* add changes the datum of one class and no class. *)
LEMMA AddKeepsClasses ==
  ASSUME NEW t, PC!ClassesGood(t), NEW k \in Symbols, NEW datum
  PROVE  LET new == PC!UF!add(k, datum, t)
         IN  /\ PC!ClassesGood(new) /\ PC!Roots(new) = PC!Roots(t)
             /\ \A j : PC!Rep(j, new) = PC!Rep(j, t)
             /\ \A r \in PC!Roots(t) :
                  PC!UF!find_node(r, new).datum
                    = IF r = PC!Rep(k, t)
                      THEN PC!UF!MergeData(datum, PC!UF!find_node(r, t).datum)
                      ELSE PC!UF!find_node(r, t).datum
<1> DEFINE new == PC!UF!add(k, datum, t)
           root == PC!Rep(k, t)
           node == PC!UF!find_node(root, t)
           merged == PC!UF!MergeData(datum, node.datum)
           changed == [node EXCEPT !.datum = merged]
<1>1. root \in PC!Roots(t)
  BY RepIsRoot
<1>2. t = [canonical_elements |-> t.canonical_elements,
           node_of_canonicals |-> t.node_of_canonicals]
  BY DEF PC!ClassesGood
<1>3. node = [aliases |-> node.aliases, cardinal |-> node.cardinal,
              datum |-> node.datum]
  BY <1>1 DEF PC!ClassesGood
<1>4. changed = [aliases |-> node.aliases, cardinal |-> node.cardinal,
                 datum |-> merged]
  BY <1>3
<1>5. new = [canonical_elements |-> t.canonical_elements,
             node_of_canonicals |->
               PC!UF!Put(t.node_of_canonicals, root, changed)]
  BY <1>2 DEF PC!UF!add, PC!Rep
<1> HIDE DEF changed, new
<1>6. \A r : PC!UF!find_node(r, new)
              = IF r = root THEN changed ELSE PC!UF!find_node(r, t)
  BY <1>5 DEF PC!UF!find_node, PC!UF!Put
<1>7. /\ PC!Roots(new) = PC!Roots(t)
      /\ \A j : PC!Rep(j, new) = PC!Rep(j, t)
  BY <1>5 DEF PC!Roots, PC!Rep, PC!UF!find_canonical
<1>8. PC!ClassesGood(new)
  BY <1>1, <1>4, <1>5, <1>6, <1>7 DEF PC!ClassesGood
<1> QED BY <1>4, <1>6, <1>7, <1>8 DEF new

(* Absorbing the class of b into that of a. *)
LEMMA AbsorbKeepsClasses ==
  ASSUME NEW t, PC!ClassesGood(t), NEW a \in PC!Roots(t),
         NEW b \in PC!Roots(t), a # b
  PROVE  LET new == PC!UF!Absorb(a, b, t)
         IN  /\ PC!ClassesGood(new) /\ PC!Roots(new) = PC!Roots(t) \ {b}
             /\ \A j \in Symbols :
                  PC!Rep(j, new) = IF PC!Rep(j, t) = b THEN a ELSE PC!Rep(j, t)
             /\ \A r \in PC!Roots(new) :
                  PC!UF!find_node(r, new).datum
                    = IF r = a
                      THEN PC!UF!MergeData(PC!UF!find_node(a, t).datum,
                                           PC!UF!find_node(b, t).datum)
                      ELSE PC!UF!find_node(r, t).datum
<1> DEFINE new == PC!UF!Absorb(a, b, t)
           canon == t.canonical_elements
           kept == PC!UF!find_node(a, t)
           gone == PC!UF!find_node(b, t)
           node == [aliases |-> {b} \cup kept.aliases \cup gone.aliases,
                    cardinal |-> kept.cardinal + gone.cardinal + 1,
                    datum |-> PC!UF!MergeData(kept.datum, gone.datum)]
<1>1. /\ kept.aliases = {k \in DOMAIN canon : canon[k] = a}
      /\ gone.aliases = {k \in DOMAIN canon : canon[k] = b}
  BY DEF PC!ClassesGood
<1>2. \A k \in DOMAIN canon : k \in Symbols /\ canon[k] \in PC!Roots(t)
  BY DEF PC!ClassesGood
<1>3. a \in Symbols \ DOMAIN canon /\ b \in Symbols \ DOMAIN canon
  BY DEF PC!Roots
<1>4. /\ new = [canonical_elements |-> new.canonical_elements,
                node_of_canonicals |-> new.node_of_canonicals]
      /\ new.canonical_elements
           = PC!UF!Put(PC!UF!set_canonical_element(gone.aliases, a, canon), b, a)
      /\ new.node_of_canonicals
           = PC!UF!Remove(PC!UF!Put(t.node_of_canonicals, a, node), b)
  BY DEF PC!UF!Absorb
<1> HIDE DEF new, kept, gone, node
<1>5. new.canonical_elements
        = [k \in DOMAIN canon \cup {b} |->
             IF k = b \/ canon[k] = b THEN a ELSE canon[k]]
  BY <1>1, <1>3, <1>4 DEF PC!UF!Put, PC!UF!set_canonical_element
<1>6. \A r \in Symbols \ {b} : PC!UF!find_node(r, new)
              = IF r = a THEN node ELSE PC!UF!find_node(r, t)
  BY <1>3, <1>4 DEF PC!UF!find_node, PC!UF!Put, PC!UF!Remove
<1>7. PC!Roots(new) = PC!Roots(t) \ {b}
  BY <1>5 DEF PC!Roots
<1>8. ASSUME NEW j \in Symbols
      PROVE  PC!Rep(j, new) = IF PC!Rep(j, t) = b THEN a ELSE PC!Rep(j, t)
  BY <1>3, <1>5 DEF PC!Rep, PC!UF!find_canonical
<1>9. ASSUME NEW r \in PC!Roots(new)
      PROVE  LET n == PC!UF!find_node(r, new)
             IN  /\ n = [aliases |-> n.aliases, cardinal |-> n.cardinal,
                         datum |-> n.datum]
                 /\ n.aliases = {k \in DOMAIN new.canonical_elements :
                                   new.canonical_elements[k] = r}
  <2>1. r \in PC!Roots(t) /\ r # b /\ r \in Symbols
    BY <1>7 DEF PC!Roots
  <2>2. CASE r = a
    <3>1. PC!UF!find_node(r, new) = node
      BY <1>6, <2>1, <2>2
    <3>2. node.aliases = {k \in DOMAIN canon \cup {b} :
                            k = b \/ canon[k] = a \/ canon[k] = b}
      BY <1>1, <1>3 DEF node
    <3>3. {k \in DOMAIN new.canonical_elements : new.canonical_elements[k] = a}
            = node.aliases
      BY <1>5, <3>2
    <3> QED BY <2>2, <3>1, <3>3 DEF node
  <2>3. CASE r # a
    <3>1. PC!UF!find_node(r, new) = PC!UF!find_node(r, t)
      BY <1>6, <2>1, <2>3
    <3>2. {k \in DOMAIN new.canonical_elements : new.canonical_elements[k] = r}
            = {k \in DOMAIN canon : canon[k] = r}
      BY <1>3, <1>5, <2>1, <2>3
    <3> QED BY <2>1, <3>1, <3>2 DEF PC!ClassesGood
  <2> QED BY <2>2, <2>3
<1>10. \A k \in DOMAIN new.canonical_elements :
         k \in Symbols /\ new.canonical_elements[k] \in PC!Roots(new)
  BY <1>2, <1>3, <1>5, <1>7
<1>11. PC!ClassesGood(new)
  BY <1>4, <1>9, <1>10 DEF PC!ClassesGood
<1>12. ASSUME NEW r \in PC!Roots(new)
       PROVE  PC!UF!find_node(r, new).datum
                = IF r = a THEN PC!UF!MergeData(kept.datum, gone.datum)
                  ELSE PC!UF!find_node(r, t).datum
  <2>1. r \in Symbols \ {b}
    BY <1>7 DEF PC!Roots
  <2> QED BY <1>6, <2>1 DEF node
<1> QED BY <1>7, <1>8, <1>11, <1>12 DEF new, kept, gone

(* The datum of a class with these conditions. *)
Datum(ds) == IF ds = {} THEN NoSlice ELSE ds

LEMMA MergeOfData ==
  ASSUME NEW cs \in SUBSET Conditions, NEW ds \in SUBSET Conditions
  PROVE  PC!UF!MergeData(Datum(cs), Datum(ds)) = Datum(cs \cup ds)
BY ChoicesAssumption DEF PC!UF!MergeData, Datum

LEMMA DataOf ==
  ASSUME NEW cs, NEW t
  PROVE  PC!DataExact(cs, t) <=>
           \A r \in PC!Roots(t) :
             PC!UF!find_node(r, t).datum = Datum(PC!Under(r, cs, t))
BY DEF PC!DataExact, Datum

(* What holds once the first m symbols of the condition are merged. *)
Halfway(cs, c, m, t) ==
  /\ PC!ClassesGood(t)
  /\ PC!DataExact(cs \cup {c}, t)
  /\ \A d \in cs : PC!Together(d, Len(GetSymbols[d]), t)
  /\ PC!Together(c, m, t)
  /\ PC!Connected(cs \cup {c}, t)

LEMMA FirstSymbol ==
  ASSUME NEW pc, PC!PCGood(pc), NEW c \in Conditions
  PROVE  Halfway(pc.set, c, 1, PC!UF!add(GetSymbols[c][1], {c}, pc.uf))
<1> DEFINE cs == pc.set
           t == pc.uf
           k == GetSymbols[c][1]
           new == PC!UF!add(k, {c}, t)
<1>1. /\ PC!ClassesGood(t) /\ PC!DataExact(cs, t) /\ PC!Connected(cs, t)
      /\ \A d \in cs : PC!Together(d, Len(GetSymbols[d]), t)
      /\ cs \subseteq Conditions
  BY DEF PC!PCGood
<1>2. k \in Symbols /\ k = Head(GetSymbols[c])
  BY SymbolsOfConditions
<1>3. /\ PC!ClassesGood(new) /\ PC!Roots(new) = PC!Roots(t)
      /\ \A j : PC!Rep(j, new) = PC!Rep(j, t)
      /\ \A r \in PC!Roots(t) :
           PC!UF!find_node(r, new).datum
             = IF r = PC!Rep(k, t)
               THEN PC!UF!MergeData({c}, PC!UF!find_node(r, t).datum)
               ELSE PC!UF!find_node(r, t).datum
  BY <1>1, <1>2, AddKeepsClasses
<1> HIDE DEF new, t, k, cs
<1>4. ASSUME NEW r \in PC!Roots(t)
     
      PROVE  PC!UF!find_node(r, new).datum = Datum(PC!Under(r, cs \cup {c}, new))
  <2>1. PC!UF!find_node(r, t).datum = Datum(PC!Under(r, cs, t))
    BY <1>1, DataOf
  <2>2. PC!Under(r, cs \cup {c}, new)
          = IF r = PC!Rep(k, t) THEN {c} \cup PC!Under(r, cs, t)
            ELSE PC!Under(r, cs, t)
    BY <1>2, <1>3 DEF PC!Under
  <2>3. PC!Under(r, cs, t) \subseteq Conditions
    BY <1>1 DEF PC!Under
  <2>4. {c} = Datum({c})
    BY DEF Datum
  <2>5. PC!UF!MergeData(Datum({c}), Datum(PC!Under(r, cs, t)))
          = Datum({c} \cup PC!Under(r, cs, t))
    BY <2>3, MergeOfData
  <2> QED BY <1>3, <2>1, <2>2, <2>4, <2>5
<1>5. PC!DataExact(cs \cup {c}, new)
  BY <1>3, <1>4, DataOf
<1>6. \A d \in cs : PC!Together(d, Len(GetSymbols[d]), new)
  BY <1>1, <1>3 DEF PC!Together
<1>7. PC!Together(c, 1, new)
  BY <1>2 DEF PC!Together, k
<1>8. PC!Connected(cs \cup {c}, new)
  BY <1>1, <1>3 DEF PC!Connected
<1> QED BY <1>3, <1>5, <1>6, <1>7, <1>8 DEF Halfway, new, t, k, cs

LEMMA NextSymbol ==
  ASSUME NEW cs \in SUBSET Conditions, NEW c \in Conditions, NEW t,
         NEW m \in 1 .. Len(GetSymbols[c]) - 1, Halfway(cs, c, m, t)
 
  PROVE  Halfway(cs, c, m + 1,
                 PC!UF!union(GetSymbols[c][m], GetSymbols[c][m + 1], t))
<1> DEFINE j == GetSymbols[c][m]
           k == GetSymbols[c][m + 1]
           all == cs \cup {c}
           new == PC!UF!union(j, k, t)
<1>1. /\ PC!ClassesGood(t) /\ PC!DataExact(all, t) /\ PC!Connected(all, t)
      /\ \A d \in cs : PC!Together(d, Len(GetSymbols[d]), t)
      /\ PC!Together(c, m, t)
  BY DEF Halfway
<1>2. /\ j \in Symbols /\ k \in Symbols /\ Len(GetSymbols[c]) \in Nat
      /\ j \in PC!SymbolSet(c) /\ k \in PC!SymbolSet(c)
  BY SymbolsOfConditions
<1>3. PC!Rep(Head(GetSymbols[c]), t) = PC!Rep(j, t)
  BY <1>1 DEF PC!Together
<1>4. CASE PC!Rep(j, t) = PC!Rep(k, t)
  <2>1. new = t
    BY <1>4 DEF PC!UF!union, PC!Rep
  <2>2. PC!Together(c, m + 1, t)
    BY <1>1, <1>3, <1>4 DEF PC!Together
  <2> QED BY <1>1, <2>1, <2>2 DEF Halfway
<1>5. CASE PC!Rep(j, t) # PC!Rep(k, t)
  <2>1. PICK a, b : /\ new = PC!UF!Absorb(a, b, t)
                    /\ {a, b} = {PC!Rep(j, t), PC!Rep(k, t)} /\ a # b
    BY <1>5 DEF PC!UF!union, PC!Rep
  <2>2. a \in PC!Roots(t) /\ b \in PC!Roots(t)
    <3>1. PC!Rep(j, t) \in PC!Roots(t) /\ PC!Rep(k, t) \in PC!Roots(t)
      BY <1>1, <1>2, RepIsRoot
    <3>2. a \in {PC!Rep(j, t), PC!Rep(k, t)} /\ b \in {PC!Rep(j, t), PC!Rep(k, t)}
      BY <2>1
    <3> QED BY <3>1, <3>2
  <2>3. /\ PC!ClassesGood(new) /\ PC!Roots(new) = PC!Roots(t) \ {b}
        /\ \A s \in Symbols :
             PC!Rep(s, new) = IF PC!Rep(s, t) = b THEN a ELSE PC!Rep(s, t)
        /\ \A r \in PC!Roots(new) :
             PC!UF!find_node(r, new).datum
               = IF r = a
                 THEN PC!UF!MergeData(PC!UF!find_node(a, t).datum,
                                      PC!UF!find_node(b, t).datum)
                 ELSE PC!UF!find_node(r, t).datum
    BY <1>1, <2>1, <2>2, AbsorbKeepsClasses
  <2> HIDE DEF new, j, k, all
  <2>4. \A d \in all : /\ Head(GetSymbols[d]) \in Symbols
                       /\ \A n \in 1 .. Len(GetSymbols[d]) :
                            GetSymbols[d][n] \in Symbols
    BY SymbolsOfConditions DEF all
  <2>5. ASSUME NEW r \in PC!Roots(new)
        PROVE  PC!UF!find_node(r, new).datum = Datum(PC!Under(r, all, new))
    <3>1. r \in PC!Roots(t) /\ r # b
      BY <2>3
    <3>2. \A x \in PC!Roots(t) :
            PC!UF!find_node(x, t).datum = Datum(PC!Under(x, all, t))
      BY <1>1, DataOf
    <3>3. CASE r = a
      <4>1. PC!Under(r, all, new) = PC!Under(a, all, t) \cup PC!Under(b, all, t)
        BY <2>1, <2>3, <2>4, <3>3 DEF PC!Under
      <4>2. /\ PC!Under(a, all, t) \subseteq Conditions
            /\ PC!Under(b, all, t) \subseteq Conditions
        BY DEF PC!Under, all
      <4>3. PC!UF!MergeData(Datum(PC!Under(a, all, t)), Datum(PC!Under(b, all, t)))
              = Datum(PC!Under(a, all, t) \cup PC!Under(b, all, t))
        BY <4>2, MergeOfData
      <4> QED BY <2>2, <2>3, <3>2, <3>3, <4>1, <4>3
    <3>4. CASE r # a
      <4>1. PC!Under(r, all, new) = PC!Under(r, all, t)
        BY <2>3, <2>4, <3>1, <3>4 DEF PC!Under
      <4> QED BY <2>3, <3>1, <3>2, <3>4, <4>1
    <3> QED BY <3>3, <3>4
  <2>6. PC!DataExact(all, new)
    BY <2>5, DataOf
  <2>7. \A d \in cs : PC!Together(d, Len(GetSymbols[d]), new)
    BY <1>1, <2>3, <2>4 DEF PC!Together, all
  <2>8. PC!Together(c, m + 1, new)
    <3> SUFFICES ASSUME NEW n \in 1 .. m + 1
                 PROVE  PC!Rep(GetSymbols[c][n], new)
                          = PC!Rep(Head(GetSymbols[c]), new)
      BY DEF PC!Together
    <3>1. Head(GetSymbols[c]) \in Symbols /\ GetSymbols[c][n] \in Symbols
      BY <1>2, <2>4 DEF all
    <3>2. PC!Rep(Head(GetSymbols[c]), new) = a
      BY <1>3, <2>1, <2>3, <3>1
    <3>3. CASE n = m + 1
      <4>1. PC!Rep(GetSymbols[c][n], t) \in {a, b}
        BY <2>1, <3>3 DEF k
      <4> QED BY <2>3, <3>1, <3>2, <4>1
    <3>4. CASE n # m + 1
      <4>1. PC!Rep(GetSymbols[c][n], t) = PC!Rep(Head(GetSymbols[c]), t)
        BY <1>1, <3>4 DEF PC!Together
      <4> QED BY <2>3, <3>1, <4>1
    <3> QED BY <3>3, <3>4
  <2>9. PC!Connected(all, new)
    <3> SUFFICES ASSUME NEW W \in SUBSET Symbols,
                        \A d \in all : \/ PC!SymbolSet(d) \subseteq W
                                       \/ PC!SymbolSet(d) \cap W = {},
                        NEW x \in Symbols, NEW y \in Symbols,
                        PC!Rep(x, new) = PC!Rep(y, new)
                 PROVE  x \in W <=> y \in W
      BY DEF PC!Connected
    <3>1. \A u, v \in Symbols : PC!Rep(u, t) = PC!Rep(v, t) => (u \in W <=> v \in W)
      BY <1>1 DEF PC!Connected
    <3>2. j \in W <=> k \in W
      BY <1>2 DEF all
    <3>3. \/ PC!Rep(x, t) = PC!Rep(y, t)
          \/ PC!Rep(x, t) \in {a, b} /\ PC!Rep(y, t) \in {a, b}
      BY <2>3
    <3>4. ASSUME NEW z \in Symbols, PC!Rep(z, t) \in {a, b}
          PROVE  z \in W <=> j \in W
      <4>1. PC!Rep(z, t) = PC!Rep(j, t) \/ PC!Rep(z, t) = PC!Rep(k, t)
        BY <2>1, <3>4
      <4> QED BY <1>2, <3>1, <3>2, <4>1
    <3> QED BY <3>1, <3>3, <3>4
  <2> QED BY <2>3, <2>6, <2>7, <2>8, <2>9 DEF Halfway, new, all, j, k
<1> QED BY <1>4, <1>5

(* A set of natural numbers that is not empty has a least element. *)
LEMMA LeastNumber ==
  ASSUME NEW S \in SUBSET Nat, S # {}
  PROVE  \E k \in S : \A j \in S : k <= j
<1> DEFINE R == {ss \in Nat \X Nat : ss[1] < ss[2]}
<1>1. IsWellFoundedOn(R, Nat)
  BY NatLessThanWellFounded DEF OpToRel
<1>2. \E k \in S : \A j \in S : ~ (<<j, k>> \in R)
  <2> HIDE DEF R
  <2> QED BY <1>1, WFMin
<1>3. ASSUME NEW k \in S, NEW j \in S, ~ (<<j, k>> \in R) PROVE k <= j
  BY <1>3
<1> QED BY <1>2, <1>3

(* What is true of 0, and of a successor when of the number, is true of all. *)
LEMMA Induction ==
  ASSUME NEW T, 0 \in T, \A m \in Nat : m \in T => m + 1 \in T
  PROVE  Nat \subseteq T
<1> SUFFICES ASSUME Nat \ T # {} PROVE FALSE
  OBVIOUS
<1>1. PICK k \in Nat \ T : \A j \in Nat \ T : k <= j
  BY LeastNumber
<1>2. k - 1 \in Nat /\ ~(k <= k - 1) /\ (k - 1) + 1 = k
  BY <1>1
<1>3. k - 1 \in T
  BY <1>1, <1>2
<1> QED BY <1>1, <1>2, <1>3

(* One turn of the merge of the symbols of a condition. *)
Turn(pc, c, n, before) ==
  IF n = 1 THEN PC!UF!add(GetSymbols[c][1], {c}, pc.uf)
  ELSE PC!UF!union(GetSymbols[c][n - 1], GetSymbols[c][n], before[n - 1])

LEMMA MergingIs ==
  ASSUME NEW pc, NEW c \in Conditions
  PROVE  PC!Merging(pc, c)
           = [n \in 1 .. Len(GetSymbols[c]) |-> Turn(pc, c, n, PC!Merging(pc, c))]
<1> DEFINE Merged(m, g) == g = [n \in 1 .. m |-> Turn(pc, c, n, g)]
           T == {m \in Nat : \E g : Merged(m, g)}
<1>1. 0 \in T
  <2> DEFINE none == [n \in 1 .. 0 |-> 0]
  <2>1. none = [n \in 1 .. 0 |-> Turn(pc, c, n, none)]
    OBVIOUS
  <2> HIDE DEF none
  <2> QED BY <2>1
<1>2. ASSUME NEW m \in Nat, m \in T PROVE m + 1 \in T
  <2>1. PICK g : g = [n \in 1 .. m |-> Turn(pc, c, n, g)]
    BY <1>2
  <2> DEFINE h == [n \in 1 .. m + 1 |-> Turn(pc, c, n, g)]
  <2>2. \A n \in 1 .. m : h[n] = g[n]
    BY <2>1
  <2>3. \A n \in 1 .. m + 1 : Turn(pc, c, n, g) = Turn(pc, c, n, h)
    <3> TAKE n \in 1 .. m + 1
    <3> HIDE DEF h
    <3>1. n # 1 => n - 1 \in 1 .. m
      OBVIOUS
    <3> QED BY <2>2, <3>1 DEF Turn
  <2>4. h = [n \in 1 .. m + 1 |-> Turn(pc, c, n, h)]
    BY <2>3
  <2> HIDE DEF h
  <2> QED BY <2>4
<1>3. Nat \subseteq T
  <2> HIDE DEF T
  <2> QED BY <1>1, <1>2, Induction
<1>4. PICK g : g = [n \in 1 .. Len(GetSymbols[c]) |-> Turn(pc, c, n, g)]
  BY <1>3, SymbolsOfConditions
<1>5. PC!Merging(pc, c)
        = CHOOSE f : f = [n \in 1 .. Len(GetSymbols[c]) |-> Turn(pc, c, n, f)]
  BY Zenon DEF PC!Merging, Turn
<1> QED BY <1>4, <1>5, Zenon

(* Adding a condition keeps the path condition in order. *)
LEMMA AddPCKeepsGood ==
  ASSUME NEW pc, PC!PCGood(pc), NEW c \in Conditions
  PROVE  PC!PCGood(PC!addPC(pc, c)) /\ PC!addPC(pc, c).set = pc.set \cup {c}
<1> DEFINE cs == pc.set
           last == Len(GetSymbols[c])
           m == PC!Merging(pc, c)
           T == {n \in Nat : n + 1 \in 1 .. last => Halfway(cs, c, n + 1, m[n + 1])}
<1>1. cs \in SUBSET Conditions
  BY DEF PC!PCGood
<1>2. last \in Nat \ {0}
  BY SymbolsOfConditions
<1>3. \A n \in 1 .. last : m[n] = Turn(pc, c, n, m)
  BY MergingIs
<1>4. 0 \in T
  <2>1. Halfway(cs, c, 1, PC!UF!add(GetSymbols[c][1], {c}, pc.uf))
    BY FirstSymbol
  <2>2. m[1] = PC!UF!add(GetSymbols[c][1], {c}, pc.uf)
    <3> HIDE DEF m, last
    <3>1. 1 \in 1 .. last
      BY <1>2
    <3>2. m[1] = Turn(pc, c, 1, m)
      BY <1>3, <3>1
    <3> QED BY <3>2 DEF Turn
  <2> QED BY <2>1, <2>2
<1>5. ASSUME NEW n \in Nat, n \in T PROVE n + 1 \in T
  <2> SUFFICES ASSUME n + 2 \in 1 .. last PROVE Halfway(cs, c, n + 2, m[n + 2])
    <3>1. (n + 1) + 1 = n + 2 /\ n + 1 \in Nat
      OBVIOUS
    <3> QED BY <3>1
  <2> HIDE DEF m, last
  <2>1. n + 1 \in 1 .. last - 1 /\ n + 1 \in 1 .. last /\ (n + 2) - 1 = n + 1
        /\ n + 2 # 1 /\ (n + 1) + 1 = n + 2
    BY <1>2
  <2>2. Halfway(cs, c, n + 1, m[n + 1])
    BY <1>5, <2>1
  <2>3. m[n + 2] = PC!UF!union(GetSymbols[c][n + 1], GetSymbols[c][n + 2], m[n + 1])
    BY <1>3, <2>1 DEF Turn
  <2>4. Halfway(cs, c, (n + 1) + 1,
                PC!UF!union(GetSymbols[c][n + 1], GetSymbols[c][(n + 1) + 1],
                            m[n + 1]))
    BY <1>1, <2>1, <2>2, NextSymbol DEF last
  <2> QED BY <2>1, <2>3, <2>4
<1>6. Nat \subseteq T
  <2> HIDE DEF T
  <2> QED BY <1>4, <1>5, Induction
<1>7. Halfway(cs, c, last, m[last])
  <2> HIDE DEF last
  <2>1. last - 1 \in Nat /\ (last - 1) + 1 = last /\ last \in 1 .. last
    BY <1>2
  <2>2. last - 1 \in T
    <3> HIDE DEF T
    <3> QED BY <1>6, <2>1
  <2> QED BY <2>1, <2>2
<1>8. PC!addPC(pc, c) = [uf |-> m[last], set |-> cs \cup {c}]
  BY DEF PC!addPC
<1> HIDE DEF m, last, cs
<1>9. \A d \in cs \cup {c} : PC!Together(d, Len(GetSymbols[d]), m[last])
  BY <1>7 DEF Halfway, last
<1> QED BY <1>1, <1>7, <1>8, <1>9 DEF PC!PCGood, Halfway, cs

(* The path condition without conditions. *)
LEMMA EmptyIsGood == PC!PCGood(PC!emptyPC) /\ PC!emptyPC.set = {}
<1> DEFINE t == PC!UF!empty
<1>1. /\ t = [canonical_elements |-> t.canonical_elements,
              node_of_canonicals |-> t.node_of_canonicals]
      /\ DOMAIN t.canonical_elements = {} /\ DOMAIN t.node_of_canonicals = {}
  BY DEF PC!UF!empty
<1> HIDE DEF t
<1>2. \A k : PC!Rep(k, t) = k /\ PC!UF!find_node(k, t) = PC!UF!NoNode
  BY <1>1 DEF PC!Rep, PC!UF!find_canonical, PC!UF!find_node
<1>3. PC!ClassesGood(t)
  BY <1>1, <1>2 DEF PC!ClassesGood, PC!UF!NoNode
<1>4. PC!DataExact({}, t)
  BY <1>2 DEF PC!DataExact, PC!Under, PC!UF!NoNode
<1>5. PC!Connected({}, t)
  BY <1>2 DEF PC!Connected
<1>6. PC!emptyPC = [uf |-> t, set |-> {}]
  BY DEF PC!emptyPC, t
<1> QED BY <1>3, <1>4, <1>5, <1>6 DEF PC!PCGood

(* The slice of a condition: those of its class, which share no symbol with *)
(* the others.                                                              *)
LEMMA SliceIs ==
  ASSUME NEW pc, PC!PCGood(pc), NEW c \in pc.set
  PROVE  /\ PC!slice(pc, c)
              = {d \in pc.set : PC!Rep(Head(GetSymbols[d]), pc.uf)
                                  = PC!Rep(Head(GetSymbols[c]), pc.uf)}
         /\ \A d \in PC!slice(pc, c), e \in pc.set \ PC!slice(pc, c) :
              PC!SymbolSet(d) \cap PC!SymbolSet(e) = {}
<1> DEFINE r == PC!Rep(Head(GetSymbols[c]), pc.uf)
           ds == PC!Under(r, pc.set, pc.uf)
<1>1. /\ pc.set \subseteq Conditions /\ PC!ClassesGood(pc.uf)
      /\ PC!DataExact(pc.set, pc.uf)
      /\ \A d \in pc.set : PC!Together(d, Len(GetSymbols[d]), pc.uf)
  BY DEF PC!PCGood
<1>2. Head(GetSymbols[c]) \in Symbols
  BY <1>1, SymbolsOfConditions
<1>3. r \in PC!Roots(pc.uf)
  BY <1>1, <1>2, RepIsRoot
<1>4. c \in ds
  BY DEF PC!Under
<1>5. PC!UF!find_node(r, pc.uf).datum = ds
  BY <1>1, <1>3, <1>4 DEF PC!DataExact
<1>6. PC!slice(pc, c) = ds
  BY <1>5 DEF PC!slice, PC!UF!find_opt, PC!Rep
<1>7. ASSUME NEW d \in pc.set, NEW s \in PC!SymbolSet(d)
      PROVE  PC!Rep(s, pc.uf) = PC!Rep(Head(GetSymbols[d]), pc.uf)
  BY <1>1, <1>7, SymbolsOfConditions DEF PC!Together
<1>8. ASSUME NEW d \in ds, NEW e \in pc.set \ ds
      PROVE  PC!SymbolSet(d) \cap PC!SymbolSet(e) = {}
  <2>1. d \in pc.set /\ e \in pc.set
        /\ PC!Rep(Head(GetSymbols[d]), pc.uf) # PC!Rep(Head(GetSymbols[e]), pc.uf)
    BY DEF PC!Under
  <2> QED BY <1>7, <2>1
<1> QED BY <1>6, <1>8 DEF PC!Under

-----------------------------------------------------------------------------
(* The steps of one path. *)

(* If the slice of the last condition has a model, so has everything.       *)
LEMMA SliceSat ==
  ASSUME NEW pc, PC!PCGood(pc), NEW c \in pc.set,
         Sat(pc.set \ {c}), Sat(PC!slice(pc, c))
  PROVE  Sat(pc.set)
<1> DEFINE ds == PC!slice(pc, c)
           es == pc.set \ ds
<1>1. /\ ds \subseteq pc.set /\ c \in ds /\ pc.set \subseteq Conditions
      /\ \A d \in ds, e \in es : PC!SymbolSet(d) \cap PC!SymbolSet(e) = {}
  BY SliceIs DEF PC!PCGood
<1> HIDE DEF ds
<1>2. es \in SUBSET (pc.set \ {c})
  BY <1>1
<1>3. Sat(es)
  BY <1>2, FewerConditions
<1>4. ds \cup es = pc.set
  BY <1>1
<1>5. Sat(ds \cup es)
  <2> HIDE DEF es
  <2>1. ds \in SUBSET Conditions /\ es \in SUBSET Conditions
    BY <1>1, <1>2
  <2>2. Sat(ds)
    BY DEF ds
  <2> QED BY <1>1, <1>3, <2>1, <2>2, Glue
<1> QED BY <1>4, <1>5

(* The fields of a thread. *)
LEMMA FieldsOfThread ==
  DOMAIN NewThread = {"pc", "num_symbols", "state", "cond", "then", "symbol",
                      "ops", "parked"}
BY DEF NewThread

(* What assuming a condition does to a thread. *)
LEMMA AddPCIs ==
  ASSUME NEW th, ThreadGood(th), NEW c \in Conditions
  PROVE  LET new == AddPC(th, c)
         IN  /\ DOMAIN new = DOMAIN NewThread
             /\ PC!PCGood(new.pc) /\ new.pc.set = th.pc.set \cup {c}
             /\ IsFiniteSet(new.pc.set)
             /\ new.num_symbols = th.num_symbols /\ new.ops = th.ops
             /\ new.state = th.state /\ new.symbol = th.symbol
             /\ new.parked = th.parked
<1> DEFINE added == PC!addPC(th.pc, c)
<1>1. PC!PCGood(added) /\ added.set = th.pc.set \cup {c}
  BY AddPCKeepsGood DEF ThreadGood
<1>2. IsFiniteSet(th.pc.set \cup {c})
  BY FS_AddElement DEF ThreadGood
<1>3. AddPC(th, c) = [th EXCEPT !.pc = added]
  BY DEF AddPC
<1>4. DOMAIN th = DOMAIN NewThread
  BY DEF ThreadGood
<1> HIDE DEF added
<1> QED BY <1>1, <1>2, <1>3, <1>4, FieldsOfThread

LEMMA HalfGood ==
  ASSUME NEW th, ThreadGood(th), th.state = "run", th.ops < MaxOps,
         NEW c \in Conditions, PC!SymbolSet(c) \subseteq Used(th),
         NEW then \in {"run"} \cup Ends
 
  PROVE  /\ ThreadGood(Half(th, c, then))
         /\ Half(th, c, then).pc.set = th.pc.set \cup {c}
<1> DEFINE added == AddPC(th, c)
           half == [added EXCEPT !.state = "check", !.cond = c, !.then = then,
                                 !.ops = @ + 1]
<1>1. /\ DOMAIN added = DOMAIN NewThread
      /\ PC!PCGood(added.pc) /\ added.pc.set = th.pc.set \cup {c}
      /\ IsFiniteSet(added.pc.set)
      /\ added.num_symbols = th.num_symbols /\ added.ops = th.ops
  BY AddPCIs
<1>2. /\ th.num_symbols \in 0 .. MaxFresh /\ th.ops \in 0 .. MaxOps
      /\ \A d \in th.pc.set : PC!SymbolSet(d) \subseteq Used(th)
      /\ Sat(th.pc.set)
  BY DEF ThreadGood
<1> HIDE DEF added
<1>3. /\ DOMAIN half = DOMAIN NewThread /\ half.pc = added.pc
      /\ half.num_symbols = th.num_symbols /\ half.ops = th.ops + 1
      /\ half.state = "check" /\ half.cond = c /\ half.then = then
  BY <1>1, FieldsOfThread
<1>4. Half(th, c, then) = half
  BY DEF Half, added
<1> HIDE DEF half
<1>5. half.ops \in 0 .. MaxOps
  BY <1>2, <1>3, ChoicesAssumption
<1>6. Used(half) = Used(th)
  BY <1>3 DEF Used
<1>7. \A d \in half.pc.set : PC!SymbolSet(d) \subseteq Used(half)
  BY <1>1, <1>2, <1>3, <1>6
<1>8. Sat(half.pc.set \ {half.cond})
  <2>1. half.pc.set \ {c} \in SUBSET th.pc.set
    BY <1>1, <1>3
  <2> QED BY <1>2, <1>3, <2>1, FewerConditions
<1> QED BY <1>1, <1>2, <1>3, <1>4, <1>5, <1>7, <1>8 DEF ThreadGood, Running

(* A choice on a constant, and the end of a path without a model. *)
LEMMA StateGood ==
  ASSUME NEW th, ThreadGood(th), NEW new,
         DOMAIN new = DOMAIN NewThread,
         new.pc = th.pc, new.num_symbols = th.num_symbols,
         new.ops \in 0 .. MaxOps, new.state \in {"run"} \cup Ends,
         new.state # "stop" => Sat(th.pc.set)
  PROVE  ThreadGood(new)
BY DEF ThreadGood, Used, Running, Ends

LEMMA CheckedGood ==
  ASSUME NEW th, ThreadGood(th), th.state = "check",
         NEW new,
         new = [th EXCEPT !.state = IF Sat(PC!slice(th.pc, th.cond))
                                    THEN th.then ELSE "stop"]
  PROVE  ThreadGood(new) /\ new.pc = th.pc
<1>1. /\ DOMAIN th = DOMAIN NewThread /\ th.ops \in 0 .. MaxOps
      /\ PC!PCGood(th.pc) /\ th.cond \in th.pc.set
      /\ Sat(th.pc.set \ {th.cond}) /\ th.then \in {"run"} \cup Ends
  BY DEF ThreadGood
<1>2. /\ DOMAIN new = DOMAIN NewThread /\ new.pc = th.pc
      /\ new.num_symbols = th.num_symbols /\ new.ops = th.ops
      /\ new.state = IF Sat(PC!slice(th.pc, th.cond)) THEN th.then ELSE "stop"
  BY <1>1, FieldsOfThread
<1>3. new.state \in {"run"} \cup Ends
  BY <1>1, <1>2 DEF Ends
<1>4. new.state # "stop" => Sat(th.pc.set)
  BY <1>1, <1>2, SliceSat
<1> QED BY <1>1, <1>2, <1>3, <1>4, StateGood

(* A condition and its negation. *)
LEMMA NegationOf ==
  ASSUME NEW c \in Positive
  PROVE  /\ c \in Conditions /\ Negation(c) \in Conditions
         /\ GetSymbols[Negation(c)] = GetSymbols[c]
         /\ \A a \in Valuations : /\ a \in Holds[c] <=> Truth(c, a)
                                  /\ a \in Holds[Negation(c)] <=> ~Truth(c, a)
<1>1. c \in Conditions /\ Negation(c) \in Conditions
  BY DEF Conditions
<1>2. c.neg = FALSE /\ (\/ \E t \in Tests : c = Test(t)
                        \/ \E s \in Fresh, e \in Exprs : c = Assignment(s, e)
                        \/ \E s \in Symbols, v \in Vals : c = IsValue(s, v))
  BY DEF Positive, Test, Assignment, IsValue
<1>3. Negation(c) = [c EXCEPT !.neg = TRUE]
  <2>1. ~c.neg = TRUE
    BY <1>2
  <2> QED BY <2>1, Zenon DEF Negation
<1>4. /\ Negation(c).neg = TRUE /\ Negation(c).kind = c.kind
      /\ c.kind = "test" => Negation(c).test = c.test
      /\ c.kind \in {"is", "val"} => Negation(c).sym = c.sym
      /\ c.kind = "is" => Negation(c).expr = c.expr
      /\ c.kind = "val" => Negation(c).val = c.val
      /\ c.kind \in {"test", "is", "val"}
  BY <1>2, <1>3 DEF Test, Assignment, IsValue
<1>5. \A a \in Valuations : Truth(Negation(c), a) <=> Truth(c, a)
  BY <1>4 DEF Truth
<1>6. GetSymbols[Negation(c)] = GetSymbols[c]
  BY <1>1, <1>4 DEF GetSymbols
<1> QED BY <1>1, <1>2, <1>4, <1>5, <1>6, HoldsOf

(* The inputs with a model. *)
Taking(cs) == {Project(a) : a \in Models(cs)}

(* A condition that the input decides splits the inputs in two. *)
LEMMA SplitInputs ==
  ASSUME NEW cs \in SUBSET Conditions, NEW c \in Positive,
         \A a, b \in Models(cs) :
           Project(a) = Project(b) => (a \in Holds[c] <=> b \in Holds[c]),
         NEW input
  PROVE  /\ input \in Taking(cs) <=>
              \/ input \in Taking(cs \cup {c})
              \/ input \in Taking(cs \cup {Negation(c)})
         /\ ~ (/\ input \in Taking(cs \cup {c})
               /\ input \in Taking(cs \cup {Negation(c)}))
<1>1. Models(cs) \subseteq Valuations
  BY DEF Models
<1>2. \A a \in Models(cs) : a \in Holds[Negation(c)] <=> a \notin Holds[c]
  <2> TAKE a \in Models(cs)
  <2>1. a \in Valuations
    BY <1>1
  <2>2. a \in Holds[c] <=> Truth(c, a)
    BY <2>1, NegationOf
  <2>3. a \in Holds[Negation(c)] <=> ~Truth(c, a)
    BY <2>1, NegationOf
  <2> QED BY <2>2, <2>3
<1>3. \A d : Models(cs \cup {d}) = {a \in Models(cs) : a \in Holds[d]}
  BY DEF Models
<1> QED BY <1>2, <1>3 DEF Taking

(* Valuations with the same input agree on the inputs. *)
LEMMA SameInput ==
  ASSUME NEW a \in Valuations, NEW b \in Valuations, Project(a) = Project(b),
         NEW s \in Inputs
  PROVE  a[s] = b[s]
<1>1. Project(a)[s] = a[s] /\ Project(b)[s] = b[s]
  BY DEF Project
<1> QED BY <1>1

LEMMA TestIsDecided ==
  ASSUME NEW t \in Tests
  PROVE  /\ Test(t) \in Positive /\ PC!SymbolSet(Test(t)) \subseteq Inputs
         /\ \A a, b \in Valuations :
              Project(a) = Project(b) =>
                (a \in Holds[Test(t)] <=> b \in Holds[Test(t)])
<1>1. Test(t) \in Positive /\ Test(t) \in Conditions
  BY DEF Positive, Conditions
<1>2. GetSymbols[Test(t)] = TestSymbols[t]
  BY <1>1 DEF GetSymbols, Test
<1>3. TestSymbols[t] \in Seq(Inputs)
  BY ChoicesAssumption
<1>4. PC!SymbolSet(Test(t)) \subseteq Inputs
  BY <1>1, <1>2, <1>3, SymbolsOfConditions
<1> QED BY <1>1, <1>4, SameInput, Locality

LEMMA ValueIsDecided ==
  ASSUME NEW s \in Symbols, NEW v \in Vals, NEW cs \in SUBSET Conditions,
         s \in Inputs \/ \E e \in Exprs : Assignment(s, e) \in cs
  PROVE  /\ IsValue(s, v) \in Positive /\ PC!SymbolSet(IsValue(s, v)) = {s}
         /\ \A a \in Valuations : a \in Holds[IsValue(s, v)] <=> a[s] = v
         /\ \A a, b \in Models(cs) :
              Project(a) = Project(b) =>
                (a \in Holds[IsValue(s, v)] <=> b \in Holds[IsValue(s, v)])
<1>1. IsValue(s, v) \in Positive /\ IsValue(s, v) \in Conditions
  BY DEF Positive, Conditions
<1>2. GetSymbols[IsValue(s, v)] = <<s>>
  BY <1>1 DEF GetSymbols, IsValue
<1>3. PC!SymbolSet(IsValue(s, v)) = {s}
  BY <1>1, <1>2, SymbolsOfConditions
<1>4. \A a \in Valuations : a \in Holds[IsValue(s, v)] <=> a[s] = v
  <2> TAKE a \in Valuations
  <2>1. a \in Holds[IsValue(s, v)] <=> Truth(IsValue(s, v), a)
    BY <1>1, NegationOf
  <2>2. Truth(IsValue(s, v), a) <=> a[s] = v
    BY DEF Truth, IsValue
  <2> QED BY <2>1, <2>2
<1>5. ASSUME NEW a \in Models(cs), NEW b \in Models(cs), Project(a) = Project(b)
      PROVE  a[s] = b[s]
  <2>1. a \in Valuations /\ b \in Valuations
    BY DEF Models
  <2>2. CASE s \in Inputs
    BY <1>5, <2>1, <2>2, SameInput
  <2>3. CASE \E e \in Exprs : Assignment(s, e) \in cs
    <3>1. PICK e \in Exprs : Assignment(s, e) \in cs
      BY <2>3
    <3>2. /\ Assignment(s, e) \in Conditions
          /\ Assignment(s, e).neg = FALSE /\ Assignment(s, e).kind = "is"
          /\ Assignment(s, e).sym = s /\ Assignment(s, e).expr = e
      BY <3>1 DEF Assignment
    <3>3. a \in Holds[Assignment(s, e)] /\ b \in Holds[Assignment(s, e)]
      BY <3>1 DEF Models
    <3>4. a[s] = ExprValue(e, a) /\ b[s] = ExprValue(e, b)
      BY <2>1, <3>2, <3>3, HoldsOf DEF Truth
    <3>5. ExprSymbols[e] \in Seq(Inputs)
      BY ChoicesAssumption
    <3>6. AgreeOn(ExprSymbols[e], a, b)
      BY <1>5, <2>1, <3>5, SameInput DEF AgreeOn
    <3> QED BY <2>1, <3>4, <3>6, ChoicesAssumption
  <2> QED BY <2>2, <2>3
<1>6. Models(cs) \subseteq Valuations
  BY DEF Models
<1> QED BY <1>1, <1>3, <1>4, <1>5, <1>6

(* Naming an expression by a new symbol excludes no input. *)
LEMMA NamingKeepsInputs ==
  ASSUME NEW th, ThreadGood(th), th.num_symbols < MaxFresh, NEW e \in Exprs
  PROVE  LET fresh == <<"choice_i32", th.num_symbols>>
             c == Assignment(fresh, e)
         IN  /\ fresh \in Fresh /\ c \in Conditions
             /\ PC!SymbolSet(c) \subseteq Inputs \cup {fresh}
             /\ \A input : input \in Taking(th.pc.set \cup {c})
                             <=> input \in Taking(th.pc.set)
<1> DEFINE fresh == <<"choice_i32", th.num_symbols>>
           c == Assignment(fresh, e)
           cs == th.pc.set
<1>1. /\ th.num_symbols \in 0 .. MaxFresh /\ MaxFresh \in Nat
      /\ cs \in SUBSET Conditions
      /\ \A d \in cs : PC!SymbolSet(d) \subseteq Used(th)
  BY ChoicesAssumption DEF ThreadGood, PC!PCGood
<1>2. fresh \in Fresh /\ fresh \notin Inputs /\ fresh \in Symbols
  BY <1>1, ChoicesAssumption DEF Fresh, Symbols
<1>3. fresh \notin Used(th)
  BY <1>1, <1>2 DEF Used
<1>4. ExprSymbols[e] \in Seq(Inputs)
  BY ChoicesAssumption
<1> HIDE DEF fresh
<1>5. c \in Conditions
  BY <1>2 DEF Conditions, Positive
<1>6. c.kind = "is" /\ c.sym = fresh /\ c.expr = e /\ c.neg = FALSE
  BY DEF Assignment
<1> HIDE DEF c
<1>7. PC!SymbolSet(c) \subseteq Inputs \cup {fresh}
  <2>1. GetSymbols[c] = <<fresh>> \o ExprSymbols[e]
    BY <1>5, <1>6 DEF GetSymbols
  <2>2. \A n \in 1 .. Len(GetSymbols[c]) : GetSymbols[c][n] \in Inputs \cup {fresh}
    BY <1>4, <2>1
  <2> QED BY <1>5, <2>2, SymbolsOfConditions
<1>8. ASSUME NEW a \in Models(cs)
      PROVE  \E b \in Models(cs \cup {c}) : Project(b) = Project(a)
  <2> DEFINE b == [s \in Symbols |-> IF s = fresh THEN ExprValue(e, a) ELSE a[s]]
  <2>1. a \in Valuations /\ \A d \in cs : a \in Holds[d]
    BY DEF Models
  <2>2. b \in Valuations
    BY <2>1, ChoicesAssumption DEF Valuations
  <2>3. \A s \in Symbols \ {fresh} : b[s] = a[s]
    OBVIOUS
  <2>4. b[fresh] = ExprValue(e, a)
    BY <1>2
  <2> HIDE DEF b
  <2>5. ASSUME NEW d \in cs PROVE b \in Holds[d]
    <3>1. d \in Conditions /\ a \in Holds[d] /\ PC!SymbolSet(d) \subseteq Symbols
      BY <1>1, <2>1, SymbolsOfConditions
    <3>2. \A s \in PC!SymbolSet(d) : a[s] = b[s]
      BY <1>1, <1>3, <2>3, <3>1
    <3> QED BY <2>1, <2>2, <3>1, <3>2, Locality
  <2>6. \A s \in Inputs : b[s] = a[s]
    BY <1>2, <2>3 DEF Symbols
  <2>7. ExprValue(e, b) = ExprValue(e, a)
    <3>1. AgreeOn(ExprSymbols[e], b, a)
      BY <1>4, <2>6 DEF AgreeOn
    <3> QED BY <2>1, <2>2, <3>1, ChoicesAssumption
  <2>8. b \in Holds[c]
    BY <1>5, <1>6, <2>2, <2>4, <2>7, HoldsOf DEF Truth
  <2>9. Project(b) = Project(a)
    BY <2>6 DEF Project
  <2> QED BY <2>2, <2>5, <2>8, <2>9 DEF Models
<1>9. Models(cs \cup {c}) \subseteq Models(cs)
  BY DEF Models
<1>10. \A input : input \in Taking(cs \cup {c}) <=> input \in Taking(cs)
  BY <1>8, <1>9 DEF Taking
<1> QED BY <1>2, <1>5, <1>7, <1>10 DEF c, fresh

(* select_i32 starts. *)
Named(th, e) ==
  [IF ExprSymbols[e] = <<e>>
   THEN [th EXCEPT !.symbol = e]
   ELSE [AddPC(th, Assignment(<<"choice_i32", th.num_symbols>>, e)) EXCEPT
           !.symbol = <<"choice_i32", th.num_symbols>>, !.num_symbols = @ + 1]
   EXCEPT !.state = "model", !.ops = @ + 1]

LEMMA NamedGood ==
  ASSUME NEW th, ThreadGood(th), th.ops < MaxOps, NEW e \in Exprs,
         ExprSymbols[e] # <<e>> => th.num_symbols < MaxFresh
  PROVE  /\ ThreadGood(Named(th, e))
         /\ \A input : input \in Taking(Named(th, e).pc.set)
                         <=> input \in Taking(th.pc.set)
<1>1. /\ DOMAIN th = DOMAIN NewThread /\ PC!PCGood(th.pc) /\ IsFiniteSet(th.pc.set)
      /\ th.num_symbols \in 0 .. MaxFresh /\ th.ops \in 0 .. MaxOps
      /\ MaxOps \in Nat /\ MaxFresh \in Nat
      /\ \A d \in th.pc.set : PC!SymbolSet(d) \subseteq Used(th)
  BY ChoicesAssumption DEF ThreadGood
<1>2. CASE ExprSymbols[e] = <<e>>
  <2> DEFINE new == [[th EXCEPT !.symbol = e]
                       EXCEPT !.state = "model", !.ops = @ + 1]
  <2>1. Named(th, e) = new
    BY <1>2 DEF Named
  <2>2. /\ DOMAIN new = DOMAIN NewThread /\ new.pc = th.pc
        /\ new.num_symbols = th.num_symbols /\ new.ops = th.ops + 1
        /\ new.state = "model" /\ new.symbol = e
    BY <1>1, FieldsOfThread
  <2>3. e \in Inputs
    <3>1. <<e>> \in Seq(Inputs)
      BY <1>2, ChoicesAssumption
    <3>2. 1 \in 1 .. Len(<<e>>) /\ <<e>>[1] = e
      OBVIOUS
    <3> QED BY <3>1, <3>2
  <2>4. new.ops \in 0 .. MaxOps
    BY <1>1, <2>2
  <2>5. Used(new) = Used(th) /\ Inputs \subseteq Used(th)
    BY <2>2 DEF Used
  <2> HIDE DEF new
  <2> QED BY <1>1, <2>1, <2>2, <2>3, <2>4, <2>5 DEF ThreadGood, Running
<1>3. CASE ExprSymbols[e] # <<e>>
  <2> DEFINE fresh == <<"choice_i32", th.num_symbols>>
             c == Assignment(fresh, e)
             added == AddPC(th, c)
             new == [[added EXCEPT !.symbol = fresh, !.num_symbols = @ + 1]
                       EXCEPT !.state = "model", !.ops = @ + 1]
  <2>1. Named(th, e) = new
    BY <1>3 DEF Named
  <2>2. /\ fresh \in Fresh /\ c \in Conditions
        /\ PC!SymbolSet(c) \subseteq Inputs \cup {fresh}
        /\ \A input : input \in Taking(th.pc.set \cup {c})
                        <=> input \in Taking(th.pc.set)
    BY <1>3, NamingKeepsInputs
  <2> HIDE DEF c
  <2>3. /\ DOMAIN added = DOMAIN NewThread
        /\ PC!PCGood(added.pc) /\ added.pc.set = th.pc.set \cup {c}
        /\ IsFiniteSet(added.pc.set)
        /\ added.num_symbols = th.num_symbols /\ added.ops = th.ops
    BY <2>2, AddPCIs
  <2> HIDE DEF added
  <2>4. /\ DOMAIN new = DOMAIN NewThread /\ new.pc = added.pc
        /\ new.num_symbols = th.num_symbols + 1 /\ new.ops = th.ops + 1
        /\ new.state = "model" /\ new.symbol = fresh
    BY <2>3, FieldsOfThread
  <2> HIDE DEF new
  <2>5. new.ops \in 0 .. MaxOps /\ new.num_symbols \in 0 .. MaxFresh
    BY <1>1, <1>3, <2>4
  <2>6. /\ fresh \in Used(new) /\ Used(th) \subseteq Used(new)
        /\ Inputs \subseteq Used(new)
    BY <1>1, <2>4 DEF Used
  <2>7. \A d \in new.pc.set : PC!SymbolSet(d) \subseteq Used(new)
    BY <1>1, <2>2, <2>3, <2>4, <2>6
  <2>8. \E x \in Exprs : Assignment(new.symbol, x) \in new.pc.set
    BY <2>3, <2>4 DEF c
  <2> QED BY <2>1, <2>2, <2>3, <2>4, <2>5, <2>6, <2>7, <2>8
             DEF ThreadGood, Running
<1> QED BY <1>2, <1>3

(* The two branches once a value is found. *)
Found(th, v) == [AddPC(th, IsValue(th.symbol, v)) EXCEPT !.state = "run"]

Others(th, v) == AddPC(th, Negation(IsValue(th.symbol, v)))

LEMMA FoundGood ==
  ASSUME NEW th, ThreadGood(th), th.state = "model",
         NEW a \in Models(th.pc.set), NEW v, v = a[th.symbol]
  PROVE  /\ ThreadGood(Found(th, v)) /\ ThreadGood(Others(th, v))
         /\ \A input :
              /\ input \in Taking(th.pc.set)
                   <=> \/ input \in Taking(Found(th, v).pc.set)
                       \/ input \in Taking(Others(th, v).pc.set)
              /\ ~ (/\ input \in Taking(Found(th, v).pc.set)
                    /\ input \in Taking(Others(th, v).pc.set))
<1> DEFINE c == IsValue(th.symbol, v)
           d == Negation(c)
           cs == th.pc.set
           yes == AddPC(th, c)
           found == [yes EXCEPT !.state = "run"]
           others == AddPC(th, d)
<1>1. /\ DOMAIN th = DOMAIN NewThread
      /\ th.num_symbols \in 0 .. MaxFresh /\ th.ops \in 0 .. MaxOps
      /\ \A e \in cs : PC!SymbolSet(e) \subseteq Used(th)
      /\ cs \in SUBSET Conditions
      /\ th.symbol \in Used(th)
      /\ th.symbol \in Inputs \/ \E e \in Exprs : Assignment(th.symbol, e) \in cs
  BY DEF ThreadGood, PC!PCGood
<1>2. th.symbol \in Symbols
  BY <1>1, ChoicesAssumption DEF Used, Symbols, Fresh
<1>3. a \in Valuations /\ \A e \in cs : a \in Holds[e]
  BY DEF Models
<1>4. v \in Vals
  BY <1>2, <1>3 DEF Valuations
<1>5. /\ c \in Positive /\ PC!SymbolSet(c) = {th.symbol}
      /\ \A x \in Valuations : x \in Holds[c] <=> x[th.symbol] = v
      /\ \A x, y \in Models(cs) :
           Project(x) = Project(y) => (x \in Holds[c] <=> y \in Holds[c])
  BY <1>1, <1>2, <1>4, ValueIsDecided
<1> HIDE DEF c
<1>6. /\ c \in Conditions /\ d \in Conditions
      /\ GetSymbols[d] = GetSymbols[c]
  BY <1>5, NegationOf
<1>7. PC!SymbolSet(d) = {th.symbol}
  BY <1>5, <1>6 DEF PC!SymbolSet
<1> HIDE DEF d
<1>8. /\ DOMAIN yes = DOMAIN NewThread
      /\ PC!PCGood(yes.pc) /\ yes.pc.set = cs \cup {c} /\ IsFiniteSet(yes.pc.set)
      /\ yes.num_symbols = th.num_symbols /\ yes.ops = th.ops
  BY <1>6, AddPCIs
<1>9. /\ DOMAIN others = DOMAIN NewThread
      /\ PC!PCGood(others.pc) /\ others.pc.set = cs \cup {d}
      /\ IsFiniteSet(others.pc.set)
      /\ others.num_symbols = th.num_symbols /\ others.ops = th.ops
      /\ others.state = "model" /\ others.symbol = th.symbol
  BY <1>6, AddPCIs
<1> HIDE DEF yes, others
<1>10. /\ DOMAIN found = DOMAIN NewThread /\ found.pc = yes.pc
       /\ found.num_symbols = th.num_symbols /\ found.ops = th.ops
       /\ found.state = "run"
  BY <1>8, FieldsOfThread
<1>11. Found(th, v) = found /\ Others(th, v) = others
  BY DEF Found, Others, yes, others, c, d
<1> HIDE DEF found
<1>12. Sat(cs \cup {c})
  BY <1>3, <1>5 DEF Sat, Models
<1>13. Used(found) = Used(th) /\ Used(others) = Used(th)
  BY <1>9, <1>10 DEF Used
<1>14. /\ \A e \in cs \cup {c} : PC!SymbolSet(e) \subseteq Used(th)
       /\ \A e \in cs \cup {d} : PC!SymbolSet(e) \subseteq Used(th)
  BY <1>1, <1>5, <1>7
<1>15. ThreadGood(found)
  BY <1>1, <1>8, <1>10, <1>12, <1>13, <1>14 DEF ThreadGood, Running
<1>16. ThreadGood(others)
  BY <1>1, <1>9, <1>13, <1>14 DEF ThreadGood, Running
<1>17. \A input :
         /\ input \in Taking(cs) <=> \/ input \in Taking(cs \cup {c})
                                     \/ input \in Taking(cs \cup {d})
         /\ ~ (input \in Taking(cs \cup {c}) /\ input \in Taking(cs \cup {d}))
  BY <1>1, <1>5, SplitInputs DEF d
<1> QED BY <1>8, <1>9, <1>10, <1>11, <1>15, <1>16, <1>17

-----------------------------------------------------------------------------
(* The steps of the program. *)

(* The thread the invariant says the same of. *)
SamePath(x, a) == x.pc = a.pc /\ (ThreadGood(a) => ThreadGood(x))

LEMMA ParkedIsSame ==
  ASSUME NEW a, NEW p
  PROVE  DOMAIN a = DOMAIN NewThread => SamePath([a EXCEPT !.parked = p], a)
<1> DEFINE x == [a EXCEPT !.parked = p]
<1> SUFFICES ASSUME DOMAIN a = DOMAIN NewThread PROVE SamePath(x, a)
  OBVIOUS
<1>1. /\ DOMAIN x = DOMAIN NewThread /\ x.pc = a.pc
      /\ x.num_symbols = a.num_symbols /\ x.state = a.state /\ x.cond = a.cond
      /\ x.then = a.then /\ x.symbol = a.symbol /\ x.ops = a.ops
  BY FieldsOfThread
<1> HIDE DEF x
<1>2. Used(x) = Used(a)
  BY <1>1 DEF Used
<1> QED BY <1>1, <1>2 DEF SamePath, ThreadGood

(* Sequences of their own elements. *)
OwnSeq(s) == s \in Seq({s[n] : n \in 1 .. Len(s)})

LEMMA OwnSeqIs ==
  ASSUME NEW S, NEW s \in Seq(S)
  PROVE  OwnSeq(s)
BY DEF OwnSeq

(* One path goes on. *)
LEMMA OneGoesOn ==
  ASSUME ChoicesInv, NEW i \in 1 .. Len(threads), NEW th, ThreadGood(th),
         Became(i, th),
         \A input : input \in Taking(th.pc.set)
                      <=> input \in Taking(threads[i].pc.set)
  PROVE  ChoicesInv'
<1>1. OwnSeq(threads) /\ Len(threads) \in Nat
  BY DEF ChoicesInv, OwnSeq
<1>2. threads' = [threads EXCEPT ![i] = th]
  BY DEF Became
<1> DEFINE S == {threads[n] : n \in 1 .. Len(threads)} \cup {th}
<1>3. threads \in Seq(S) /\ th \in S
  BY <1>1 DEF OwnSeq
<1> HIDE DEF S
<1>4. /\ threads' \in Seq(S) /\ Len(threads') = Len(threads)
      /\ \A j \in 1 .. Len(threads) : threads'[j] = IF j = i THEN th ELSE threads[j]
  BY <1>2, <1>3
<1>5. OwnSeq(threads')
  BY <1>4, OwnSeqIs
<1>6. \A j \in 1 .. Len(threads') : ThreadGood(threads'[j])
  BY <1>4 DEF ChoicesInv
<1>7. \A j \in 1 .. Len(threads') : \A input :
        input \in Taking(threads'[j].pc.set) <=> input \in Taking(threads[j].pc.set)
  BY <1>4
<1>8. ASSUME NEW input \in [Inputs -> Vals] PROVE TakesOnePath(input)'
  <2>1. PICK k \in 1 .. Len(threads) :
          \A j \in 1 .. Len(threads) : input \in InputsOf(threads[j]) <=> j = k
    BY DEF ChoicesInv, TakesOnePath
  <2>2. \A j \in 1 .. Len(threads') : input \in InputsOf(threads'[j]) <=> j = k
    BY <1>4, <1>7, <2>1 DEF InputsOf, Taking
  <2> QED BY <1>4, <2>2 DEF TakesOnePath
<1> QED BY <1>5, <1>6, <1>8 DEF ChoicesInv, OwnSeq

(* One path becomes two. *)
LEMMA TwoGoOn ==
  ASSUME ChoicesInv, NEW i \in 1 .. Len(threads),
         NEW a, ThreadGood(a), NEW b, ThreadGood(b), Choose(i, a, b),
         \A input :
           /\ input \in Taking(threads[i].pc.set)
                <=> input \in Taking(a.pc.set) \/ input \in Taking(b.pc.set)
           /\ ~ (input \in Taking(a.pc.set) /\ input \in Taking(b.pc.set))
  PROVE  ChoicesInv'
<1>1. OwnSeq(threads) /\ Len(threads) \in Nat
  BY DEF ChoicesInv, OwnSeq
<1>2. PICK x, y : /\ threads' = Append([threads EXCEPT ![i] = x], y)
                  /\ SamePath(x, a) /\ SamePath(y, b)
  <2>1. PICK follow \in {<<TRUE, FALSE>>, <<FALSE, TRUE>>} :
          threads' = Append([threads EXCEPT
                               ![i] = [a EXCEPT !.parked = @ \/ ~follow[1]]],
                            [b EXCEPT !.parked = @ \/ ~follow[2]])
    BY DEF Choose
  <2>2. DOMAIN a = DOMAIN NewThread /\ DOMAIN b = DOMAIN NewThread
    BY DEF ThreadGood
  <2>3. /\ SamePath([a EXCEPT !.parked = @ \/ ~follow[1]], a)
        /\ SamePath([b EXCEPT !.parked = @ \/ ~follow[2]], b)
    BY <2>2, ParkedIsSame
  <2> QED BY <2>1, <2>3
<1>3. ThreadGood(x) /\ x.pc = a.pc /\ ThreadGood(y) /\ y.pc = b.pc
  BY <1>2 DEF SamePath
<1> DEFINE S == {threads[n] : n \in 1 .. Len(threads)} \cup {x, y}
           last == Len(threads) + 1
<1>4. threads \in Seq(S) /\ x \in S /\ y \in S
  BY <1>1 DEF OwnSeq
<1> HIDE DEF S
<1>5. /\ threads' \in Seq(S) /\ Len(threads') = last
      /\ \A j \in 1 .. Len(threads) : threads'[j] = IF j = i THEN x ELSE threads[j]
      /\ threads'[last] = y
  <2> DEFINE u == [threads EXCEPT ![i] = x]
  <2>1. /\ u \in Seq(S) /\ Len(u) = Len(threads)
        /\ \A j \in 1 .. Len(threads) : u[j] = IF j = i THEN x ELSE threads[j]
    BY <1>4
  <2>2. threads' = Append(u, y)
    BY <1>2
  <2> HIDE DEF u
  <2> QED BY <1>1, <1>4, <2>1, <2>2
<1>6. OwnSeq(threads')
  BY <1>5, OwnSeqIs
<1>7. \A j \in 1 .. last : j = last \/ j \in 1 .. Len(threads)
  BY <1>1
<1>8. \A j \in 1 .. Len(threads') : ThreadGood(threads'[j])
  BY <1>3, <1>5, <1>7 DEF ChoicesInv
<1>9. ASSUME NEW input \in [Inputs -> Vals] PROVE TakesOnePath(input)'
  <2> DEFINE In(th) == input \in Taking(th.pc.set)
  <2>1. PICK k \in 1 .. Len(threads) :
          \A j \in 1 .. Len(threads) : In(threads[j]) <=> j = k
    BY DEF ChoicesInv, TakesOnePath, InputsOf, Taking
  <2>2. /\ In(threads[i]) <=> In(x) \/ In(y)
        /\ ~ (In(x) /\ In(y))
    BY <1>3
  <2> HIDE DEF In
  <2> DEFINE here == IF k # i THEN k ELSE IF In(x) THEN i ELSE last
  <2>3. here \in 1 .. last /\ last \notin 1 .. Len(threads)
    BY <1>1
  <2>4. \A j \in 1 .. last : In(threads'[j]) <=> j = here
    <3> TAKE j \in 1 .. last
    <3>1. CASE j = last
      BY <1>5, <2>1, <2>2, <2>3, <3>1
    <3>2. CASE j \in 1 .. Len(threads)
      BY <1>5, <2>1, <2>2, <2>3, <3>2
    <3> QED BY <1>7, <3>1, <3>2
  <2> HIDE DEF here
  <2>5. \E h \in 1 .. Len(threads') : \A j \in 1 .. Len(threads') :
          input \in InputsOf(threads'[j]) <=> j = h
    <3>1. here \in 1 .. Len(threads')
      BY <1>5, <2>3
    <3>2. \A j \in 1 .. Len(threads') : In(threads'[j]) <=> j = here
      BY <1>5, <2>4
    <3>3. \A j \in 1 .. Len(threads') :
            InputsOf(threads'[j]) = Taking(threads'[j].pc.set)
      BY DEF InputsOf, Taking
    <3> QED BY <3>1, <3>2, <3>3 DEF In
  <2> QED BY <2>5 DEF TakesOnePath
<1> QED BY <1>6, <1>8, <1>9 DEF ChoicesInv, OwnSeq

(* The threads at the start. *)
LEMMA StartIsGood == Init => ChoicesInv
<1> SUFFICES ASSUME Init PROVE ChoicesInv
  OBVIOUS
<1>1. threads = <<NewThread>> /\ Len(threads) = 1 /\ threads[1] = NewThread
  BY DEF Init
<1>2. OwnSeq(threads)
  <2>1. threads \in Seq({NewThread})
    BY <1>1
  <2> QED BY <2>1, OwnSeqIs
<1>3. /\ NewThread.pc = PC!emptyPC /\ NewThread.num_symbols = 0
      /\ NewThread.state = "run" /\ NewThread.ops = 0
  BY DEF NewThread
<1>4. PC!PCGood(NewThread.pc) /\ NewThread.pc.set = {}
  BY <1>3, EmptyIsGood
<1>5. Models({}) = Valuations
  BY DEF Models
<1>6. ASSUME NEW input \in [Inputs -> Vals]
      PROVE  input \in InputsOf(NewThread)
  <2>1. PICK v \in Vals : TRUE
    BY ChoicesAssumption
  <2> DEFINE a == [s \in Symbols |-> IF s \in Inputs THEN input[s] ELSE v]
  <2>2. a \in Valuations
    BY <2>1 DEF Valuations
  <2>3. Project(a) = input
    BY DEF Project, Symbols
  <2> HIDE DEF a
  <2> QED BY <1>4, <1>5, <2>2, <2>3 DEF InputsOf
<1>7. Sat({})
  <2>1. PICK v \in Vals : TRUE
    BY ChoicesAssumption
  <2>2. [s \in Symbols |-> v] \in Valuations
    BY <2>1 DEF Valuations
  <2> QED BY <1>5, <2>2 DEF Sat
<1>8. ThreadGood(NewThread)
  <2>1. IsFiniteSet({})
    BY FS_EmptySet
  <2> QED BY <1>3, <1>4, <1>7, <2>1, ChoicesAssumption DEF ThreadGood, Running
<1>9. \A input \in [Inputs -> Vals] : TakesOnePath(input)
  BY <1>1, <1>6 DEF TakesOnePath
<1> QED BY <1>1, <1>2, <1>8, <1>9 DEF ChoicesInv, OwnSeq

(* A test is assumed on one half, its negation on the other. *)
LEMMA TestSplits ==
  ASSUME ChoicesInv, NEW i \in 1 .. Len(threads), May(i), NEW t \in Tests,
         NEW yes \in {"run"} \cup Ends, NEW no \in {"run"} \cup Ends
  PROVE  /\ Choose(i, Half(threads[i], Test(t), yes),
                      Half(threads[i], Negation(Test(t)), no)) => ChoicesInv'
         /\ Choose(i, Half(threads[i], Negation(Test(t)), no),
                      Half(threads[i], Test(t), yes)) => ChoicesInv'
<1> DEFINE th == threads[i]
           c == Test(t)
           d == Negation(c)
           a == Half(th, c, yes)
           b == Half(th, d, no)
<1>1. ThreadGood(th) /\ th.state = "run" /\ th.ops < MaxOps
  BY DEF ChoicesInv, May
<1>2. /\ c \in Positive /\ PC!SymbolSet(c) \subseteq Inputs
      /\ \A x, y \in Valuations :
           Project(x) = Project(y) => (x \in Holds[c] <=> y \in Holds[c])
  BY TestIsDecided
<1> HIDE DEF c
<1>3. c \in Conditions /\ d \in Conditions /\ GetSymbols[d] = GetSymbols[c]
  BY <1>2, NegationOf
<1>4. PC!SymbolSet(c) \subseteq Used(th) /\ PC!SymbolSet(d) \subseteq Used(th)
  <2>1. PC!SymbolSet(d) = PC!SymbolSet(c)
    BY <1>3 DEF PC!SymbolSet
  <2> QED BY <1>2, <2>1 DEF Used
<1> HIDE DEF d, th
<1>5. ThreadGood(a) /\ a.pc.set = th.pc.set \cup {c}
  BY <1>1, <1>3, <1>4, HalfGood
<1>6. ThreadGood(b) /\ b.pc.set = th.pc.set \cup {d}
  BY <1>1, <1>3, <1>4, HalfGood
<1>7. /\ th.pc.set \in SUBSET Conditions
      /\ Models(th.pc.set) \subseteq Valuations
  BY <1>1 DEF ThreadGood, PC!PCGood, Models
<1>8. \A input :
        /\ input \in Taking(th.pc.set)
             <=> input \in Taking(a.pc.set) \/ input \in Taking(b.pc.set)
        /\ ~ (input \in Taking(a.pc.set) /\ input \in Taking(b.pc.set))
  BY <1>2, <1>5, <1>6, <1>7, SplitInputs DEF d
<1> HIDE DEF a, b
<1>9. Choose(i, a, b) => ChoicesInv'
  BY <1>5, <1>6, <1>8, TwoGoOn DEF th
<1>10. Choose(i, b, a) => ChoicesInv'
  BY <1>5, <1>6, <1>8, TwoGoOn DEF th
<1> QED BY <1>9, <1>10 DEF a, b, th, c, d

(* Each path has a model where it should, the slices are right, and each    *)
(* input takes one path.                                                    *)
THEOREM ChoicesInvariance == Spec => []ChoicesInv
<1>1. Init => ChoicesInv
  BY StartIsGood
<1>2. ChoicesInv /\ [Next]_threads => ChoicesInv'
  <2> SUFFICES ASSUME ChoicesInv, [Next]_threads PROVE ChoicesInv'
    OBVIOUS
  <2>1. CASE UNCHANGED threads
    BY <2>1 DEF ChoicesInv, TakesOnePath
  <2>2. ASSUME NEW i \in 1 .. Len(threads), Constant(i) PROVE ChoicesInv'
    <3> DEFINE th == threads[i]
    <3>1. May(i) /\ ThreadGood(th)
      BY <2>2 DEF Constant, ChoicesInv
    <3>2. PICK state \in {"run", "assumed_away", "assert_failure"} :
            Became(i, [threads[i] EXCEPT !.state = state, !.ops = @ + 1])
      BY <2>2 DEF Constant
    <3> DEFINE new == [th EXCEPT !.state = state, !.ops = @ + 1]
    <3>3. /\ DOMAIN th = DOMAIN NewThread /\ th.ops \in 0 .. MaxOps
          /\ th.ops < MaxOps /\ MaxOps \in Nat /\ Sat(th.pc.set)
      BY <3>1, ChoicesAssumption DEF ThreadGood, May
    <3> HIDE DEF th
    <3>4. /\ DOMAIN new = DOMAIN NewThread /\ new.pc = th.pc
          /\ new.num_symbols = th.num_symbols /\ new.state = state
          /\ new.ops = th.ops + 1
      BY <3>3, FieldsOfThread
    <3>5. Became(i, new)
      BY <3>2 DEF th
    <3> HIDE DEF new
    <3>6. new.ops \in 0 .. MaxOps /\ new.state \in {"run"} \cup Ends
      BY <3>3, <3>4 DEF Ends
    <3>7. ThreadGood(new)
      BY <3>1, <3>3, <3>4, <3>6, StateGood
    <3> QED BY <3>4, <3>5, <3>7, OneGoesOn DEF th
  <2>3. ASSUME NEW i \in 1 .. Len(threads), Select(i) PROVE ChoicesInv'
    <3>1. May(i) /\ "run" \in {"run"} \cup Ends
      BY <2>3 DEF Select
    <3>2. PICK t \in Tests :
            Choose(i, Half(threads[i], Test(t), "run"),
                      Half(threads[i], Negation(Test(t)), "run"))
      BY <2>3 DEF Select
    <3> QED BY <3>1, <3>2, TestSplits
  <2>4. ASSUME NEW i \in 1 .. Len(threads), Assume(i) PROVE ChoicesInv'
    <3>1. /\ May(i) /\ "run" \in {"run"} \cup Ends
          /\ "assumed_away" \in {"run"} \cup Ends
      BY <2>4 DEF Assume, Ends
    <3>2. PICK t \in Tests :
            Choose(i, Half(threads[i], Negation(Test(t)), "assumed_away"),
                      Half(threads[i], Test(t), "run"))
      BY <2>4 DEF Assume
    <3> QED BY <3>1, <3>2, TestSplits
  <2>5. ASSUME NEW i \in 1 .. Len(threads), Assertion(i) PROVE ChoicesInv'
    <3>1. /\ May(i) /\ "run" \in {"run"} \cup Ends
          /\ "assert_failure" \in {"run"} \cup Ends
      BY <2>5 DEF Assertion, Ends
    <3>2. PICK t \in Tests :
            Choose(i, Half(threads[i], Negation(Test(t)), "assert_failure"),
                      Half(threads[i], Test(t), "run"))
      BY <2>5 DEF Assertion
    <3> QED BY <3>1, <3>2, TestSplits
  <2>6. ASSUME NEW i \in 1 .. Len(threads), CheckReachability(i)
        PROVE ChoicesInv'
    <3> DEFINE th == threads[i]
               new == [th EXCEPT !.state = IF Sat(PC!slice(th.pc, th.cond))
                                           THEN th.then ELSE "stop"]
    <3>1. ThreadGood(th) /\ th.state = "check" /\ Became(i, new)
      BY <2>6 DEF CheckReachability, ChoicesInv
    <3>2. ThreadGood(new) /\ new.pc = th.pc
      BY <3>1, CheckedGood
    <3> HIDE DEF new
    <3> QED BY <3>1, <3>2, OneGoesOn
  <2>7. ASSUME NEW i \in 1 .. Len(threads), SelectI32(i) PROVE ChoicesInv'
    <3> DEFINE th == threads[i]
    <3>1. ThreadGood(th) /\ th.ops < MaxOps
      BY <2>7 DEF SelectI32, May, ChoicesInv
    <3>2. PICK e \in Exprs : /\ ExprSymbols[e] # <<e>> => th.num_symbols < MaxFresh
                             /\ Became(i, Named(th, e))
      BY <2>7 DEF SelectI32, Named
    <3>3. /\ ThreadGood(Named(th, e))
          /\ \A input : input \in Taking(Named(th, e).pc.set)
                          <=> input \in Taking(th.pc.set)
      BY <3>1, <3>2, NamedGood
    <3> QED BY <3>2, <3>3, OneGoesOn
  <2>8. ASSUME NEW i \in 1 .. Len(threads), GetModel(i) PROVE ChoicesInv'
    <3> DEFINE th == threads[i]
               models == Models(th.pc.set)
    <3>1. ThreadGood(th) /\ th.state = "model"
      BY <2>8 DEF GetModel, ChoicesInv
    <3>2. CASE models = {}
      <4> DEFINE new == [th EXCEPT !.state = "stop"]
      <4>1. Became(i, new)
        BY <2>8, <3>2 DEF GetModel, PC!to_set
      <4>2. DOMAIN th = DOMAIN NewThread /\ th.ops \in 0 .. MaxOps
        BY <3>1 DEF ThreadGood
      <4>3. /\ DOMAIN new = DOMAIN NewThread /\ new.pc = th.pc
            /\ new.num_symbols = th.num_symbols /\ new.state = "stop"
            /\ new.ops = th.ops
        BY <4>2, FieldsOfThread
      <4> HIDE DEF new, th
      <4>4. ThreadGood(new)
        BY <3>1, <4>2, <4>3, StateGood DEF Ends
      <4> QED BY <4>1, <4>3, <4>4, OneGoesOn DEF th
    <3>3. CASE models # {}
      <4>1. PICK v \in {a[th.symbol] : a \in models} :
              Choose(i, Found(th, v), Others(th, v))
        BY <2>8, <3>3 DEF GetModel, PC!to_set, Found, Others
      <4>2. PICK a \in models : v = a[th.symbol]
        BY <4>1
      <4>3. /\ ThreadGood(Found(th, v)) /\ ThreadGood(Others(th, v))
            /\ \A input :
                 /\ input \in Taking(th.pc.set)
                      <=> \/ input \in Taking(Found(th, v).pc.set)
                          \/ input \in Taking(Others(th, v).pc.set)
                 /\ ~ (/\ input \in Taking(Found(th, v).pc.set)
                       /\ input \in Taking(Others(th, v).pc.set))
        BY <3>1, <4>2, FoundGood
      <4> QED BY <4>1, <4>3, TwoGoOn
    <3> QED BY <3>2, <3>3
  <2> QED BY <2>1, <2>2, <2>3, <2>4, <2>5, <2>6, <2>7, <2>8 DEF Next, Done
<1> QED BY <1>1, <1>2, PTL DEF Spec

(* A path the engine goes on with, or reports, can be taken.                *)
THEOREM PathsHaveModels == Spec => []PathsFeasible
<1>1. ChoicesInv => PathsFeasible
  BY DEF ChoicesInv, ThreadGood, PathsFeasible
<1> QED BY <1>1, ChoicesInvariance, PTL

(* Checking the slice of the last condition is as good as checking all.     *)
THEOREM SlicesDecide == Spec => []SliceDecides
<1>1. ChoicesInv => SliceDecides
  <2> SUFFICES ASSUME ChoicesInv, NEW i \in 1 .. Len(threads),
                      threads[i].state = "check"
               PROVE  Sat(PC!slice(threads[i].pc, threads[i].cond))
                        <=> Sat(threads[i].pc.set)
    BY DEF SliceDecides
  <2> DEFINE pc == threads[i].pc
             c == threads[i].cond
  <2>1. PC!PCGood(pc) /\ c \in pc.set /\ Sat(pc.set \ {c})
    BY DEF ChoicesInv, ThreadGood
  <2> HIDE DEF pc, c
  <2>2. PC!slice(pc, c) \in SUBSET pc.set
    BY <2>1, SliceIs
  <2>3. Sat(PC!slice(pc, c)) <=> Sat(pc.set)
    BY <2>1, <2>2, SliceSat, FewerConditions
  <2> QED BY <2>3 DEF pc, c
<1> QED BY <1>1, ChoicesInvariance, PTL

(* Each input takes exactly one of the paths. *)
THEOREM InputsArePartitioned == Spec => []PathsPartitionInputs
<1>1. ChoicesInv => PathsPartitionInputs
  <2> SUFFICES ASSUME ChoicesInv, NEW input \in [Inputs -> Vals]
               PROVE  Cardinality({i \in 1 .. Len(threads) :
                                     input \in InputsOf(threads[i])}) = 1
    BY DEF PathsPartitionInputs
  <2>1. PICK i \in 1 .. Len(threads) :
          \A j \in 1 .. Len(threads) : input \in InputsOf(threads[j]) <=> j = i
    BY DEF ChoicesInv, TakesOnePath
  <2>2. {j \in 1 .. Len(threads) : input \in InputsOf(threads[j])} = {i}
    BY <2>1
  <2>3. Cardinality({i}) = 1
    BY FS_Singleton
  <2> QED BY <2>2, <2>3
<1> QED BY <1>1, ChoicesInvariance, PTL

(* What a condition is linked to, one more shared symbol at a time. *)
LEMMA ReachIs ==
  ASSUME NEW pc, IsFiniteSet(pc.set), NEW c
  PROVE  /\ Cardinality(pc.set) \in Nat
         /\ PC!Reach(pc, c)[0] = {c}
         /\ \A n \in Nat : n + 1 \in 0 .. Cardinality(pc.set) =>
              PC!Reach(pc, c)[n + 1] = PC!Touching(PC!Reach(pc, c)[n], pc)
         /\ PC!Linked(pc, c) = PC!Reach(pc, c)[Cardinality(pc.set)]
<1> DEFINE Step(g, n) == IF n = 0 THEN {c} ELSE PC!Touching(g[n - 1], pc)
           Reached(m, g) == g = [n \in 0 .. m |-> Step(g, n)]
           T == {m \in Nat : \E g : Reached(m, g)}
           K == Cardinality(pc.set)
           R == PC!Reach(pc, c)
<1>1. K \in Nat
  BY FS_CardinalityType
<1>2. 0 \in T
  <2> DEFINE first == [n \in 0 .. 0 |-> {c}]
  <2>1. first = [n \in 0 .. 0 |-> Step(first, n)]
    OBVIOUS
  <2> HIDE DEF first
  <2> QED BY <2>1
<1>3. ASSUME NEW m \in Nat, m \in T PROVE m + 1 \in T
  <2>1. PICK g : g = [n \in 0 .. m |-> Step(g, n)]
    BY <1>3
  <2> DEFINE h == [n \in 0 .. m + 1 |-> Step(g, n)]
  <2>2. \A n \in 0 .. m : h[n] = g[n]
    <3> HIDE DEF Step
    <3>1. \A n \in 0 .. m : g[n] = Step(g, n) /\ n \in 0 .. m + 1
      BY <2>1
    <3> QED BY <3>1
  <2>3. \A n \in 0 .. m + 1 : Step(g, n) = Step(h, n)
    <3> TAKE n \in 0 .. m + 1
    <3> HIDE DEF h
    <3>1. n # 0 => n - 1 \in 0 .. m
      OBVIOUS
    <3> QED BY <2>2, <3>1
  <2>4. h = [n \in 0 .. m + 1 |-> Step(h, n)]
    BY <2>3
  <2> HIDE DEF h
  <2> QED BY <2>4
<1>4. Nat \subseteq T
  <2> HIDE DEF T
  <2> QED BY <1>2, <1>3, Induction
<1>5. PICK g : g = [n \in 0 .. K |-> Step(g, n)]
  BY <1>1, <1>4
<1>6. K = PC!Cardinality(pc.set)
  BY Zenon DEF PC!Cardinality, Cardinality
<1>7. R = CHOOSE f : f = [n \in 0 .. K |-> Step(f, n)]
  BY <1>6, Zenon DEF PC!Reach
<1>8. R = [n \in 0 .. K |-> Step(R, n)]
  <2> HIDE DEF R, Step
  <2> QED BY <1>5, <1>7, Zenon
<1>9. PC!Linked(pc, c) = R[K]
  BY <1>6, Zenon DEF PC!Linked
<1> HIDE DEF R, K
<1>10. R[0] = {c}
  BY <1>1, <1>8
<1>11. \A n \in Nat : n + 1 \in 0 .. K => R[n + 1] = PC!Touching(R[n], pc)
  <2> TAKE n \in Nat
  <2>1. n + 1 # 0 /\ (n + 1) - 1 = n
    OBVIOUS
  <2> QED BY <1>8, <2>1
<1> QED BY <1>1, <1>9, <1>10, <1>11 DEF R, K

(* The slice is what the condition is linked to, all and only: the links    *)
(* stay in the slice, and stop only when no symbol leads on.                *)
LEMMA SliceIsLinked ==
  ASSUME NEW pc, PC!PCGood(pc), IsFiniteSet(pc.set), NEW c \in pc.set
  PROVE  PC!slice(pc, c) = PC!Linked(pc, c)
<1> DEFINE ds == PC!slice(pc, c)
           R == PC!Reach(pc, c)
           K == Cardinality(pc.set)
<1>1. /\ pc.set \subseteq Conditions /\ PC!Connected(pc.set, pc.uf)
      /\ \A d \in pc.set : d \in ds <=> PC!Rep(Head(GetSymbols[d]), pc.uf)
                                          = PC!Rep(Head(GetSymbols[c]), pc.uf)
      /\ ds \in SUBSET pc.set /\ c \in ds
      /\ \A d \in ds, e \in pc.set \ ds : PC!SymbolSet(d) \cap PC!SymbolSet(e) = {}
  BY SliceIs DEF PC!PCGood
<1>2. \A d \in pc.set : /\ Head(GetSymbols[d]) \in PC!SymbolSet(d)
                        /\ PC!SymbolSet(d) \subseteq Symbols
  BY <1>1, SymbolsOfConditions
<1>3. /\ K \in Nat /\ R[0] = {c} /\ PC!Linked(pc, c) = R[K]
      /\ \A n \in Nat : n + 1 \in 0 .. K => R[n + 1] = PC!Touching(R[n], pc)
  BY ReachIs
<1> HIDE DEF ds, R, K
<1>4. /\ \A cs \in SUBSET ds : PC!Touching(cs, pc) \subseteq ds
      /\ \A cs \in SUBSET ds : cs \subseteq PC!Touching(cs, pc)
  BY <1>1, <1>2 DEF PC!Touching
<1>5. \A n \in Nat : n \in 0 .. K => c \in R[n] /\ R[n] \subseteq ds
  <2> DEFINE T == {n \in Nat : n \in 0 .. K => c \in R[n] /\ R[n] \subseteq ds}
  <2>1. 0 \in T
    BY <1>1, <1>3
  <2>2. \A n \in Nat : n \in T => n + 1 \in T
    <3> SUFFICES ASSUME NEW n \in Nat, n \in T, n + 1 \in 0 .. K
                 PROVE  c \in R[n + 1] /\ R[n + 1] \subseteq ds
      OBVIOUS
    <3>1. n \in 0 .. K
      BY <1>3
    <3> QED BY <1>3, <1>4, <3>1
  <2>3. Nat \subseteq T
    <3> HIDE DEF T
    <3> QED BY <2>1, <2>2, Induction
  <2> QED BY <2>3
<1>6. \A n \in 0 .. K : IsFiniteSet(R[n]) /\ Cardinality(R[n]) \in Nat
  <2> TAKE n \in 0 .. K
  <2>1. R[n] \subseteq pc.set
    BY <1>1, <1>3, <1>5
  <2>2. IsFiniteSet(R[n])
    BY <2>1, FS_Subset
  <2> QED BY <2>2, FS_CardinalityType
<1> DEFINE Stops(n) == PC!Touching(R[n], pc) = R[n]
<1>7. \A n \in Nat : n \in 0 .. K => Stops(n) \/ Cardinality(R[n]) >= n + 1
  <2> DEFINE T == {n \in Nat : n \in 0 .. K => Stops(n) \/ Cardinality(R[n]) >= n + 1}
  <2>1. 0 \in T
    <3>1. Cardinality(R[0]) = 1
      BY <1>3, FS_Singleton
    <3> QED BY <3>1
  <2>2. \A n \in Nat : n \in T => n + 1 \in T
    <3> SUFFICES ASSUME NEW n \in Nat, n \in T, n + 1 \in 0 .. K, ~Stops(n + 1)
                 PROVE  Cardinality(R[n + 1]) >= (n + 1) + 1
      OBVIOUS
    <3>1. n \in 0 .. K
      BY <1>3
    <3>2. R[n + 1] = PC!Touching(R[n], pc) /\ R[n] \subseteq R[n + 1]
      BY <1>3, <1>4, <1>5, <3>1
    <3>3. R[n] # R[n + 1]
      BY <3>2
    <3>4. Cardinality(R[n]) >= n + 1
      BY <3>1, <3>2, <3>3
    <3> HIDE DEF Stops, T
    <3>5. Cardinality(R[n]) < Cardinality(R[n + 1])
      BY <1>6, <3>1, <3>2, <3>3, FS_Subset
    <3> QED BY <1>6, <3>1, <3>4, <3>5
  <2>3. Nat \subseteq T
    <3> HIDE DEF T
    <3> QED BY <2>1, <2>2, Induction
  <2> QED BY <2>3
<1> DEFINE cs == R[K]
<1>8. PC!Touching(cs, pc) = cs /\ c \in cs /\ cs \subseteq ds
  <2>1. Cardinality(cs) <= K
    <3>1. cs \subseteq pc.set
      BY <1>1, <1>3, <1>5
    <3> QED BY <3>1, FS_Subset DEF K
  <2>2. K \in 0 .. K /\ ~(K >= K + 1)
    BY <1>3
  <2> QED BY <1>3, <1>5, <1>6, <1>7, <2>1, <2>2
<1> HIDE DEF cs, Stops
<1>9. ds \subseteq cs
  <2> DEFINE W == UNION {PC!SymbolSet(d) : d \in cs}
  <2>1. W \in SUBSET Symbols /\ cs \subseteq pc.set
    BY <1>1, <1>2, <1>8
  <2>2. ASSUME NEW e \in pc.set, PC!SymbolSet(e) \cap W # {} PROVE e \in cs
    <3>1. PICK d \in cs : PC!SymbolSet(d) \cap PC!SymbolSet(e) # {}
      BY <2>2
    <3> QED BY <1>8, <3>1 DEF PC!Touching
  <2>3. \A e \in pc.set : PC!SymbolSet(e) \subseteq W \/ PC!SymbolSet(e) \cap W = {}
    BY <2>2
  <2>4. Head(GetSymbols[c]) \in W
    BY <1>2, <1>8
  <2> HIDE DEF W
  <2>5. \A d \in ds : Head(GetSymbols[d]) \in W
    BY <1>1, <1>2, <2>1, <2>3, <2>4 DEF PC!Connected
  <2> QED BY <1>1, <1>2, <2>2, <2>5
<1> QED BY <1>3, <1>8, <1>9 DEF ds, cs

(* The fields of a path have their types. *)
THEOREM PathsAreTyped == Spec => []TypeOK
<1>1. ChoicesInv => TypeOK
  <2> SUFFICES ASSUME ChoicesInv, NEW i \in 1 .. Len(threads)
               PROVE  LET th == threads[i]
                      IN  /\ th.pc.set \subseteq Conditions
                          /\ th.state \in Running \cup Ends
                          /\ th.num_symbols \in 0 .. MaxFresh
                          /\ th.ops \in 0 .. MaxOps
                          /\ th.state = "check" => th.cond \in th.pc.set
                          /\ th.state = "model" => th.symbol \in Symbols
    BY DEF TypeOK
  <2>1. ThreadGood(threads[i]) /\ threads[i].pc.set \subseteq Conditions
    BY DEF ChoicesInv, ThreadGood, PC!PCGood
  <2>2. Used(threads[i]) \subseteq Symbols
    BY <2>1, ChoicesAssumption DEF ThreadGood, Used, Symbols, Fresh
  <2> QED BY <2>1, <2>2 DEF ThreadGood
<1> QED BY <1>1, ChoicesInvariance, PTL

(* The solver is given what the new condition depends on, and no more.      *)
THEOREM SlicesAreExact == Spec => []SliceExact
<1>1. ChoicesInv => SliceExact
  BY SliceIsLinked DEF ChoicesInv, ThreadGood, SliceExact
<1> QED BY <1>1, ChoicesInvariance, PTL

=============================================================================
