---------------------------- MODULE PathCondition ----------------------------
(***************************************************************************)
(* The path condition of a symbolic thread                                 *)
(* (symbolic/symbolic_path_condition.ml): the set of the conditions        *)
(* assumed on the path, and a union-find that groups them by the symbols   *)
(* they share, so that the solver is given only the slice a new condition  *)
(* depends on.                                                             *)
(***************************************************************************)
EXTENDS Naturals, FiniteSets, Sequences, SequencesExt

CONSTANTS
  Symbols,
  Conditions,
  get_symbols,    \* external: the list of the symbols of each condition
  NoSlice         \* no condition was added to a class of symbols

UF == INSTANCE UnionFind
        WITH Keys <- Symbols, Data <- Conditions, NoDatum <- NoSlice

emptyPC == [uf |-> UF!empty, set |-> {}]

(* Faulty: only the first symbol knows of the condition. *)
addPC_NoMerge(pc, c) ==
  [uf  |-> UF!add(Head(get_symbols[c]), {c}, pc.uf), set |-> pc.set \cup {c}]

(* The condition is added under its first symbol, then each symbol is       *)
(* merged with the one before it.                                           *)
Merging(pc, c) ==
  LET syms == get_symbols[c]
      merged[n \in 1 .. Len(syms)] ==
        IF n = 1 THEN UF!add(syms[1], {c}, pc.uf)
                 ELSE UF!union(syms[n - 1], syms[n], merged[n - 1])
  IN  merged

addPC(pc, c) ==
  [uf  |-> Merging(pc, c)[Len(get_symbols[c])], set |-> pc.set \cup {c}]

to_set(pc) == pc.set

(* Faulty: what c depends on is left out. *)
slice_Alone(pc, c) == {c}

(* Only after c was added; NoSlice stands for the code's assert false. *)
slice(pc, c) == UF!find_opt(Head(get_symbols[c]), pc.uf)

-----------------------------------------------------------------------------
SymbolSet(c) == ToSet(get_symbols[c])

Touching(cs, pc) ==
  {d \in pc.set : \E c \in cs : SymbolSet(c) \cap SymbolSet(d) # {}}

(* Reference: the conditions linked to c by a chain of shared symbols. *)
Reach(pc, c) ==
  LET reach[n \in 0 .. Cardinality(pc.set)] ==
        IF n = 0 THEN {c} ELSE Touching(reach[n - 1], pc)
  IN  reach

Linked(pc, c) == Reach(pc, c)[Cardinality(pc.set)]

-----------------------------------------------------------------------------
(* The inductive invariant of a path condition. *)
Rep(k, t) == UF!find_canonical(k, t)

Roots(t) == Symbols \ DOMAIN t.canonical_elements

ClassesGood(t) ==
  /\ t = [canonical_elements |-> t.canonical_elements,
          node_of_canonicals |-> t.node_of_canonicals]
  /\ \A k \in DOMAIN t.canonical_elements :
       k \in Symbols /\ t.canonical_elements[k] \in Roots(t)
  /\ \A r \in Roots(t) :
       LET node == UF!find_node(r, t)
       IN  /\ node = [aliases |-> node.aliases, cardinal |-> node.cardinal,
                      datum |-> node.datum]
           /\ node.aliases = {k \in DOMAIN t.canonical_elements :
                                t.canonical_elements[k] = r}

(* The datum of a class is the conditions whose first symbol is in it. *)
Under(r, cs, t) == {d \in cs : Rep(Head(get_symbols[d]), t) = r}

DataExact(cs, t) ==
  \A r \in Roots(t) :
    UF!find_node(r, t).datum
      = IF Under(r, cs, t) = {} THEN NoSlice ELSE Under(r, cs, t)

(* So are its other symbols, at least the first m of them. *)
Together(d, m, t) ==
  \A n \in 1 .. m : Rep(get_symbols[d][n], t) = Rep(Head(get_symbols[d]), t)

(* A set of symbols that no condition leaves is left by no class. *)
Connected(cs, t) ==
  \A W \in SUBSET Symbols :
    (\A d \in cs : SymbolSet(d) \subseteq W \/ SymbolSet(d) \cap W = {}) =>
      \A j, k \in Symbols : Rep(j, t) = Rep(k, t) => (j \in W <=> k \in W)

PCGood(pc) ==
  /\ pc = [uf |-> pc.uf, set |-> pc.set]
  /\ pc.set \subseteq Conditions
  /\ ClassesGood(pc.uf)
  /\ DataExact(pc.set, pc.uf)
  /\ \A d \in pc.set : Together(d, Len(get_symbols[d]), pc.uf)
  /\ Connected(pc.set, pc.uf)
=============================================================================
