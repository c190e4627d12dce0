------------------------- MODULE ConcolicTree_proofs -------------------------
(***************************************************************************)
(* Proofs about ConcolicTree, for every program and every set of inputs:   *)
(* the cached counts are exact whenever a search begins, no path is run    *)
(* twice, no input is forgotten by the tree but those the solver gave up   *)
(* on, and "All OK" is right for the programs whose branches can all be    *)
(* taken if it never gave up.  They rest on one inductive invariant,       *)
(* ConcolicInv.                                                            *)
(***************************************************************************)
EXTENDS ConcolicTree, FunctionTheorems, FiniteSetTheorems,
        WellFoundedInduction, TLAPS

(* Paths and their beginnings. *)
LEMMA UpIs ==
  ASSUME NEW E, NEW p \in Seq(E), NEW k \in 0 .. Len(p)
  PROVE  /\ Up(p, k) \in Seq(E) /\ Len(Up(p, k)) = k
         /\ \A i \in 1 .. k : Up(p, k)[i] = p[i] /\ i \in 1 .. Len(p)
<1>1. Up(p, k) = [i \in 1 .. k |-> p[i]]
  BY DEF Up
<1>2. k \in Nat /\ \A i \in 1 .. k : p[i] \in E /\ i \in 1 .. Len(p)
  OBVIOUS
<1> QED BY <1>1, <1>2

(* Two paths of the same elements are the same. *)
LEMMA SamePath ==
  ASSUME NEW E, NEW p \in Seq(E), NEW q \in Seq(E), Len(p) = Len(q),
         \A i \in 1 .. Len(p) : p[i] = q[i]
  PROVE  p = q
OBVIOUS

(* The beginning of a beginning, *)
LEMMA UpUp ==
  ASSUME NEW E, NEW p \in Seq(E), NEW k \in 0 .. Len(p), NEW j \in 0 .. k
  PROVE  Up(Up(p, k), j) = Up(p, j)
<1>1. j \in 0 .. Len(p) /\ j \in Nat /\ k \in Nat
  OBVIOUS
<1>2. /\ Up(p, k) \in Seq(E) /\ Len(Up(p, k)) = k
      /\ \A i \in 1 .. k : Up(p, k)[i] = p[i]
  BY UpIs
<1>3. /\ Up(p, j) \in Seq(E) /\ Len(Up(p, j)) = j
      /\ \A i \in 1 .. j : Up(p, j)[i] = p[i]
  BY <1>1, UpIs
<1>4. /\ Up(Up(p, k), j) \in Seq(E) /\ Len(Up(Up(p, k), j)) = j
      /\ \A i \in 1 .. j : Up(Up(p, k), j)[i] = Up(p, k)[i]
  BY <1>2, UpIs
<1> QED BY <1>1, <1>2, <1>3, <1>4, SamePath

(* the longest one and the shortest, *)
LEMMA UpAll ==
  ASSUME NEW E, NEW p \in Seq(E)
  PROVE  Up(p, Len(p)) = p /\ Up(p, 0) = <<>>
<1>1. Len(p) \in Nat
  OBVIOUS
<1>2. /\ Up(p, Len(p)) \in Seq(E) /\ Len(Up(p, Len(p))) = Len(p)
      /\ \A i \in 1 .. Len(p) : Up(p, Len(p))[i] = p[i]
  BY <1>1, UpIs
<1>3. Up(p, 0) \in Seq(E) /\ Len(Up(p, 0)) = 0
  BY <1>1, UpIs
<1>4. Up(p, Len(p)) = p
  BY <1>2, SamePath
<1> QED BY <1>3, <1>4

(* Two paths that begin alike. *)
LEMMA UpSame ==
  ASSUME NEW E, NEW p \in Seq(E), NEW q \in Seq(E),
         NEW k \in 0 .. Len(p), k \in 0 .. Len(q), Up(p, k) = Up(q, k)
  PROVE  /\ \A j \in 0 .. k : Up(p, j) = Up(q, j)
         /\ \A i \in 1 .. k : p[i] = q[i]
<1>1. \A j \in 0 .. k : Up(p, j) = Up(q, j)
  BY UpUp
<1>2. \A i \in 1 .. k : Up(p, k)[i] = p[i]
  BY UpIs
<1>3. \A i \in 1 .. k : Up(q, k)[i] = q[i]
  BY UpIs
<1> QED BY <1>1, <1>2, <1>3

(* and the next one. *)
LEMMA UpNext ==
  ASSUME NEW E, NEW p \in Seq(E), NEW k \in 0 .. Len(p) - 1
  PROVE  Append(Up(p, k), p[k + 1]) = Up(p, k + 1)
<1>1. k \in 0 .. Len(p) /\ k + 1 \in 0 .. Len(p) /\ k \in Nat /\ p[k + 1] \in E
  OBVIOUS
<1>2. /\ Up(p, k) \in Seq(E) /\ Len(Up(p, k)) = k
      /\ \A i \in 1 .. k : Up(p, k)[i] = p[i]
  BY <1>1, UpIs
<1>3. /\ Up(p, k + 1) \in Seq(E) /\ Len(Up(p, k + 1)) = k + 1
      /\ \A i \in 1 .. k + 1 : Up(p, k + 1)[i] = p[i]
  BY <1>1, UpIs
<1> DEFINE a == Append(Up(p, k), p[k + 1])
<1>4. /\ a \in Seq(E) /\ Len(a) = k + 1 /\ a[k + 1] = p[k + 1]
      /\ \A i \in 1 .. k : a[i] = Up(p, k)[i]
  BY <1>1, <1>2
<1>5. \A i \in 1 .. k + 1 : i \in 1 .. k \/ i = k + 1
  BY <1>1
<1> HIDE DEF a
<1>6. a = Up(p, k + 1)
  BY <1>2, <1>3, <1>4, <1>5, SamePath
<1> QED BY <1>6 DEF a

(* A path one element longer. *)
LEMMA OneMore ==
  ASSUME NEW E, NEW p \in Seq(E), NEW e \in E
  PROVE  /\ Append(p, e) \in Seq(E) /\ Len(Append(p, e)) = Len(p) + 1
         /\ Append(p, e)[Len(p) + 1] = e
         /\ \A k \in 0 .. Len(p) : Up(Append(p, e), k) = Up(p, k)
<1> DEFINE a == Append(p, e)
<1>1. /\ a \in Seq(E) /\ Len(a) = Len(p) + 1 /\ Len(p) \in Nat /\ a[Len(p) + 1] = e
      /\ \A i \in 1 .. Len(p) : a[i] = p[i]
  OBVIOUS
<1> HIDE DEF a
<1>2. ASSUME NEW k \in 0 .. Len(p)
      PROVE  Up(a, k) = Up(p, k)
  <2>1. /\ Up(p, k) \in Seq(E) /\ Len(Up(p, k)) = k
        /\ \A i \in 1 .. k : Up(p, k)[i] = p[i]
    BY UpIs
  <2>2. k \in 0 .. Len(a) /\ \A i \in 1 .. k : i \in 1 .. Len(p)
    BY <1>1
  <2>3. /\ Up(a, k) \in Seq(E) /\ Len(Up(a, k)) = k
        /\ \A i \in 1 .. k : Up(a, k)[i] = a[i]
    BY <1>1, <2>2, UpIs
  <2> QED BY <1>1, <2>1, <2>2, <2>3, SamePath
<1> QED BY <1>1, <1>2 DEF a

(* A path one element shorter. *)
LEMMA FrontIs ==
  ASSUME NEW E, NEW p \in Seq(E), p # <<>>
  PROVE  Front(p) = Up(p, Len(p) - 1) /\ Len(p) - 1 \in 0 .. Len(p) - 1
         /\ Len(p) - 1 \in 0 .. Len(p)
<1>1. Len(p) \in Nat /\ Len(p) > 0
  OBVIOUS
<1> QED BY <1>1 DEF Front, Up

(* The beginnings of a path. *)
LEMMA PrefixIs ==
  ASSUME NEW E, NEW p \in Seq(E), NEW q \in Seq(E)
  PROVE  /\ IsPrefix(q, p) <=> Len(q) \in 0 .. Len(p) /\ q = Up(p, Len(q))
         /\ IsPrefix(q, p) <=> q \in Nodes(p)
<1>1. Len(p) \in Nat /\ Len(q) \in Nat
  OBVIOUS
<1>2. SubSeq(q, 1, Len(q)) = q
  BY UpAll DEF Up
<1>3. IsPrefix(q, p) <=> Len(q) \in 0 .. Len(p) /\ q = Up(p, Len(q))
  BY <1>1, <1>2 DEF IsPrefix, Up
<1>4. ASSUME NEW k \in 0 .. Len(p), q = Up(p, k) PROVE Len(q) = k
  BY <1>4, UpIs
<1> QED BY <1>3, <1>4 DEF Nodes

(* The nodes a path goes through are its beginnings. *)
LEMMA NodesOf ==
  ASSUME NEW E, NEW p \in Seq(E)
  PROVE  /\ Nodes(p) \subseteq Seq(E) /\ p \in Nodes(p) /\ <<>> \in Nodes(p)
         /\ \A q \in Nodes(p) : /\ Len(q) \in 0 .. Len(p) /\ q = Up(p, Len(q))
                                /\ Nodes(q) \subseteq Nodes(p)
                                /\ q # p => Len(q) \in 0 .. Len(p) - 1
<1>1. Len(p) \in Nat
  OBVIOUS
<1>2. \A k \in 0 .. Len(p) : Up(p, k) \in Seq(E) /\ Len(Up(p, k)) = k
  BY UpIs
<1>3. p \in Nodes(p) /\ <<>> \in Nodes(p)
  BY <1>1, UpAll DEF Nodes
<1>4. ASSUME NEW q \in Nodes(p)
      PROVE  /\ Len(q) \in 0 .. Len(p) /\ q = Up(p, Len(q))
             /\ Nodes(q) \subseteq Nodes(p)
             /\ q # p => Len(q) \in 0 .. Len(p) - 1
  <2>1. PICK k \in 0 .. Len(p) : q = Up(p, k)
    BY DEF Nodes
  <2>2. Len(q) = k /\ q = Up(p, Len(q))
    BY <1>2, <2>1
  <2>3. \A j \in 0 .. Len(q) : Up(q, j) = Up(p, j) /\ j \in 0 .. Len(p)
    BY <2>1, <2>2, UpUp
  <2>4. q # p => Len(q) # Len(p)
    BY <2>2, UpAll
  <2> QED BY <1>1, <2>2, <2>3, <2>4 DEF Nodes
<1> QED BY <1>2, <1>3, <1>4 DEF Nodes

(* A set of natural numbers that is not empty has a least element, *)
LEMMA LeastNatural ==
  ASSUME NEW S \in SUBSET Nat, S # {}
  PROVE  \E k \in S : \A j \in S : k <= j
<1> DEFINE R == {ss \in Nat \X Nat : ss[1] < ss[2]}
<1>1. IsWellFoundedOn(R, Nat)
  BY NatLessThanWellFounded DEF OpToRel
<1>2. \E k \in S : \A j \in S : ~ (<<j, k>> \in R)
  <2> HIDE DEF R
  <2> QED BY <1>1, WFMin
<1>3. ASSUME NEW k \in S, NEW j \in S, ~ (<<j, k>> \in R) PROVE k <= j
  BY <1>3
<1> QED BY <1>2, <1>3

(* and a greatest one, if it is bounded. *)
LEMMA GreatestNatural ==
  ASSUME NEW n \in Nat, NEW S \in SUBSET (0 .. n), S # {}
  PROVE  \E k \in S : \A j \in S : j <= k
<1> DEFINE T == {n - k : k \in S}
<1>1. T \in SUBSET Nat /\ T # {}
  OBVIOUS
<1>2. PICK m \in T : \A j \in T : m <= j
  BY <1>1, LeastNatural
<1>3. PICK k \in S : m = n - k
  OBVIOUS
<1>4. \A j \in S : n - k <= n - j /\ j \in 0 .. n
  BY <1>2, <1>3
<1>5. \A j \in S : j <= k
  BY <1>4
<1> QED BY <1>5

(* How far two paths go together. *)
LEMMA Parting ==
  ASSUME NEW E, NEW p \in Seq(E), NEW q \in Seq(E)
  PROVE  \E k \in 0 .. Len(p) :
           /\ k \in 0 .. Len(q) /\ Up(p, k) = Up(q, k)
           /\ k = Len(p) \/ k = Len(q) \/ p[k + 1] # q[k + 1]
<1> DEFINE S == {k \in 0 .. Len(p) : k \in 0 .. Len(q) /\ Up(p, k) = Up(q, k)}
<1>1. Len(p) \in Nat /\ Len(q) \in Nat
  OBVIOUS
<1>2. 0 \in S
  BY <1>1, UpAll
<1>3. PICK k \in S : \A j \in S : j <= k
  BY <1>1, <1>2, GreatestNatural
<1>4. ASSUME k # Len(p), k # Len(q), p[k + 1] = q[k + 1] PROVE FALSE
  <2>1. /\ k \in 0 .. Len(p) - 1 /\ k \in 0 .. Len(q) - 1
        /\ k + 1 \in 0 .. Len(p) /\ k + 1 \in 0 .. Len(q)
    BY <1>1, <1>4
  <2>2. Up(p, k + 1) = Append(Up(p, k), p[k + 1])
          /\ Up(q, k + 1) = Append(Up(q, k), q[k + 1])
    BY <2>1, UpNext
  <2>3. k + 1 \in S
    BY <1>4, <2>1, <2>2
  <2> QED BY <1>3, <2>1, <2>3
<1> QED BY <1>4

-----------------------------------------------------------------------------
(* U is in all what the sets F[x] hold, and W a copy of it by their sizes. *)
InAll(B, F, c, U, W) ==
  /\ \A y : y \in U <=> \E x \in B : y \in F[x]
  /\ \A w : w \in W <=> \E x \in B : \E i \in 1 .. c[x] : w = <<x, i>>
  /\ \A x \in B : c[x] = Cardinality(F[x])
  /\ \A x \in B, z \in B : x # z => F[x] \cap F[z] = {}

(* Sets that are disjoint have as many elements in all as their sizes say. *)
LEMMA DisjointUnion ==
  ASSUME NEW B, NEW F, NEW c, NEW U, NEW W, IsFiniteSet(U), InAll(B, F, c, U, W)
  PROVE  Cardinality(W) = Cardinality(U)
<1>a. /\ \A y : y \in U <=> \E x \in B : y \in F[x]
      /\ \A w : w \in W <=> \E x \in B : \E i \in 1 .. c[x] : w = <<x, i>>
      /\ \A x \in B : c[x] = Cardinality(F[x])
      /\ \A x \in B, z \in B : x # z => F[x] \cap F[z] = {}
  BY DEF InAll
<1>1. ASSUME NEW x \in B
      PROVE  \E f \in [1 .. c[x] -> F[x]] :
               /\ \A i, j \in 1 .. c[x] : f[i] = f[j] => i = j
               /\ \A y \in F[x] : \E i \in 1 .. c[x] : f[i] = y
  <2>1. F[x] \in SUBSET U
    BY <1>a
  <2>2. IsFiniteSet(F[x])
    BY <2>1, FS_Subset
  <2>3. ExistsBijection(1 .. Cardinality(F[x]), F[x])
    BY <2>2, FS_CardinalityType
  <2>4. c[x] = Cardinality(F[x])
    BY <1>a
  <2>5. PICK f : f \in Bijection(1 .. c[x], F[x])
    BY <2>3, <2>4 DEF ExistsBijection
  <2>6. f \in [1 .. c[x] -> F[x]]
    BY <2>5 DEF Bijection, Injection
  <2>7. \A i, j \in 1 .. c[x] : f[i] = f[j] => i = j
    BY <2>5, <2>6 DEF Bijection, Injection, IsInjective
  <2>8. \A y \in F[x] : \E i \in 1 .. c[x] : f[i] = y
    BY <2>5 DEF Bijection, Surjection
  <2> QED BY <2>6, <2>7, <2>8
<1> DEFINE Lists(x, g) ==
             /\ g \in [1 .. c[x] -> F[x]]
             /\ \A i, j \in 1 .. c[x] : g[i] = g[j] => i = j
             /\ \A y \in F[x] : \E i \in 1 .. c[x] : g[i] = y
           f == [x \in B |-> CHOOSE g : Lists(x, g)]
<1>b. \A x \in B : \E g : Lists(x, g)
  BY <1>1
<1>c. \A x \in B : Lists(x, f[x])
  <2> HIDE DEF Lists
  <2> QED BY <1>b
<1>2. \A x \in B : /\ f[x] \in [1 .. c[x] -> F[x]]
                   /\ \A i, j \in 1 .. c[x] : f[x][i] = f[x][j] => i = j
                   /\ \A y \in F[x] : \E i \in 1 .. c[x] : f[x][i] = y
  BY <1>c
<1> HIDE DEF f
<1>3. \A w \in W : w[1] \in B /\ w[2] \in 1 .. c[w[1]] /\ w = <<w[1], w[2]>>
  BY <1>a
<1>4. \A x \in B : \A i \in 1 .. c[x] : <<x, i>> \in W
  BY <1>a
<1>5. \A y \in U : \E x \in B : y \in F[x]
  BY <1>a
<1>6. \A x \in B : \A y \in F[x] : y \in U
  BY <1>a
<1>0. \A x \in B, z \in B : x # z => F[x] \cap F[z] = {}
  BY <1>a
<1>f. ASSUME NEW w \in W
      PROVE  f[w[1]][w[2]] \in F[w[1]] /\ f[w[1]][w[2]] \in U
  <2>1. w[1] \in B /\ w[2] \in 1 .. c[w[1]]
    BY <1>3
  <2>2. f[w[1]] \in [1 .. c[w[1]] -> F[w[1]]]
    BY <1>2, <2>1
  <2>3. f[w[1]][w[2]] \in F[w[1]]
    BY <2>1, <2>2
  <2> QED BY <1>6, <2>1, <2>3
<1> DEFINE b == [w \in W |-> f[w[1]][w[2]]]
<1>7. b \in [W -> U]
  BY <1>f
<1>8. \A w \in W : b[w] = f[w[1]][w[2]] /\ b[w] \in F[w[1]]
  BY <1>f
<1> HIDE DEF b
<1>9. ASSUME NEW w \in W, NEW u \in W, b[w] = b[u]
      PROVE  w = u
  <2>1. w[1] = u[1]
    BY <1>0, <1>3, <1>8, <1>9
  <2>2. w[2] = u[2]
    BY <1>2, <1>3, <1>8, <1>9, <2>1
  <2> QED BY <1>3, <2>1, <2>2
<1>10. ASSUME NEW y \in U
       PROVE  \E w \in W : b[w] = y
  <2>1. PICK x \in B : y \in F[x]
    BY <1>5
  <2>2. PICK i \in 1 .. c[x] : f[x][i] = y
    BY <1>2, <2>1
  <2>3. <<x, i>> \in W
    BY <1>4
  <2>4. b[<<x, i>>] = y
    BY <1>8, <2>2, <2>3
  <2> QED BY <2>3, <2>4
<1>11. ExistsBijection(W, U)
  BY <1>7, <1>9, <1>10 DEF ExistsBijection, Bijection, Injection, IsInjective, Surjection
<1>12. ExistsBijection(U, W)
  BY <1>11, Fun_ExistsBijSymmetric
<1>14. Cardinality(W) = Cardinality(U)
  BY <1>12, FS_Bijection
<1> QED BY <1>14

(* The paths of a tree. *)
LEMMA ShapePaths ==
  ASSUME NEW t, Shape(t)
  PROVE  /\ <<>> \in DOMAIN t /\ IsFiniteSet(DOMAIN t)
         /\ \A p \in DOMAIN t :
              /\ p \in Seq(Elements) /\ Nodes(p) \subseteq DOMAIN t
              /\ t[p] \in NodeType
              /\ \A k \in 0 .. Len(p) : Up(p, k) \in DOMAIN t
              /\ \A k \in 0 .. Len(p) - 1 : Inner(t, Up(p, k))
<1> SUFFICES ASSUME NEW p \in DOMAIN t
             PROVE  /\ p \in Seq(Elements)
                    /\ t[p] \in NodeType
                    /\ \A k \in 0 .. Len(p) : Up(p, k) \in DOMAIN t
                    /\ \A k \in 0 .. Len(p) - 1 : Inner(t, Up(p, k))
  BY DEF Nodes, Shape
<1>1. p \in Seq(Elements) /\ Len(p) \in Nat
  BY DEF Shape
<1>2. Up(p, Len(p)) = p
  BY <1>1, UpAll
<1>3. \A k \in 0 .. Len(p) - 1 : Up(p, k) \in DOMAIN t /\ Inner(t, Up(p, k))
  BY DEF Shape
<1>4. \A k \in 0 .. Len(p) : k = Len(p) \/ k \in 0 .. Len(p) - 1
  BY <1>1
<1>5. t[p] \in NodeType
  BY DEF Shape
<1> QED BY <1>1, <1>2, <1>3, <1>4, <1>5

(* The node beside p that a path goes through. *)
LEMMA LeavesAt ==
  ASSUME NEW t, Shape(t), NEW p \in DOMAIN t, NEW q \in Nodes(p),
         NEW y \in DOMAIN t, y \notin Nodes(p), IsPrefix(q, y)
  PROVE  \E x \in Beside(t, p, q) : IsPrefix(x, y)
<1>1. /\ p \in Seq(Elements) /\ y \in Seq(Elements) /\ Nodes(p) \subseteq Seq(Elements)
      /\ Len(y) \in Nat
  BY ShapePaths, NodesOf
<1> DEFINE S == {k \in 0 .. Len(y) : Up(y, k) \notin Nodes(p)}
<1>2. S \in SUBSET Nat /\ Len(y) \in S
  BY <1>1, UpAll
<1>3. PICK k \in S : \A j \in S : k <= j
  BY <1>2, LeastNatural
<1>4. k \in 0 .. Len(y) /\ k # 0
  BY <1>1, UpAll, NodesOf
<1> DEFINE x == Up(y, k)
<1>5. x \in Seq(Elements) /\ Len(x) = k /\ k \in Nat /\ x # <<>>
  BY <1>1, <1>4, UpIs
<1>6. Front(x) = Up(x, k - 1) /\ k - 1 \in 0 .. k
  BY <1>5, FrontIs
<1>7. Front(x) = Up(y, k - 1) /\ k - 1 \in 0 .. Len(y)
  BY <1>1, <1>4, <1>6, UpUp
<1>8. Front(x) \in Nodes(p)
  <2>1. k - 1 \notin S
    BY <1>3, <1>4
  <2> QED BY <1>7, <2>1
<1>9. IsPrefix(q, Front(x))
  <2>1. q \in Seq(Elements) /\ Len(q) \in 0 .. Len(y) /\ q = Up(y, Len(q))
    BY <1>1, PrefixIs
  <2>2. Len(q) \notin S
    BY <2>1
  <2>3. Len(q) < k
    <3> SUFFICES ASSUME k <= Len(q) PROVE FALSE
      BY <2>1, <1>4
    <3>1. k \in 0 .. Len(q) /\ x = Up(q, k)
      BY <1>1, <1>4, <2>1, UpUp
    <3>2. x \in Nodes(q)
      BY <3>1 DEF Nodes
    <3>3. Nodes(q) \subseteq Nodes(p)
      BY <1>1, NodesOf
    <3> QED BY <1>3, <3>2, <3>3
  <2>4. Len(q) \in 0 .. k - 1
    BY <2>1, <2>3, <1>4
  <2>5. Up(Up(y, k - 1), Len(q)) = Up(y, Len(q))
    BY <1>1, <1>7, <2>4, UpUp
  <2>6. Front(x) \in Seq(Elements) /\ Len(Front(x)) = k - 1
    <3>1. y \in Seq(Elements) /\ k - 1 \in 0 .. Len(y)
      BY <1>1, <1>7
    <3>2. Up(y, k - 1) \in Seq(Elements) /\ Len(Up(y, k - 1)) = k - 1
      BY ONLY <3>1, UpIs
    <3> QED BY <1>7, <3>2
  <2> QED BY <1>1, <1>7, <2>1, <2>4, <2>5, <2>6, PrefixIs
<1>10. x \in DOMAIN t /\ x \notin Nodes(p)
  BY <1>3, <1>4, ShapePaths
<1>11. IsPrefix(x, y)
  BY <1>1, <1>4, <1>5, PrefixIs
<1> HIDE DEF x
<1> QED BY <1>8, <1>9, <1>10, <1>11 DEF Beside

(* No path goes through two of them. *)
LEMMA LeavesOnce ==
  ASSUME NEW t, Shape(t), NEW p \in DOMAIN t, NEW q \in Nodes(p),
         NEW x \in Beside(t, p, q), NEW z \in Beside(t, p, q),
         NEW y \in DOMAIN t, IsPrefix(x, y), IsPrefix(z, y), Len(x) <= Len(z)
  PROVE  x = z
<1>1. /\ p \in Seq(Elements) /\ y \in Seq(Elements) /\ x \in Seq(Elements)
      /\ z \in Seq(Elements) /\ Len(y) \in Nat
  BY ShapePaths DEF Beside
<1>2. Len(x) \in 0 .. Len(y) /\ x = Up(y, Len(x)) /\ Len(z) \in 0 .. Len(y)
        /\ z = Up(y, Len(z))
  BY <1>1, PrefixIs
<1>3. Len(x) \in 0 .. Len(z) /\ x = Up(z, Len(x))
  BY <1>1, <1>2, UpUp
<1>4. x \notin Nodes(p) /\ z \notin Nodes(p) /\ Front(z) \in Nodes(p)
  BY DEF Beside
<1>5. z # <<>>
  BY <1>1, <1>4, NodesOf
<1>6. Front(z) = Up(z, Len(z) - 1) /\ Len(z) - 1 \in 0 .. Len(z)
  BY <1>1, <1>5, FrontIs
<1>7. ASSUME Len(x) # Len(z) PROVE FALSE
  <2>1. Len(x) \in 0 .. Len(z) - 1
    BY <1>3, <1>7
  <2>2. Up(Front(z), Len(x)) = x /\ Len(Front(z)) = Len(z) - 1
    <3>1. z \in Seq(Elements) /\ Len(z) - 1 \in 0 .. Len(z)
      BY <1>1, <1>6
    <3>2. Up(Up(z, Len(z) - 1), Len(x)) = Up(z, Len(x))
      BY ONLY <3>1, <2>1, UpUp
    <3>3. Len(Up(z, Len(z) - 1)) = Len(z) - 1
      BY ONLY <3>1, UpIs
    <3> QED BY <1>3, <1>6, <3>2, <3>3
  <2>3. x \in Nodes(Front(z))
    BY <2>1, <2>2 DEF Nodes
  <2> QED BY <1>1, <1>4, <2>3, NodesOf
<1> QED BY <1>1, <1>2, <1>7

(* What update_unexplored adds up for a node of a path is how many nodes that  *)
(* are not explored there are below it: the last one of the path, and those   *)
(* below the nodes beside it.                                                 *)
LEMMA Counts ==
  ASSUME NEW t, Shape(t), NEW p \in DOMAIN t, NEW q \in Nodes(p),
         \A x \in Beside(t, p, q) : Exact(t, x)
  PROVE  /\ Own(t, p) + Together(t, Beside(t, p, q)) = Cardinality(Frontier(t, q))
         /\ Own(t, p) + Together(t, Beside(t, p, q)) \in Nat
<1> DEFINE B == Beside(t, p, q)
           F == [x \in B |-> Frontier(t, x)]
           c == [x \in B |-> t[x].unexplored]
           U == UNION {F[x] : x \in B}
           O == IF t[p].node = "Not_explored" THEN {p} ELSE {}
<1>1. /\ p \in Seq(Elements) /\ q \in Seq(Elements) /\ q \in DOMAIN t
      /\ \A x \in DOMAIN t : x \in Seq(Elements) /\ Nodes(x) \subseteq DOMAIN t
  BY ShapePaths, NodesOf
<1>2. B \subseteq DOMAIN t
  BY DEF Beside
<1>3. U \in SUBSET DOMAIN t /\ IsFiniteSet(DOMAIN t)
  BY ShapePaths DEF Frontier
<1>4. IsFiniteSet(U)
  BY <1>3, FS_Subset
<1>5. \A x \in B : c[x] = Cardinality(F[x])
  BY DEF Exact
<1>6. ASSUME NEW x \in B, NEW z \in B, x # z
      PROVE  F[x] \cap F[z] = {}
  <2> SUFFICES ASSUME NEW y \in F[x] \cap F[z] PROVE FALSE
    OBVIOUS
  <2>1. y \in DOMAIN t /\ IsPrefix(x, y) /\ IsPrefix(z, y)
    BY DEF Frontier
  <2>2. Len(x) \in Nat /\ Len(z) \in Nat
    BY <1>1, <1>2
  <2>3. Len(x) <= Len(z) \/ Len(z) <= Len(x)
    BY <2>2
  <2>4. x \in Beside(t, p, q) /\ z \in Beside(t, p, q)
    OBVIOUS
  <2> QED BY <1>6, <2>1, <2>3, <2>4, LeavesOnce
<1>7. Together(t, B) = Cardinality(U)
  <2> DEFINE W == UNION {{x} \X (1 .. t[x].unexplored) : x \in B}
  <2>1. \A y : y \in U <=> \E x \in B : y \in F[x]
    OBVIOUS
  <2>2. \A w : w \in W <=> \E x \in B : \E i \in 1 .. c[x] : w = <<x, i>>
    OBVIOUS
  <2>3. \A x \in B, z \in B : x # z => F[x] \cap F[z] = {}
    BY <1>6
  <2>4. Cardinality(W) = Cardinality(U)
    <3> HIDE DEF F, c, B, U, W
    <3>1. InAll(B, F, c, U, W)
      BY <1>5, <2>1, <2>2, <2>3 DEF InAll
    <3> QED BY <1>4, <3>1, DisjointUnion
  <2> QED BY <2>4 DEF Together
<1>8. Frontier(t, q) = O \cup U
  <2>1. ASSUME NEW y \in Frontier(t, q) PROVE y \in O \cup U
    <3>1. y \in DOMAIN t /\ IsPrefix(q, y) /\ t[y].node = "Not_explored"
      BY DEF Frontier
    <3>2. CASE y \in Nodes(p)
      <4>1. Len(y) \in 0 .. Len(p) /\ y = Up(p, Len(y))
              /\ (y # p => Len(y) \in 0 .. Len(p) - 1)
        BY <1>1, <3>2, NodesOf
      <4>2. y # p => Inner(t, y)
        BY <4>1, ShapePaths
      <4> QED BY <3>1, <4>2 DEF Inner, Unvisited
    <3>3. CASE y \notin Nodes(p)
      <4>1. PICK x \in Beside(t, p, q) : IsPrefix(x, y)
        BY <3>1, <3>3, LeavesAt
      <4>2. y \in F[x]
        BY <3>1, <4>1 DEF Frontier
      <4> QED BY <4>2
    <3> QED BY <3>2, <3>3
  <2>2. ASSUME NEW y \in O PROVE y \in Frontier(t, q)
    <3>1. y = p /\ t[p].node = "Not_explored" /\ IsPrefix(q, p)
      BY <1>1, PrefixIs
    <3> QED BY <3>1 DEF Frontier
  <2>3. ASSUME NEW x \in B, NEW y \in F[x] PROVE y \in Frontier(t, q)
    <3>1. y \in DOMAIN t /\ IsPrefix(x, y) /\ t[y].node = "Not_explored"
      BY DEF Frontier
    <3>2. IsPrefix(q, Front(x)) /\ x \in DOMAIN t /\ x \in Seq(Elements) /\ x # <<>>
          /\ Front(x) \in Nodes(p)
      <4>1. <<>> \in Nodes(p)
        BY <1>1, NodesOf
      <4> QED BY <1>1, <4>1 DEF Beside
    <3>3. Front(x) \in Nodes(x) /\ Front(x) \in Seq(Elements)
      <4>1. Front(x) = Up(x, Len(x) - 1) /\ Len(x) - 1 \in 0 .. Len(x)
        BY <3>2, FrontIs
      <4>2. Front(x) \in Nodes(x)
        BY <4>1 DEF Nodes
      <4> QED BY <3>2, <4>2, NodesOf
    <3>4. q \in Nodes(Front(x))
      BY <1>1, <3>2, <3>3, PrefixIs
    <3>5. x \in Nodes(y) /\ y \in Seq(Elements)
      BY <1>1, <3>1, <3>2, PrefixIs
    <3>6. Nodes(x) \subseteq Nodes(y) /\ Nodes(Front(x)) \subseteq Nodes(x)
      BY <3>2, <3>3, <3>5, NodesOf
    <3>7. IsPrefix(q, y)
      BY <1>1, <3>4, <3>5, <3>6, PrefixIs
    <3> QED BY <3>1, <3>7 DEF Frontier
  <2> HIDE DEF O, F, B
  <2> QED BY <2>1, <2>2, <2>3
<1>9. O \cap U = {}
  <2> SUFFICES ASSUME NEW y \in O, NEW x \in B, y \in F[x] PROVE FALSE
    OBVIOUS
  <2>1. y = p /\ IsPrefix(x, p) /\ x \notin Nodes(p) /\ x \in Seq(Elements)
    BY <1>1 DEF Frontier, Beside
  <2> QED BY <1>1, <2>1, PrefixIs
<1>10. IsFiniteSet(O) /\ Cardinality(O) = Own(t, p)
  <2>1. IsFiniteSet({}) /\ Cardinality({}) = 0
    BY FS_EmptySet
  <2>2. IsFiniteSet({p}) /\ Cardinality({p}) = 1
    BY FS_Singleton
  <2> QED BY <2>1, <2>2 DEF Own
<1>11. Cardinality(U) \in Nat /\ Cardinality(O) \in Nat
  BY <1>4, <1>10, FS_CardinalityType
<1>12. Cardinality(O \cup U) = Cardinality(O) + Cardinality(U)
  <2> HIDE DEF O, U
  <2>1. Cardinality(O \cup U) = Cardinality(O) + Cardinality(U) - Cardinality(O \cap U)
    BY <1>4, <1>10, FS_Union
  <2>2. Cardinality(O \cap U) = 0
    BY <1>9, FS_EmptySet
  <2> QED BY <1>11, <2>1, <2>2
<1> HIDE DEF O, U
<1> QED BY <1>7, <1>8, <1>10, <1>11, <1>12

-----------------------------------------------------------------------------
(* A tree whose leaves change, or its counts, or what is known of its         *)
(* assertions, keeps its shape.                                               *)
LEMMA ShapeKept ==
  ASSUME NEW t, Shape(t), NEW u, DOMAIN u = DOMAIN t,
         \A x \in DOMAIN t :
           /\ u[x] \in NodeType
           /\ u[x].node # "Assert" => u[x].status = "Unknown"
           /\ Inner(u, x) <=> Inner(t, x)
           /\ Inner(t, x) => u[x].node = t[x].node
  PROVE  Shape(u)
<1>1. /\ <<>> \in DOMAIN u /\ IsFiniteSet(DOMAIN u) /\ DOMAIN u \subseteq Seq(Elements)
  BY DEF Shape
<1>2. ASSUME NEW p \in DOMAIN u
      PROVE  /\ u[p] \in NodeType
             /\ u[p].node # "Assert" => u[p].status = "Unknown"
             /\ \A k \in 0 .. Len(p) - 1 :
                  /\ Up(p, k) \in DOMAIN u /\ Inner(u, Up(p, k))
                  /\ At(Up(p, k)).op # "select_i32" =>
                       p[k + 1] \in Branches(At(Up(p, k)).op)
             /\ Inner(u, p) =>
                  /\ p \in DOMAIN program /\ At(p).op \notin Leaf
                  /\ u[p].node = NodeOf[At(p).op]
                  /\ \A e \in Branches(At(p).op) : Append(p, e) \in DOMAIN u
  <2>1. \A k \in 0 .. Len(p) - 1 :
          /\ Up(p, k) \in DOMAIN t /\ Inner(t, Up(p, k))
          /\ At(Up(p, k)).op # "select_i32" =>
               p[k + 1] \in Branches(At(Up(p, k)).op)
    BY DEF Shape
  <2>2. Inner(t, p) =>
          /\ p \in DOMAIN program /\ At(p).op \notin Leaf
          /\ t[p].node = NodeOf[At(p).op]
          /\ \A e \in Branches(At(p).op) : Append(p, e) \in DOMAIN t
    BY DEF Shape
  <2>3. \A k \in 0 .. Len(p) - 1 : Up(p, k) \in DOMAIN u /\ Inner(u, Up(p, k))
    BY <2>1
  <2>4. Inner(u, p) => Inner(t, p) /\ u[p].node = t[p].node
    OBVIOUS
  <2>5. u[p] \in NodeType /\ (u[p].node # "Assert" => u[p].status = "Unknown")
    OBVIOUS
  <2> QED BY <2>1, <2>2, <2>3, <2>4, <2>5
<1> QED BY <1>1, <1>2 DEF Shape

(* Counts add up to a number. *)
LEMMA TogetherIsNatural ==
  ASSUME NEW t, NEW S, IsFiniteSet(S), \A x \in S : t[x].unexplored \in Nat
  PROVE  Together(t, S) \in Nat
<1> DEFINE T == {{x} \X (1 .. t[x].unexplored) : x \in S}
           f == [x \in S |-> {x} \X (1 .. t[x].unexplored)]
<1>1. f \in Surjection(S, T)
  BY DEF Surjection
<1>2. IsFiniteSet(T)
  BY <1>1, FS_Surjection
<1>3. ASSUME NEW x \in S
      PROVE  IsFiniteSet({x} \X (1 .. t[x].unexplored))
  <2>1. IsFiniteSet({x})
    BY FS_Singleton
  <2>2. 1 \in Int /\ t[x].unexplored \in Int
    OBVIOUS
  <2>3. IsFiniteSet(1 .. t[x].unexplored)
    BY <2>2, FS_Interval
  <2> QED BY <2>1, <2>3, FS_Product
<1>4. IsFiniteSet(UNION T)
  BY <1>2, <1>3, FS_UNION
<1>5. Cardinality(UNION T) \in Nat
  BY <1>4, FS_CardinalityType
<1> QED BY <1>5 DEF Together

(* What update_unexplored does to a tree. *)
LEMMA Updated ==
  ASSUME NEW t, Shape(t), NEW p \in DOMAIN t, NEW u, u = update_unexplored(t, p)
  PROVE  /\ Shape(u) /\ DOMAIN u = DOMAIN t
         /\ \A x \in DOMAIN t : u[x].node = t[x].node /\ u[x].status = t[x].status
         /\ \A x \in DOMAIN t : Frontier(u, x) = Frontier(t, x)
         /\ \A x \in DOMAIN t : x \notin Nodes(p) => u[x] = t[x]
         /\ \A x \in DOMAIN t : x \notin Nodes(p) /\ Exact(t, x) => Exact(u, x)
         /\ \A q \in Nodes(p) :
              (\A x \in Beside(t, p, q) : Exact(t, x)) => Exact(u, q)
<1>1. Nodes(p) \subseteq DOMAIN t /\ IsFiniteSet(DOMAIN t)
        /\ \A x \in DOMAIN t : t[x] \in NodeType
  BY ShapePaths
<1>2. DOMAIN u = DOMAIN t
  BY DEF update_unexplored
<1>3. \A q \in DOMAIN t : q \notin Nodes(p) => u[q] = t[q]
  BY DEF update_unexplored
<1>4. ASSUME NEW q \in Nodes(p)
      PROVE  /\ u[q].node = t[q].node /\ u[q].status = t[q].status
             /\ u[q].unexplored = Own(t, p) + Together(t, Beside(t, p, q))
             /\ u[q] \in NodeType
  <2>1. u[q] = [t[q] EXCEPT !.unexplored = Own(t, p) + Together(t, Beside(t, p, q))]
    BY <1>1 DEF update_unexplored
  <2>2. t[q] \in NodeType
    BY <1>1
  <2>3. Own(t, p) \in Nat
    BY DEF Own
  <2>4. Beside(t, p, q) \in SUBSET DOMAIN t
    BY DEF Beside
  <2>5. IsFiniteSet(Beside(t, p, q))
    BY <1>1, <2>4, FS_Subset
  <2>6. Together(t, Beside(t, p, q)) \in Nat
    BY <1>1, <2>4, <2>5, TogetherIsNatural DEF NodeType
  <2>7. Own(t, p) + Together(t, Beside(t, p, q)) \in Nat
    BY <2>3, <2>6
  <2> HIDE DEF Together, Beside, Own
  <2> QED BY <2>1, <2>2, <2>7 DEF NodeType
<1>5. \A x \in DOMAIN t : u[x].node = t[x].node /\ u[x].status = t[x].status
                            /\ u[x] \in NodeType
  BY <1>1, <1>3, <1>4
<1>6. ASSUME NEW x \in DOMAIN t PROVE u[x].node # "Assert" => u[x].status = "Unknown"
  BY <1>5 DEF Shape
<1>7. \A x \in DOMAIN t : Inner(u, x) <=> Inner(t, x)
  BY <1>5 DEF Inner
<1>8. Shape(u)
  BY <1>2, <1>5, <1>6, <1>7, ShapeKept
<1>9. \A x \in DOMAIN t : Frontier(u, x) = Frontier(t, x)
  BY <1>2, <1>5 DEF Frontier
<1>10. \A x \in DOMAIN t : x \notin Nodes(p) /\ Exact(t, x) => Exact(u, x)
  BY <1>3, <1>9 DEF Exact
<1>11. ASSUME NEW q \in Nodes(p), \A x \in Beside(t, p, q) : Exact(t, x)
       PROVE  Exact(u, q)
  <2>1. Own(t, p) + Together(t, Beside(t, p, q)) = Cardinality(Frontier(t, q))
    BY <1>11, Counts
  <2>2. q \in DOMAIN t
    BY <1>1
  <2> QED BY <1>4, <1>9, <2>1, <2>2 DEF Exact
<1> QED BY <1>2, <1>3, <1>5, <1>8, <1>9, <1>10, <1>11

-----------------------------------------------------------------------------
(* The run on an input. *)
LEMMA EndIs ==
  ASSUME program \in Programs, NEW v \in Inputs, NEW p, p = EndOf(v)
  PROVE  /\ p \in DOMAIN program /\ p \in Seq(Elements) /\ At(p).op \in Completed
         /\ \A k \in 0 .. Len(p) - 1 :
              /\ Up(p, k) \in DOMAIN program /\ At(Up(p, k)).op \in Ops \ Leaf
              /\ GoesOn(At(Up(p, k)), v) /\ p[k + 1] = At(Up(p, k)).value[v]
              /\ At(Up(p, k)).op # "select_i32" =>
                   p[k + 1] \in Branches(At(Up(p, k)).op)
         /\ ~ GoesOn(At(p), v)
<1>1. /\ \E q \in DOMAIN program : Ends(program, v, q)
      /\ DOMAIN program \subseteq Seq(Elements)
      /\ \A q \in DOMAIN program :
           /\ \A k \in 0 .. Len(q) : Up(q, k) \in DOMAIN program
           /\ program[q].op \in Ops /\ DOMAIN program[q].value = Inputs
           /\ program[q].op \in {"select", "assume", "assert"} =>
                \A w \in Inputs : program[q].value[w] \in {"true", "false"}
           /\ program[q].op = "abort" => True(program[q]) = Inputs
  BY ProgramsAssumption
<1>2. p \in DOMAIN program /\ Ends(program, v, p)
  BY <1>1 DEF EndOf
<1>3. p \in Seq(Elements) /\ Len(p) \in Nat
  BY <1>1, <1>2
<1>4. ~ GoesOn(At(p), v)
  BY <1>2 DEF Ends, At
<1>5. At(p).op \in Completed
  BY <1>1, <1>2, <1>4 DEF At, GoesOn, Completed, Ops, Leaf, True
<1>6. ASSUME NEW k \in 0 .. Len(p) - 1
      PROVE  /\ Up(p, k) \in DOMAIN program /\ At(Up(p, k)).op \in Ops \ Leaf
             /\ GoesOn(At(Up(p, k)), v) /\ p[k + 1] = At(Up(p, k)).value[v]
             /\ At(Up(p, k)).op # "select_i32" =>
                  p[k + 1] \in Branches(At(Up(p, k)).op)
  <2>1. k \in 0 .. Len(p) /\ k + 1 \in 1 .. Len(p) /\ (k + 1) - 1 = k
    BY <1>3
  <2>2. Up(p, k) \in DOMAIN program
    BY <1>1, <1>2, <2>1
  <2>3. GoesOn(At(Up(p, k)), v) /\ p[k + 1] = At(Up(p, k)).value[v]
    BY <1>2, <2>1 DEF Ends, At
  <2> DEFINE i == At(Up(p, k))
  <2>4. /\ i.op \in Ops
        /\ i.op \in {"select", "assume", "assert"} => i.value[v] \in {"true", "false"}
        /\ i.op = "abort" => True(i) = Inputs
    BY <1>1, <2>2 DEF At
  <2>5. GoesOn(i, v) /\ p[k + 1] = i.value[v]
    BY <2>3
  <2> HIDE DEF i
  <2>6. i.op \notin Leaf /\ (i.op \in {"assume", "assert"} => v \in True(i))
    BY <2>5 DEF GoesOn
  <2>7. i.op # "select_i32" => p[k + 1] \in Branches(i.op)
    BY <2>4, <2>5, <2>6 DEF Branches, True, Ops, Leaf
  <2> QED BY <2>2, <2>3, <2>4, <2>6, <2>7 DEF i
<1> QED BY <1>2, <1>3, <1>4, <1>5, <1>6

(* Where a run on a model of a node's path condition ends: below the node, or *)
(* above it at an assertion that fails.                                       *)
LEMMA Lands ==
  ASSUME program \in Programs, NEW t, Shape(t), NEW q \in DOMAIN t,
         NEW v \in Inputs, v \in Models(q), NEW p, p = EndOf(v)
  PROVE  q \in Nodes(p) \/ (p \in Nodes(q) \ {q} /\ At(p).op = "assert")
<1>1. /\ p \in DOMAIN program /\ p \in Seq(Elements) /\ At(p).op \in Completed
      /\ \A k \in 0 .. Len(p) - 1 :
           /\ Up(p, k) \in DOMAIN program /\ At(Up(p, k)).op \in Ops \ Leaf
           /\ GoesOn(At(Up(p, k)), v) /\ p[k + 1] = At(Up(p, k)).value[v]
           /\ At(Up(p, k)).op # "select_i32" =>
                p[k + 1] \in Branches(At(Up(p, k)).op)
      /\ ~ GoesOn(At(p), v)
  BY EndIs
<1>2. q \in Seq(Elements) /\ Len(q) \in Nat /\ Len(p) \in Nat
  BY <1>1, ShapePaths
<1>3. PICK k \in 0 .. Len(p) : /\ k \in 0 .. Len(q) /\ Up(p, k) = Up(q, k)
                               /\ k = Len(p) \/ k = Len(q) \/ p[k + 1] # q[k + 1]
  BY <1>1, <1>2, Parting
<1>4. CASE k = Len(q)
  <2>1. q = Up(p, k)
    BY <1>2, <1>3, <1>4, UpAll
  <2> QED BY <1>3, <2>1 DEF Nodes
<1>5. CASE k # Len(q)
  <2>1. k \in 0 .. Len(q) - 1 /\ k + 1 \in 1 .. Len(q) /\ (k + 1) - 1 = k
    BY <1>2, <1>3, <1>5
  <2> DEFINE i == At(Up(q, k))
  <2>2. v \in Allows(i, q[k + 1])
    BY <2>1 DEF Models
  <2>3. i.op \notin Leaf /\ (i.op # "select_i32" => q[k + 1] \in Branches(i.op))
    <3>1. Up(q, k) \in DOMAIN t /\ Inner(t, Up(q, k))
          /\ (At(Up(q, k)).op # "select_i32" => q[k + 1] \in Branches(At(Up(q, k)).op))
      BY <2>1 DEF Shape
    <3>2. At(Up(q, k)).op \notin Leaf
      BY <3>1 DEF Shape
    <3> QED BY <3>1, <3>2
  <2>4. CASE k = Len(p)
    <3>1. p = Up(q, k)
      BY <1>1, <1>3, <2>4, UpAll
    <3>2. i = At(p)
      BY <3>1
    <3> HIDE DEF i
    <3>3. i.op \in {"assume", "assert"} /\ v \notin True(i)
      BY <1>1, <2>3, <3>2 DEF GoesOn
    <3>4. i.op # "assume"
      <4> SUFFICES ASSUME i.op = "assume" PROVE FALSE
        OBVIOUS
      <4>1. q[k + 1] = "true"
        BY <2>3 DEF Branches
      <4>2. i.value[v] = q[k + 1]
        BY <2>2 DEF Allows
      <4> QED BY <3>3, <4>1, <4>2 DEF True
    <3>5. p \in Nodes(q)
      BY <1>3, <3>1 DEF Nodes
    <3>6. p # q
      BY <1>5, <2>4
    <3> QED BY <3>2, <3>3, <3>4, <3>5, <3>6
  <2>5. CASE k # Len(p)
    <3>1. k \in 0 .. Len(p) - 1
      BY <1>2, <1>3, <2>5
    <3>2. Up(p, k) = Up(q, k) /\ p[k + 1] # q[k + 1]
      BY <1>3, <1>5, <2>5
    <3>3. i.op \in Ops \ Leaf /\ GoesOn(i, v) /\ p[k + 1] = i.value[v]
      BY <1>1, <3>1, <3>2
    <3> HIDE DEF i
    <3>4. i.op # "assert"
      <4> SUFFICES ASSUME i.op = "assert" PROVE FALSE
        OBVIOUS
      <4>1. i.value[v] = "true"
        BY <3>3 DEF GoesOn, True
      <4>2. q[k + 1] = "true"
        BY <2>3 DEF Branches
      <4> QED BY <3>2, <3>3, <4>1, <4>2
    <3>5. i.op # "abort"
      BY <2>2 DEF Allows
    <3>6. i.value[v] = q[k + 1]
      BY <2>2, <3>4, <3>5 DEF Allows
    <3> QED BY <3>2, <3>3, <3>6
  <2> QED BY <2>4, <2>5
<1> QED BY <1>4, <1>5

(* What follows a node that is not inner is not in the tree. *)
LEMMA BelowLeaf ==
  ASSUME NEW t, Shape(t), NEW q \in DOMAIN t, ~Inner(t, q),
         NEW p \in DOMAIN t, q \in Nodes(p)
  PROVE  p = q
<1>1. p \in Seq(Elements)
  BY ShapePaths
<1>2. q # p => Len(q) \in 0 .. Len(p) - 1 /\ q = Up(p, Len(q))
  BY <1>1, NodesOf
<1> QED BY <1>2, ShapePaths

(* A node that was chosen for a run on an input. *)
OpenFor(t, q, v) ==
  /\ v \in Models(q)
  /\ t[q].node \in Unvisited \/ (t[q].node = "Assert" /\ v \notin True(At(q)))

(* The run that a node was chosen for keeps the assertions of add_trace. *)
LEMMA RunIsSane ==
  ASSUME program \in Programs, NEW t, Shape(t), NEW q \in DOMAIN t,
         NEW v \in Inputs, OpenFor(t, q, v), NEW p, p = EndOf(v)
  PROVE  /\ Sane(t, p)
         /\ \A x \in Nodes(p) \ {p} : x \in DOMAIN t => Inner(t, x) \/ x = q
         /\ \A x \in Nodes(p) : x \in DOMAIN t => t[x].node \notin Closed
         /\ p \in DOMAIN t /\ At(p).op # "assert" => p = q /\ t[q].node \in Unvisited
         /\ At(p).op # "assert" => q \in Nodes(p) /\ t[q].node \in Unvisited
<1>1. /\ p \in Seq(Elements) /\ ~ GoesOn(At(p), v)
      /\ \A k \in 0 .. Len(p) - 1 : GoesOn(At(Up(p, k)), v)
  BY EndIs
<1>2. q \in Nodes(p) \/ (p \in Nodes(q) \ {q} /\ At(p).op = "assert")
  BY Lands DEF OpenFor
<1>3. q \in Seq(Elements) /\ Nodes(q) \subseteq DOMAIN t
      /\ \A k \in 0 .. Len(q) - 1 : Inner(t, Up(q, k))
  BY ShapePaths
<1>4. ASSUME NEW x \in Nodes(q), x # q PROVE Inner(t, x)
  <2>1. Len(x) \in 0 .. Len(q) - 1 /\ x = Up(q, Len(x))
    BY <1>3, <1>4, NodesOf
  <2> QED BY <1>3, <2>1
<1>5. t[q].node = "Assert" => Inner(t, q) /\ At(q).op = "assert"
  <2> SUFFICES ASSUME t[q].node = "Assert" PROVE Inner(t, q) /\ At(q).op = "assert"
    OBVIOUS
  <2>1. Inner(t, q)
    BY DEF Inner, Unvisited, Closed
  <2>2. q \in DOMAIN program /\ At(q).op \notin Leaf /\ t[q].node = NodeOf[At(q).op]
    BY <2>1 DEF Shape
  <2>3. At(q).op \in Ops
    BY <2>2, ProgramsAssumption DEF At
  <2>4. At(q).op = "assert"
    BY <2>2, <2>3 DEF NodeOf, Ops, Leaf
  <2> QED BY <2>1, <2>4
<1>6. CASE p \in Nodes(q) \ {q} /\ At(p).op = "assert"
  <2>1. Nodes(p) \subseteq Nodes(q) /\ q \notin Nodes(p)
    <3>1. Nodes(p) \subseteq Nodes(q) /\ Len(p) \in 0 .. Len(q) - 1
      BY <1>3, <1>6, NodesOf
    <3>2. q \in Nodes(p) => Len(q) \in 0 .. Len(p)
      BY <1>1, NodesOf
    <3> QED BY <1>1, <1>3, <3>1, <3>2
  <2>2. \A x \in Nodes(p) : Inner(t, x)
    BY <1>4, <2>1
  <2> QED BY <1>6, <2>2 DEF Inner, Sane
<1>7. CASE q \in Nodes(p) /\ t[q].node = "Assert" /\ v \notin True(At(q))
  <2>1. ~ GoesOn(At(q), v)
    BY <1>5, <1>7 DEF GoesOn
  <2>2. q = p
    <3>1. q # p => Len(q) \in 0 .. Len(p) - 1 /\ q = Up(p, Len(q))
      BY <1>1, <1>7, NodesOf
    <3> QED BY <1>1, <2>1, <3>1
  <2>3. \A x \in Nodes(p) : Inner(t, x)
    BY <1>4, <1>5, <1>7, <2>2
  <2> QED BY <1>5, <1>7, <2>2, <2>3 DEF Inner, Sane
<1>8. CASE q \in Nodes(p) /\ t[q].node \in Unvisited
  <2>1. ASSUME NEW x \in Nodes(p), x \in DOMAIN t, x # q PROVE x \in Nodes(q)
    <3>1. /\ Len(x) \in 0 .. Len(p) /\ x = Up(p, Len(x))
          /\ Len(q) \in 0 .. Len(p) /\ q = Up(p, Len(q))
      BY <1>1, <1>8, NodesOf
    <3>2. CASE Len(q) <= Len(x)
      <4>1. Len(q) \in 0 .. Len(x) /\ Up(x, Len(q)) = q
        BY <1>1, <3>1, <3>2, UpUp
      <4>2. q \in Nodes(x)
        BY <4>1 DEF Nodes
      <4>3. ~Inner(t, q)
        BY <1>8 DEF Inner
      <4> QED BY <2>1, <4>2, <4>3, BelowLeaf
    <3>3. CASE Len(x) <= Len(q)
      <4>1. Len(x) \in 0 .. Len(q) /\ Up(q, Len(x)) = x
        BY <1>1, <3>1, <3>3, UpUp
      <4> QED BY <4>1 DEF Nodes
    <3> QED BY <3>1, <3>2, <3>3
  <2>2. \A x \in Nodes(p) : x \in DOMAIN t => Inner(t, x) \/ x = q
    BY <1>4, <2>1
  <2>3. t[q].node \notin Closed
    BY <1>8 DEF Unvisited, Closed
  <2>4. \A x \in Nodes(p) : x \in DOMAIN t => t[x].node \notin Closed
    BY <2>2, <2>3 DEF Inner
  <2>5. p \in DOMAIN t => p = q
    <3> SUFFICES ASSUME p \in DOMAIN t PROVE p = q
      OBVIOUS
    <3>1. p \in Nodes(p)
      BY <1>1, NodesOf
    <3>2. ~Inner(t, q)
      BY <1>8 DEF Inner
    <3> QED BY <1>8, <3>2, BelowLeaf
  <2>6. p \in DOMAIN t => t[p].node \in Unvisited
    BY <1>8, <2>5
  <2> QED BY <1>8, <2>2, <2>4, <2>5, <2>6 DEF Sane
<1> QED BY <1>2, <1>6, <1>7, <1>8 DEF OpenFor

-----------------------------------------------------------------------------
(* The branches that a run adds. *)
BranchesOf(p) ==
  UNION {{Append(q, e) : e \in Branches(At(q).op)} : q \in Nodes(p) \ {p}}

(* They are finitely many. *)
LEMMA BranchesFinite ==
  ASSUME NEW p \in Seq(Elements)
  PROVE  IsFiniteSet(Nodes(p)) /\ IsFiniteSet(BranchesOf(p))
<1> DEFINE f == [k \in 0 .. Len(p) |-> Up(p, k)]
           D == Nodes(p) \X {"true", "false"}
           g == [z \in D |-> Append(z[1], z[2])]
           R == {g[z] : z \in D}
<1>1. f \in Surjection(0 .. Len(p), Nodes(p))
  BY DEF Surjection, Nodes
<1>2. 0 \in Int /\ Len(p) \in Int
  OBVIOUS
<1>3. IsFiniteSet(0 .. Len(p))
  BY <1>2, FS_Interval
<1>4. IsFiniteSet(Nodes(p))
  BY <1>1, <1>3, FS_Surjection
<1>5. IsFiniteSet({"true", "false"})
  <2>1. IsFiniteSet({"true"}) /\ IsFiniteSet({"false"})
    BY FS_Singleton
  <2>2. {"true"} \cup {"false"} = {"true", "false"}
    OBVIOUS
  <2> QED BY <2>1, <2>2, FS_Union
<1>6. IsFiniteSet(D)
  BY <1>4, <1>5, FS_Product
<1>7. g \in Surjection(D, R)
  <2> HIDE DEF D
  <2> QED BY DEF Surjection
<1>8. IsFiniteSet(R)
  BY <1>6, <1>7, FS_Surjection
<1>9. ASSUME NEW y \in BranchesOf(p) PROVE y \in R
  <2>1. PICK q \in Nodes(p) \ {p} : \E e \in Branches(At(q).op) : y = Append(q, e)
    BY DEF BranchesOf
  <2>2. PICK e \in Branches(At(q).op) : y = Append(q, e)
    BY <2>1
  <2>3. e \in {"true", "false"}
    BY <2>2 DEF Branches
  <2>4. <<q, e>> \in D
    BY <2>3
  <2>5. g[<<q, e>>] = y
    BY <2>2, <2>4
  <2> HIDE DEF D, g
  <2> QED BY <2>4, <2>5
<1>10. BranchesOf(p) \in SUBSET R
  BY <1>9
<1> HIDE DEF R
<1>11. IsFiniteSet(BranchesOf(p))
  BY <1>8, <1>10, FS_Subset
<1> QED BY <1>4, <1>11

(* A run's way through the tree. *)
LEMMA WalkKeepsShape ==
  ASSUME program \in Programs, NEW t, Shape(t), NEW v \in Inputs,
         NEW p, p = EndOf(v), NEW w, w = Walk(t, p),
         \A x \in Nodes(p) \ {p} : x \in DOMAIN t => t[x].node \notin Closed
  PROVE  /\ Shape(w)
         /\ DOMAIN t \subseteq DOMAIN w /\ p \in DOMAIN w
         /\ \A x \in DOMAIN w : x \notin Nodes(p) \ {p} =>
              w[x] = IF x \in DOMAIN t THEN t[x] ELSE fresh_tree
         /\ \A x \in Nodes(p) \ {p} :
              /\ x \in DOMAIN w /\ Inner(w, x) /\ w[x].node = NodeOf[At(x).op]
              /\ w[x].status = IF x \in DOMAIN t THEN t[x].status ELSE "Unknown"
         /\ \A x \in DOMAIN w : x \notin DOMAIN t /\ x \notin Nodes(p) =>
              x # <<>> /\ Front(x) \in Nodes(p) \ {p}
<1>1. /\ p \in DOMAIN program /\ p \in Seq(Elements) /\ At(p).op \in Completed
      /\ \A k \in 0 .. Len(p) - 1 :
           /\ Up(p, k) \in DOMAIN program /\ At(Up(p, k)).op \in Ops \ Leaf
           /\ GoesOn(At(Up(p, k)), v) /\ p[k + 1] = At(Up(p, k)).value[v]
           /\ At(Up(p, k)).op # "select_i32" =>
                p[k + 1] \in Branches(At(Up(p, k)).op)
  BY EndIs
<1>2. /\ <<>> \in DOMAIN t /\ IsFiniteSet(DOMAIN t) /\ DOMAIN t \subseteq Seq(Elements)
      /\ \A x \in DOMAIN t : t[x] \in NodeType
  BY ShapePaths
<1>3. /\ Nodes(p) \subseteq Seq(Elements) /\ p \in Nodes(p) /\ <<>> \in Nodes(p)
      /\ \A x \in Nodes(p) : /\ Len(x) \in 0 .. Len(p) /\ x = Up(p, Len(x))
                             /\ Nodes(x) \subseteq Nodes(p)
                             /\ x # p => Len(x) \in 0 .. Len(p) - 1
  BY <1>1, NodesOf
<1> DEFINE n(x) == IF x \in DOMAIN t THEN t[x] ELSE fresh_tree
<1>4. DOMAIN w = DOMAIN t \cup BranchesOf(p) \cup Nodes(p)
  BY DEF Walk, BranchesOf
<1>w. \A x \in DOMAIN w :
        w[x] = IF x \in Nodes(p) \ {p} /\ n(x).node \in Unvisited
               THEN [n(x) EXCEPT !.node = NodeOf[At(x).op]] ELSE n(x)
  BY DEF Walk, BranchesOf
<1>5. \A x \in DOMAIN w : x \notin Nodes(p) \ {p} =>
        w[x] = IF x \in DOMAIN t THEN t[x] ELSE fresh_tree
  BY <1>w
<1>6. fresh_tree \in NodeType /\ fresh_tree.node = "Not_explored"
      /\ fresh_tree.status = "Unknown"
  BY DEF fresh_tree, NodeType, Unvisited
<1>7. ASSUME NEW x \in Nodes(p) \ {p}
      PROVE  /\ x \in DOMAIN w /\ Inner(w, x) /\ w[x].node = NodeOf[At(x).op]
             /\ w[x].status = IF x \in DOMAIN t THEN t[x].status ELSE "Unknown"
             /\ w[x] \in NodeType
             /\ w[x].node # "Assert" => w[x].status = "Unknown"
  <2>1. At(x).op \in Ops \ Leaf
    BY <1>1, <1>3
  <2>2. NodeOf[At(x).op] \in {"Select", "Select_i32", "Assume", "Assert"}
        /\ NodeOf[At(x).op] \in {NodeOf[op] : op \in DOMAIN NodeOf}
    BY <2>1 DEF NodeOf, Ops, Leaf
  <2>3. n(x) \in NodeType /\ (n(x).node # "Assert" => n(x).status = "Unknown")
    BY <1>2, <1>6 DEF Shape
  <2>4. n(x).status = IF x \in DOMAIN t THEN t[x].status ELSE "Unknown"
    BY <1>6
  <2>5. x \in DOMAIN w
    BY <1>4
  <2>6. w[x] = IF n(x).node \in Unvisited
               THEN [n(x) EXCEPT !.node = NodeOf[At(x).op]] ELSE n(x)
    BY <2>5, <1>w
  <2>7. n(x).node \notin Unvisited => /\ Inner(t, x) /\ n(x).node = NodeOf[At(x).op]
    <3> SUFFICES ASSUME n(x).node \notin Unvisited
                 PROVE  Inner(t, x) /\ n(x).node = NodeOf[At(x).op]
      OBVIOUS
    <3>1. x \in DOMAIN t /\ n(x) = t[x]
      BY <1>6 DEF Unvisited
    <3>2. Inner(t, x)
      BY <3>1 DEF Inner
    <3> QED BY <3>1, <3>2 DEF Shape
  <2>8. n(x).node \in Unvisited => n(x).status = "Unknown"
    BY <2>3 DEF Unvisited
  <2> HIDE DEF n
  <2>9. w[x].node = NodeOf[At(x).op] /\ w[x].status = n(x).status /\ w[x] \in NodeType
    BY <2>2, <2>3, <2>6, <2>7 DEF NodeType
  <2>10. Inner(w, x)
    BY <2>2, <2>9 DEF Inner, Unvisited, Closed
  <2>11. w[x].node # "Assert" => w[x].status = "Unknown"
    BY <2>3, <2>6, <2>7, <2>8, <2>9
  <2> QED BY <2>4, <2>5, <2>9, <2>10, <2>11
<1>8. ASSUME NEW x \in BranchesOf(p)
      PROVE  \E q \in Nodes(p) \ {p} : \E e \in Branches(At(q).op) :
               /\ x = Append(q, e) /\ q \in Seq(Elements) /\ x \in Seq(Elements)
               /\ Len(x) = Len(q) + 1 /\ x[Len(x)] = e
               /\ \A k \in 0 .. Len(q) : Up(x, k) = Up(q, k)
  <2>1. PICK q \in Nodes(p) \ {p} : x \in {Append(q, e) : e \in Branches(At(q).op)}
    BY DEF BranchesOf
  <2>2. PICK e \in Branches(At(q).op) : x = Append(q, e)
    BY <2>1
  <2>3. q \in Seq(Elements) /\ e \in Elements
    BY <1>3, <2>2 DEF Branches, Elements
  <2>4. /\ Append(q, e) \in Seq(Elements) /\ Len(Append(q, e)) = Len(q) + 1
        /\ Append(q, e)[Len(q) + 1] = e
        /\ \A k \in 0 .. Len(q) : Up(Append(q, e), k) = Up(q, k)
    BY <2>3, OneMore
  <2> QED BY <2>2, <2>3, <2>4
<1>9. IsFiniteSet(DOMAIN w)
  <2>1. IsFiniteSet(DOMAIN t \cup BranchesOf(p))
    <3>1. IsFiniteSet(BranchesOf(p))
      BY <1>1, BranchesFinite
    <3> QED BY <1>2, <3>1, FS_Union
  <2>2. IsFiniteSet(Nodes(p))
    BY <1>1, BranchesFinite
  <2>3. IsFiniteSet((DOMAIN t \cup BranchesOf(p)) \cup Nodes(p))
    BY <2>1, <2>2, FS_Union
  <2> QED BY <1>4, <2>3
<1>10. DOMAIN w \subseteq Seq(Elements) /\ <<>> \in DOMAIN w
  BY <1>2, <1>3, <1>4, <1>8
<1>11. ASSUME NEW x \in DOMAIN t, Inner(t, x) PROVE Inner(w, x)
  <2>1. CASE x \in Nodes(p) \ {p}
    BY <1>7, <2>1
  <2>2. CASE x \notin Nodes(p) \ {p}
    BY <1>4, <1>5, <1>11, <2>2 DEF Inner
  <2> QED BY <2>1, <2>2
<1>12. ASSUME NEW x \in DOMAIN w
       PROVE  /\ w[x] \in NodeType
              /\ w[x].node # "Assert" => w[x].status = "Unknown"
  <2>1. CASE x \in Nodes(p) \ {p}
    BY <1>7, <2>1
  <2>2. CASE x \notin Nodes(p) \ {p}
    <3>1. x \in DOMAIN t => (t[x].node # "Assert" => t[x].status = "Unknown")
      BY DEF Shape
    <3> QED BY <1>2, <1>5, <1>6, <2>2, <3>1
  <2> QED BY <2>1, <2>2
<1>13. ASSUME NEW x \in DOMAIN w, NEW k \in 0 .. Len(x) - 1
       PROVE  /\ Up(x, k) \in DOMAIN w /\ Inner(w, Up(x, k))
              /\ At(Up(x, k)).op # "select_i32" =>
                   x[k + 1] \in Branches(At(Up(x, k)).op)
  <2>1. CASE x \in DOMAIN t
    <3>1. Up(x, k) \in DOMAIN t /\ Inner(t, Up(x, k))
          /\ (At(Up(x, k)).op # "select_i32" => x[k + 1] \in Branches(At(Up(x, k)).op))
      BY <2>1 DEF Shape
    <3> QED BY <1>4, <1>11, <3>1
  <2>2. CASE x \in Nodes(p)
    <3>1. /\ Len(x) \in 0 .. Len(p) /\ x = Up(p, Len(x)) /\ Nodes(x) \subseteq Nodes(p)
          /\ x \in Seq(Elements)
      BY <1>3, <2>2
    <3>2. k \in 0 .. Len(x) /\ k + 1 \in 1 .. Len(x) /\ k \in 0 .. Len(p) - 1
            /\ Len(p) \in Nat
      BY <1>1, <3>1
    <3>3. Up(x, k) = Up(p, k) /\ x[k + 1] = p[k + 1]
      <4>1. Len(x) \in 0 .. Len(p) /\ Up(p, Len(x)) = x
        BY <3>1
      <4>2. Up(Up(p, Len(x)), k) = Up(p, k)
        BY <1>1, <3>2, <4>1, UpUp
      <4>3. \A i \in 1 .. Len(x) : Up(p, Len(x))[i] = p[i]
        <5>1. p \in Seq(Elements) /\ Len(x) \in 0 .. Len(p)
          BY <1>1, <4>1
        <5> QED BY ONLY <5>1, UpIs
      <4>4. Up(p, Len(x))[k + 1] = p[k + 1]
        BY <3>2, <4>3
      <4> QED BY ONLY <4>1, <4>2, <4>4
    <3>4. Up(p, k) \in Nodes(p)
      BY <3>2 DEF Nodes
    <3>5. Len(Up(p, k)) = k
      BY <1>1, <3>2, UpIs
    <3>6. Up(p, k) # p
      BY <3>2, <3>5
    <3>7. Up(p, k) \in DOMAIN w /\ Inner(w, Up(p, k))
      BY <1>7, <3>4, <3>6
    <3>8. At(Up(p, k)).op # "select_i32" => p[k + 1] \in Branches(At(Up(p, k)).op)
      BY <1>1, <3>2
    <3> QED BY <3>3, <3>7, <3>8
  <2>3. CASE x \in BranchesOf(p)
    <3>1. PICK q \in Nodes(p) \ {p} : \E e \in Branches(At(q).op) :
            /\ x = Append(q, e) /\ q \in Seq(Elements) /\ x \in Seq(Elements)
            /\ Len(x) = Len(q) + 1 /\ x[Len(x)] = e
            /\ \A j \in 0 .. Len(q) : Up(x, j) = Up(q, j)
      BY <1>8, <2>3
    <3>2. Len(q) \in Nat /\ Up(q, Len(q)) = q
      BY <3>1, UpAll
    <3>3. CASE k = Len(q)
      <4>1. Up(x, k) = q /\ x[k + 1] \in Branches(At(q).op)
        BY <3>1, <3>2, <3>3
      <4> QED BY <1>7, <4>1
    <3>4. CASE k # Len(q)
      <4>1. k \in 0 .. Len(q) - 1 /\ k \in 0 .. Len(q)
        BY <3>1, <3>2, <3>4
      <4>2. /\ Len(q) \in 0 .. Len(p) - 1 /\ q = Up(p, Len(q)) /\ Len(p) \in Nat
            /\ Len(q) \in 0 .. Len(p)
        BY <1>1, <1>3, <3>1
      <4>3. Up(x, k) = Up(p, k)
        BY <1>1, <3>1, <4>1, <4>2, UpUp
      <4>4. x[k + 1] = q[k + 1] /\ q[k + 1] = p[k + 1]
        <5>1. k + 1 \in 1 .. Len(q)
          BY <4>1, <4>2
        <5>2. x[k + 1] = q[k + 1]
          <6>1. Len(q) \in 0 .. Len(x) /\ Up(x, Len(q)) = q
            BY <3>1, <3>2
          <6>2. \A i \in 1 .. Len(q) : Up(x, Len(q))[i] = x[i]
            BY <3>1, <6>1, UpIs
          <6> QED BY <5>1, <6>1, <6>2
        <5>3. q[k + 1] = p[k + 1]
          <6>0. Len(q) \in 0 .. Len(p)
            BY <4>2
          <6>1. \A i \in 1 .. Len(q) : Up(p, Len(q))[i] = p[i]
            <7>1. p \in Seq(Elements)
              BY <1>1
            <7> QED BY ONLY <6>0, <7>1, UpIs
          <6>2. Up(p, Len(q)) = q
            BY <4>2
          <6>3. Up(p, Len(q))[k + 1] = p[k + 1]
            BY <5>1, <6>1
          <6> QED BY ONLY <6>2, <6>3
        <5> QED BY <5>2, <5>3
      <4>5. Up(p, k) \in Nodes(p) /\ Len(Up(p, k)) = k
        BY <1>1, <4>1, <4>2, UpIs DEF Nodes
      <4>6. Up(p, k) # p
        BY <4>1, <4>2, <4>5
      <4>7. Up(p, k) \in DOMAIN w /\ Inner(w, Up(p, k))
        BY <1>7, <4>5, <4>6
      <4>8. k \in 0 .. Len(p) - 1
        BY <4>1, <4>2
      <4>9. At(Up(p, k)).op # "select_i32" => p[k + 1] \in Branches(At(Up(p, k)).op)
        BY <1>1, <4>8
      <4> QED BY <4>3, <4>4, <4>7, <4>9
    <3> QED BY <3>3, <3>4
  <2> QED BY <1>4, <2>1, <2>2, <2>3
<1>14. ASSUME NEW x \in DOMAIN w, Inner(w, x)
       PROVE  /\ x \in DOMAIN program /\ At(x).op \notin Leaf
              /\ w[x].node = NodeOf[At(x).op]
              /\ \A e \in Branches(At(x).op) : Append(x, e) \in DOMAIN w
  <2>1. CASE x \in Nodes(p) \ {p}
    <3>1. x \in DOMAIN program /\ At(x).op \notin Leaf
      BY <1>1, <1>3, <2>1
    <3>2. \A e \in Branches(At(x).op) : Append(x, e) \in BranchesOf(p)
      BY <2>1 DEF BranchesOf
    <3> QED BY <1>4, <1>7, <2>1, <3>1, <3>2
  <2>2. CASE x \notin Nodes(p) \ {p}
    <3>1. x \in DOMAIN t /\ w[x] = t[x]
      BY <1>5, <1>6, <1>14, <2>2 DEF Inner, Unvisited
    <3>2. Inner(t, x)
      BY <1>14, <3>1 DEF Inner
    <3>3. /\ x \in DOMAIN program /\ At(x).op \notin Leaf
          /\ t[x].node = NodeOf[At(x).op]
          /\ \A e \in Branches(At(x).op) : Append(x, e) \in DOMAIN t
      BY <3>1, <3>2 DEF Shape
    <3> QED BY <1>4, <3>1, <3>3
  <2> QED BY <2>1, <2>2
<1>15. Shape(w)
  BY <1>9, <1>10, <1>12, <1>13, <1>14 DEF Shape
<1>16. ASSUME NEW x \in DOMAIN w, x \notin DOMAIN t, x \notin Nodes(p)
       PROVE  x # <<>> /\ Front(x) \in Nodes(p) \ {p}
  <2>1. PICK q \in Nodes(p) \ {p} : \E e \in Branches(At(q).op) :
          /\ x = Append(q, e) /\ q \in Seq(Elements) /\ x \in Seq(Elements)
          /\ Len(x) = Len(q) + 1 /\ x[Len(x)] = e
          /\ \A j \in 0 .. Len(q) : Up(x, j) = Up(q, j)
    BY <1>4, <1>8, <1>16
  <2>2. Len(q) \in Nat /\ Up(q, Len(q)) = q
    BY <2>1, UpAll
  <2>3. x # <<>>
    BY <1>3, <1>16
  <2>4. Front(x) = Up(x, Len(x) - 1)
    BY <2>1, <2>3, FrontIs
  <2>5. Front(x) = q
    BY <2>1, <2>2, <2>4
  <2> QED BY <2>3, <2>5
<1> QED BY <1>3, <1>4, <1>5, <1>7, <1>15, <1>16

-----------------------------------------------------------------------------
(* A node that a run adds beside its path counts for itself; the others that   *)
(* are not on it count what they did.                                          *)
LEMMA BesideExact ==
  ASSUME NEW t, Shape(t), NEW w, Shape(w), DOMAIN t \subseteq DOMAIN w,
         NEW p \in DOMAIN w,
         \A x \in DOMAIN w : x \notin Nodes(p) =>
           w[x] = IF x \in DOMAIN t THEN t[x] ELSE fresh_tree,
         \A x \in DOMAIN w : x \notin DOMAIN t /\ x \notin Nodes(p) =>
           x # <<>> /\ Front(x) \in Nodes(p),
         NEW x \in DOMAIN w, x \notin Nodes(p), x \in DOMAIN t => Exact(t, x)
  PROVE  Exact(w, x)
<1>1. /\ p \in Seq(Elements) /\ x \in Seq(Elements) /\ Nodes(p) \subseteq Seq(Elements)
      /\ \A y \in DOMAIN w : y \in Seq(Elements) /\ Nodes(y) \subseteq DOMAIN w
      /\ \A y \in DOMAIN t : Nodes(y) \subseteq DOMAIN t
  BY ShapePaths, NodesOf
<1>2. ASSUME NEW y \in DOMAIN w, IsPrefix(x, y)
      PROVE  y \notin Nodes(p) /\ x \in Nodes(y)
  <2>1. x \in Nodes(y)
    BY <1>1, <1>2, PrefixIs
  <2>2. y \in Nodes(p) => Nodes(y) \subseteq Nodes(p)
    BY <1>1, NodesOf
  <2> QED BY <2>1, <2>2
<1>3. ASSUME NEW y \in DOMAIN w, IsPrefix(x, y), y \notin DOMAIN t
      PROVE  y = x
  <2>1. y # <<>> /\ Front(y) \in Nodes(p) /\ y \in Seq(Elements)
    BY <1>1, <1>2, <1>3
  <2>2. Front(y) = Up(y, Len(y) - 1) /\ Len(y) - 1 \in 0 .. Len(y)
    BY <2>1, FrontIs
  <2>3. x \in Nodes(y)
    BY <1>2, <1>3
  <2>4. Len(x) \in 0 .. Len(y) /\ x = Up(y, Len(x))
          /\ (x # y => Len(x) \in 0 .. Len(y) - 1)
    BY <2>1, <2>3, NodesOf
  <2>5. ASSUME x # y PROVE FALSE
    <3>1. Len(Front(y)) = Len(y) - 1
      BY <2>1, <2>2, UpIs
    <3>2. Up(Front(y), Len(x)) = Up(y, Len(x))
      BY <2>1, <2>2, <2>4, <2>5, UpUp
    <3>3. x \in Nodes(Front(y))
      BY <2>4, <2>5, <3>1, <3>2 DEF Nodes
    <3>4. Nodes(Front(y)) \subseteq Nodes(p)
      BY <1>1, <2>1, NodesOf
    <3> QED BY <3>3, <3>4
  <2> QED BY <2>5
<1>4. CASE x \in DOMAIN t
  <2>1. ASSUME NEW y PROVE y \in Frontier(w, x) <=> y \in Frontier(t, x)
    <3>1. y \in Frontier(w, x) => y \in Frontier(t, x)
      <4> SUFFICES ASSUME y \in Frontier(w, x) PROVE y \in Frontier(t, x)
        OBVIOUS
      <4>1. y \in DOMAIN w /\ IsPrefix(x, y) /\ w[y].node = "Not_explored"
        BY DEF Frontier
      <4>2. y \in DOMAIN t
        BY <1>3, <1>4, <4>1
      <4>3. w[y] = t[y]
        BY <1>2, <4>1, <4>2
      <4> QED BY <4>1, <4>2, <4>3 DEF Frontier
    <3>2. y \in Frontier(t, x) => y \in Frontier(w, x)
      <4> SUFFICES ASSUME y \in Frontier(t, x) PROVE y \in Frontier(w, x)
        OBVIOUS
      <4>1. y \in DOMAIN t /\ IsPrefix(x, y) /\ t[y].node = "Not_explored"
        BY DEF Frontier
      <4>2. y \in DOMAIN w /\ w[y] = t[y]
        BY <1>2, <4>1
      <4> QED BY <4>1, <4>2 DEF Frontier
    <3> QED BY <3>1, <3>2
  <2>2. Frontier(w, x) = Frontier(t, x)
    <3>1. \A y : y \in Frontier(w, x) <=> y \in Frontier(t, x)
      BY <2>1
    <3> QED BY <3>1
  <2>3. w[x] = t[x]
    BY <1>4
  <2> QED BY <1>4, <2>2, <2>3 DEF Exact
<1>5. CASE x \notin DOMAIN t
  <2>1. w[x] = fresh_tree /\ fresh_tree.node = "Not_explored" /\ fresh_tree.unexplored = 1
    BY <1>5 DEF fresh_tree
  <2>2. ASSUME NEW y \in Frontier(w, x) PROVE y = x
    <3>1. y \in DOMAIN w /\ IsPrefix(x, y)
      BY DEF Frontier
    <3>2. y \notin DOMAIN t
      <4> SUFFICES ASSUME y \in DOMAIN t PROVE FALSE
        OBVIOUS
      <4>1. x \in Nodes(y)
        BY <1>2, <3>1
      <4> QED BY <1>1, <1>5, <4>1
    <3> QED BY <1>3, <3>1, <3>2
  <2>3. x \in Frontier(w, x)
    <3>1. x \in Nodes(x)
      BY <1>1, NodesOf
    <3>2. IsPrefix(x, x)
      BY <1>1, <3>1, PrefixIs
    <3> QED BY <2>1, <3>2 DEF Frontier
  <2>4. Frontier(w, x) = {x}
    BY <2>2, <2>3
  <2>5. Cardinality({x}) = 1
    BY FS_Singleton
  <2> QED BY <2>1, <2>4, <2>5 DEF Exact
<1> QED BY <1>4, <1>5

(* The end of a run. *)
LEMMA Ended ==
  ASSUME program \in Programs, NEW w, Shape(w), NEW p \in DOMAIN w,
         At(p).op \in {"normal", "unreachable"} => w[p].node \in Unvisited,
         \A x \in Nodes(p) \ {p} : w[x].node = NodeOf[At(x).op],
         NEW s, s = SetEnd(w, p)
  PROVE  /\ Shape(s) /\ DOMAIN s = DOMAIN w
         /\ \A x \in DOMAIN w : x # p => s[x].node = w[x].node
         /\ \A x \in DOMAIN w : x \notin Nodes(p) => s[x] = w[x]
         /\ s[p].node = CASE At(p).op = "normal" -> "Explored"
                          [] At(p).op = "unreachable" -> "Unreachable"
                          [] OTHER -> w[p].node
         /\ At(p).op # "assert" => \A x \in DOMAIN w : s[x].status = w[x].status
<1>1. p \in Seq(Elements) /\ \A x \in DOMAIN w : w[x] \in NodeType
  BY ShapePaths
<1> DEFINE m == Up(p, Len(p) - 1)
           marks == At(p).op = "assert" /\ p # <<>> /\ At(m).op = "assert"
           c == CASE At(p).op = "normal" -> [w EXCEPT ![p].node = "Explored"]
                  [] At(p).op = "unreachable" -> [w EXCEPT ![p].node = "Unreachable"]
                  [] OTHER -> w
<1>2. s = IF marks THEN [c EXCEPT ![m].status = "Invalid"] ELSE c
  BY DEF SetEnd
<1>3. /\ DOMAIN c = DOMAIN w /\ \A x \in DOMAIN w : x # p => c[x] = w[x]
      /\ \A x \in DOMAIN w : c[x].status = w[x].status /\ c[x] \in NodeType
      /\ c[p].node = CASE At(p).op = "normal" -> "Explored"
                       [] At(p).op = "unreachable" -> "Unreachable"
                       [] OTHER -> w[p].node
  BY <1>1 DEF NodeType, Closed
<1>4. marks => c = w
  OBVIOUS
<1>5. marks => m \in Nodes(p) /\ m # p /\ m \in DOMAIN w /\ w[m].node = "Assert"
  <2> SUFFICES ASSUME marks
               PROVE  m \in Nodes(p) /\ m # p /\ m \in DOMAIN w /\ w[m].node = "Assert"
    OBVIOUS
  <2>1. p # <<>>
    OBVIOUS
  <2>2. Len(p) - 1 \in 0 .. Len(p) /\ Len(p) \in Nat
    BY <1>1, <2>1, FrontIs
  <2>3. m \in Nodes(p) /\ Len(m) = Len(p) - 1
    BY <1>1, <2>2, UpIs DEF Nodes
  <2>4. m # p
    BY <2>2, <2>3
  <2>5. w[m].node = "Assert"
    BY <2>3, <2>4 DEF NodeOf
  <2> QED BY <2>3, <2>4, <2>5, ShapePaths
<1> HIDE DEF m, c
<1>6. DOMAIN s = DOMAIN w
  BY <1>2, <1>3
<1>7. \A x \in DOMAIN w : /\ s[x].node = c[x].node /\ s[x] \in NodeType
                          /\ s[x].status = IF marks
                               /\ x = m THEN "Invalid" ELSE w[x].status
                          /\ (x = m /\ marks) \/ s[x] = c[x]
  BY <1>2, <1>3 DEF NodeType
<1>8. Inner(w, p) => At(p).op \notin Leaf
  BY DEF Shape
<1>9. \A x \in DOMAIN w : Inner(s, x) <=> Inner(w, x)
  <2>1. \A x \in DOMAIN w : x # p => s[x].node = w[x].node
    BY <1>3, <1>7
  <2>2. Inner(s, p) <=> Inner(w, p)
    <3>1. CASE At(p).op \in {"normal", "unreachable"}
      BY <1>3, <1>7, <1>8, <3>1 DEF Inner, Closed, Leaf
    <3>2. CASE At(p).op \notin {"normal", "unreachable"}
      BY <1>3, <1>7, <3>2 DEF Inner
    <3> QED BY <3>1, <3>2
  <2> QED BY <2>1, <2>2 DEF Inner
<1>10. ASSUME NEW x \in DOMAIN w
       PROVE  /\ s[x].node # "Assert" => s[x].status = "Unknown"
              /\ Inner(w, x) => s[x].node = w[x].node
  <2>1. w[x].node # "Assert" => w[x].status = "Unknown"
    BY DEF Shape
  <2>2. CASE x # p
    BY <1>3, <1>5, <1>7, <2>1, <2>2
  <2>3. CASE x = p
    <3>1. s[p].status = w[p].status
      BY <1>5, <1>7, <2>3
    <3>2. CASE At(p).op \in {"normal", "unreachable"}
      BY <1>8, <2>1, <2>3, <3>1, <3>2 DEF Leaf, Unvisited
    <3>3. CASE At(p).op \notin {"normal", "unreachable"}
      BY <1>3, <1>7, <2>1, <2>3, <3>1, <3>3
    <3> QED BY <3>2, <3>3
  <2> QED BY <2>2, <2>3
<1>11. Shape(s)
  BY <1>6, <1>7, <1>9, <1>10, ShapeKept
<1>12. \A x \in DOMAIN w : x \notin Nodes(p) => s[x] = w[x]
  <2>1. p \in Nodes(p)
    BY <1>1, NodesOf
  <2> QED BY <1>3, <1>5, <1>7, <2>1
<1> QED BY <1>3, <1>6, <1>7, <1>11, <1>12

(* add_trace. *)
LEMMA Added ==
  ASSUME program \in Programs, NEW t, Shape(t), NEW v \in Inputs, NEW p, p = EndOf(v),
         Sane(t, p), \A x \in DOMAIN t : Exact(t, x),
         NEW u, u = add_trace(t, p)
  PROVE  /\ Shape(u) /\ DOMAIN t \subseteq DOMAIN u /\ p \in DOMAIN u
         /\ \A x \in DOMAIN u : Exact(u, x)
         /\ \A x \in DOMAIN u : x \notin Nodes(p) =>
              LET n == IF x \in DOMAIN t THEN t[x] ELSE fresh_tree
              IN  u[x].node = n.node /\ u[x].status = n.status
         /\ \A x \in DOMAIN u : x \notin DOMAIN t /\ x \notin Nodes(p) =>
              x # <<>> /\ Front(x) \in Nodes(p) \ {p}
         /\ \A x \in Nodes(p) \ {p} : x \in DOMAIN u /\ Inner(u, x)
         /\ u[p].node = CASE At(p).op = "normal" -> "Explored"
                          [] At(p).op = "unreachable" -> "Unreachable"
                          [] OTHER -> IF p \in DOMAIN t THEN t[p].node ELSE "Not_explored"
         /\ At(p).op # "assert" =>
              \A x \in DOMAIN u :
                u[x].status = IF x \in DOMAIN t THEN t[x].status ELSE "Unknown"
<1> DEFINE w == Walk(t, p)
           s == SetEnd(w, p)
<1>1. /\ Shape(w)
      /\ DOMAIN t \subseteq DOMAIN w /\ p \in DOMAIN w
      /\ \A x \in DOMAIN w : x \notin Nodes(p) \ {p} =>
           w[x] = IF x \in DOMAIN t THEN t[x] ELSE fresh_tree
      /\ \A x \in Nodes(p) \ {p} :
           /\ x \in DOMAIN w /\ Inner(w, x) /\ w[x].node = NodeOf[At(x).op]
           /\ w[x].status = IF x \in DOMAIN t THEN t[x].status ELSE "Unknown"
      /\ \A x \in DOMAIN w : x \notin DOMAIN t /\ x \notin Nodes(p) =>
           x # <<>> /\ Front(x) \in Nodes(p) \ {p}
  BY WalkKeepsShape DEF Sane
<1>2. fresh_tree.node = "Not_explored" /\ fresh_tree.status = "Unknown"
  BY DEF fresh_tree
<1>3. w[p] = IF p \in DOMAIN t THEN t[p] ELSE fresh_tree
  BY <1>1
<1>4. At(p).op \in {"normal", "unreachable"} => w[p].node \in Unvisited
  BY <1>2, <1>3 DEF Sane, Unvisited
<1> HIDE DEF w
<1>5. /\ Shape(s) /\ DOMAIN s = DOMAIN w
      /\ \A x \in DOMAIN w : x # p => s[x].node = w[x].node
      /\ \A x \in DOMAIN w : x \notin Nodes(p) => s[x] = w[x]
      /\ s[p].node = CASE At(p).op = "normal" -> "Explored"
                       [] At(p).op = "unreachable" -> "Unreachable"
                       [] OTHER -> w[p].node
      /\ At(p).op # "assert" => \A x \in DOMAIN w : s[x].status = w[x].status
  BY <1>1, <1>4, Ended
<1> HIDE DEF s
<1>6. u = update_unexplored(s, p)
  BY DEF add_trace, s, w
<1>7. p \in DOMAIN s /\ p \in Seq(Elements) /\ p \in Nodes(p)
  <2>1. p \in DOMAIN s /\ p \in Seq(Elements)
    BY <1>1, <1>5, ShapePaths
  <2> QED BY <2>1, NodesOf
<1>8. /\ Shape(u) /\ DOMAIN u = DOMAIN s
      /\ \A x \in DOMAIN s : u[x].node = s[x].node /\ u[x].status = s[x].status
      /\ \A x \in DOMAIN s : x \notin Nodes(p) /\ Exact(s, x) => Exact(u, x)
      /\ \A q \in Nodes(p) :
           (\A x \in Beside(s, p, q) : Exact(s, x)) => Exact(u, q)
  BY <1>5, <1>6, <1>7, Updated
<1>9. ASSUME NEW x \in DOMAIN s, x \notin Nodes(p) PROVE Exact(s, x)
  <2>1. /\ \A y \in DOMAIN s : y \notin Nodes(p) =>
             s[y] = IF y \in DOMAIN t THEN t[y] ELSE fresh_tree
        /\ \A y \in DOMAIN s : y \notin DOMAIN t /\ y \notin Nodes(p) =>
             y # <<>> /\ Front(y) \in Nodes(p)
        /\ DOMAIN t \subseteq DOMAIN s
        /\ x \in DOMAIN t => Exact(t, x)
    BY <1>1, <1>5
  <2> QED BY <1>5, <1>7, <1>9, <2>1, BesideExact
<1>10. ASSUME NEW x \in DOMAIN u PROVE Exact(u, x)
  <2>1. CASE x \notin Nodes(p)
    BY <1>8, <1>9, <2>1
  <2>2. CASE x \in Nodes(p)
    <3>1. \A y \in Beside(s, p, x) : Exact(s, y)
      BY <1>9 DEF Beside
    <3> QED BY <1>8, <2>2, <3>1
  <2> QED BY <2>1, <2>2
<1>11. \A x \in DOMAIN u : x \notin Nodes(p) =>
         LET n == IF x \in DOMAIN t THEN t[x] ELSE fresh_tree
         IN  u[x].node = n.node /\ u[x].status = n.status
  BY <1>1, <1>5, <1>8
<1>12. \A x \in Nodes(p) \ {p} : x \in DOMAIN u /\ Inner(u, x)
  BY <1>1, <1>5, <1>8 DEF Inner
<1>13. u[p].node = CASE At(p).op = "normal" -> "Explored"
                     [] At(p).op = "unreachable" -> "Unreachable"
                     [] OTHER -> IF p \in DOMAIN t THEN t[p].node ELSE "Not_explored"
  BY <1>2, <1>3, <1>5, <1>7, <1>8
<1>14. At(p).op # "assert" =>
         \A x \in DOMAIN u :
           u[x].status = IF x \in DOMAIN t THEN t[x].status ELSE "Unknown"
  BY <1>1, <1>2, <1>5, <1>8
<1> QED BY <1>1, <1>5, <1>7, <1>8, <1>10, <1>11, <1>12, <1>13, <1>14

-----------------------------------------------------------------------------
(* A step keeps the program, and what only depends on it. *)
LEMMA SameProgram ==
  ASSUME program' = program
  PROVE  /\ \A p : At(p)' = At(p) /\ EndOf(p)' = EndOf(p) /\ Models(p)' = Models(p)
         /\ \A p : Refuted(p)' = Refuted(p)
         /\ Exhaustible' = Exhaustible
<1>1. \A p : At(p)' = At(p)
  BY DEF At
<1>2. \A p : EndOf(p)' = EndOf(p)
  BY DEF EndOf
<1>3. \A p : Models(p)' = Models(p)
  BY <1>1 DEF Models
<1>4. \A p : Refuted(p)' = Refuted(p)
  BY <1>1 DEF Refuted
<1>5. Exhaustible' = Exhaustible
  BY <1>1, <1>3 DEF Exhaustible
<1> QED BY <1>1, <1>2, <1>3, <1>4, <1>5

(* The shape of a tree depends on nothing else than the program. *)
LEMMA ShapeStep ==
  ASSUME program' = program, Shape(tree')
  PROVE  Shape(tree)'
BY DEF Shape, Inner, At

(* Its counts depend on nothing else. *)
LEMMA ExactStep ==
  \A x : Exact(tree, x)' <=> Exact(tree', x)
BY DEF Exact, Frontier

(* A step that leaves the tree, what was run and the program as they are, and *)
(* forgets nothing of what the solver gave up on.                             *)
LEMMA SettledStep ==
  ASSUME UNCHANGED <<program, tree, ran>>, unknown \subseteq unknown'
  PROVE  \A x : Settled(x) => Settled(x)'
<1>1. \A x : Models(x)' = Models(x) /\ Refuted(x)' = Refuted(x) /\ At(x)' = At(x)
  BY SameProgram
<1> QED BY <1>1 DEF Settled

(* All programs run, and the values below a node of an exhaustible one. *)
LEMMA ExhaustibleRun ==
  ASSUME program \in Programs, Exhaustible, NEW v \in Inputs, NEW p, p = EndOf(v),
         NEW x \in Nodes(p)
  PROVE  v \in Models(x)
<1>1. /\ p \in DOMAIN program /\ p \in Seq(Elements)
      /\ \A k \in 0 .. Len(p) - 1 :
           /\ Up(p, k) \in DOMAIN program /\ p[k + 1] = At(Up(p, k)).value[v]
  BY EndIs
<1>2. /\ Len(x) \in 0 .. Len(p) /\ x = Up(p, Len(x)) /\ Len(p) \in Nat
      /\ x \in Seq(Elements) /\ \A i \in 1 .. Len(x) : x[i] = p[i]
  <2>1. Len(x) \in 0 .. Len(p) /\ x = Up(p, Len(x)) /\ x \in Seq(Elements)
    BY <1>1, NodesOf
  <2>2. \A i \in 1 .. Len(x) : Up(p, Len(x))[i] = p[i]
    BY <1>1, <2>1, UpIs
  <2> QED BY <1>1, <2>1, <2>2
<1>3. ASSUME NEW k \in 1 .. Len(x)
      PROVE  v \in Allows(At(Up(x, k - 1)), x[k])
  <2>1. k - 1 \in 0 .. Len(x) /\ k - 1 \in 0 .. Len(p) - 1 /\ (k - 1) + 1 = k
    BY <1>2
  <2>2. Up(x, k - 1) = Up(p, k - 1)
    BY <1>1, <1>2, <2>1, UpUp
  <2>3. x[k] = At(Up(x, k - 1)).value[v] /\ Up(x, k - 1) \in DOMAIN program
    BY <1>1, <1>2, <2>1, <2>2
  <2>4. At(Up(x, k - 1)).op # "abort"
    BY <2>3 DEF Exhaustible
  <2> QED BY <2>3, <2>4 DEF Allows
<1> QED BY <1>3 DEF Models

(* A branch that a run adds beside its path has a model. *)
LEMMA ExhaustibleBranch ==
  ASSUME program \in Programs, Exhaustible, NEW t, Shape(t), NEW x \in DOMAIN t, x # <<>>,
         NEW v \in Inputs, NEW p, p = EndOf(v), Front(x) \in Nodes(p) \ {p}
  PROVE  Models(x) # {}
<1>1. x \in Seq(Elements) /\ Len(x) \in Nat
  BY ShapePaths
<1> DEFINE q == Front(x)
<1>2. q = Up(x, Len(x) - 1) /\ Len(x) - 1 \in 0 .. Len(x) - 1
        /\ Len(x) - 1 \in 0 .. Len(x)
  BY <1>1, FrontIs
<1> HIDE DEF q
<1>3. /\ q \in DOMAIN program /\ At(q).op \notin Leaf
      /\ At(q).op # "select_i32" => x[Len(x)] \in Branches(At(q).op)
  <2>1. /\ Up(x, Len(x) - 1) \in DOMAIN t /\ Inner(t, Up(x, Len(x) - 1))
        /\ At(Up(x, Len(x) - 1)).op # "select_i32" =>
             x[(Len(x) - 1) + 1] \in Branches(At(Up(x, Len(x) - 1)).op)
    BY <1>2 DEF Shape
  <2>2. q \in DOMAIN program /\ At(q).op \notin Leaf
    BY <1>2, <2>1 DEF Shape
  <2>3. (Len(x) - 1) + 1 = Len(x)
    BY <1>1
  <2> QED BY <1>2, <2>1, <2>2, <2>3
<1>4. At(q).op \in {"select", "assume", "assert"}
  BY <1>3, ProgramsAssumption DEF Exhaustible, At, Ops, Leaf
<1>5. v \in Models(q) /\ GoesOn(At(q), v)
  <2>1. q \in Nodes(p) /\ p \in Seq(Elements) /\ q # p
    BY EndIs DEF q
  <2>2. Len(q) \in 0 .. Len(p) - 1 /\ q = Up(p, Len(q))
    BY <2>1, NodesOf
  <2> QED BY <2>1, <2>2, EndIs, ExhaustibleRun
<1>6. ASSUME NEW u \in Models(q), u \in Allows(At(q), x[Len(x)])
      PROVE  u \in Models(x)
  <2>1. u \in Inputs
    BY DEF Models
  <2>2. ASSUME NEW k \in 1 .. Len(x)
        PROVE  u \in Allows(At(Up(x, k - 1)), x[k])
    <3>1. CASE k = Len(x)
      BY <1>2, <1>6, <3>1
    <3>2. CASE k # Len(x)
      <4>1. k \in 1 .. Len(x) - 1 /\ k - 1 \in 0 .. Len(x) - 1 /\ k \in 0 .. Len(x)
        BY <1>1, <3>2
      <4>2. Len(q) = Len(x) - 1 /\ \A i \in 1 .. Len(x) - 1 : q[i] = x[i]
        BY <1>1, <1>2, UpIs
      <4>3. Up(q, k - 1) = Up(x, k - 1)
        BY <1>1, <1>2, <4>1, UpUp
      <4>4. u \in Allows(At(Up(q, k - 1)), q[k])
        BY <4>1, <4>2 DEF Models
      <4> QED BY <4>1, <4>2, <4>3, <4>4
    <3> QED BY <3>1, <3>2
  <2> QED BY <2>1, <2>2 DEF Models
<1>7. CASE At(q).op = "select"
  <2>1. x[Len(x)] \in {"true", "false"}
    BY <1>3, <1>7 DEF Branches
  <2>2. /\ Models(q) \cap True(At(q)) # {} /\ Models(q) \ True(At(q)) # {}
        /\ \A u \in Inputs : At(q).value[u] \in {"true", "false"}
    BY <1>3, <1>7, ProgramsAssumption DEF Exhaustible, At
  <2>3. CASE x[Len(x)] = "true"
    <3>1. PICK u \in Models(q) : u \in True(At(q))
      BY <2>2
    <3>2. u \in Allows(At(q), x[Len(x)])
      BY <1>7, <2>3, <3>1 DEF Allows, True
    <3> QED BY <1>6, <3>2
  <2>4. CASE x[Len(x)] = "false"
    <3>1. PICK u \in Models(q) : u \notin True(At(q))
      BY <2>2
    <3>2. u \in Inputs /\ At(q).value[u] = "false"
      BY <2>2, <3>1 DEF True, Models
    <3>3. u \in Allows(At(q), x[Len(x)])
      BY <1>7, <2>4, <3>2 DEF Allows
    <3> QED BY <1>6, <3>3
  <2> QED BY <2>1, <2>3, <2>4
<1>8. CASE At(q).op \in {"assume", "assert"}
  <2>1. x[Len(x)] = "true"
    BY <1>3, <1>8 DEF Branches
  <2>2. v \in Allows(At(q), x[Len(x)])
    BY <1>5, <1>8, <2>1 DEF Allows, GoesOn, True
  <2> QED BY <1>5, <1>6, <2>2
<1> QED BY <1>4, <1>7, <1>8

-----------------------------------------------------------------------------
(* The initial states. *)
LEMMA InitInv == Init => ConcolicInv
<1> SUFFICES ASSUME Init PROVE ConcolicInv
  OBVIOUS
<1>1. /\ program \in Programs /\ DOMAIN tree = {<<>>} /\ tree[<<>>] = fresh_tree
      /\ phase = "run" /\ forced = Inputs /\ to_update = <<>> /\ ran = {}
      /\ count_path = 0 /\ verdict = "running" /\ unknown = {}
  BY DEF Init
<1>2. fresh_tree.node = "Not_explored" /\ fresh_tree.unexplored = 1
      /\ fresh_tree.status = "Unknown" /\ fresh_tree \in NodeType
  BY DEF fresh_tree, NodeType, Unvisited
<1>3. <<>> \in Seq(Elements) /\ Len(<<>>) = 0
  OBVIOUS
<1>4. Shape(tree)
  <2>1. IsFiniteSet({<<>>})
    BY FS_Singleton
  <2>2. ~ Inner(tree, <<>>)
    BY <1>1, <1>2 DEF Inner, Unvisited
  <2>3. \A k \in 0 .. Len(<<>>) - 1 : FALSE
    BY <1>3
  <2>4. ASSUME NEW p \in DOMAIN tree
        PROVE  /\ tree[p] \in NodeType
               /\ tree[p].node # "Assert" => tree[p].status = "Unknown"
               /\ \A k \in 0 .. Len(p) - 1 : FALSE
               /\ ~ Inner(tree, p)
    BY <1>1, <1>2, <2>2, <2>3
  <2> QED BY <1>1, <1>3, <2>1, <2>4 DEF Shape
<1>5. Models(<<>>) = Inputs
  BY <1>3 DEF Models
<1>6. Exact(tree, <<>>)
  <2>1. <<>> \in Nodes(<<>>) /\ IsPrefix(<<>>, <<>>)
    BY <1>3, NodesOf, PrefixIs
  <2>2. Frontier(tree, <<>>) = {<<>>}
    BY <1>1, <1>2, <2>1 DEF Frontier
  <2> QED BY <1>1, <1>2, <2>2, FS_Singleton DEF Exact
<1>7. CountsAccounted
  <2>1. to_update \in Seq(DOMAIN tree) /\ Len(to_update) = 0
    BY <1>1
  <2> QED BY <1>1, <1>6, <2>1 DEF CountsAccounted
<1>8. SearchAccounted
  <2>1. Open(<<>>)
    BY <1>1, <1>2, <1>5 DEF Open, Unvisited
  <2> QED BY <1>1, <2>1 DEF SearchAccounted
<1>9. RunsAccounted
  BY <1>1, FS_EmptySet DEF RunsAccounted
<1>10. ExhaustionAccounted
  BY <1>1, <1>5, InputsAssumption DEF ExhaustionAccounted
<1>11. trace \in DOMAIN tree
  BY <1>1 DEF Init
<1> QED BY <1>1, <1>4, <1>7, <1>8, <1>9, <1>10, <1>11 DEF ConcolicInv

(* A run and its path. *)
LEMMA RunInv ==
  ASSUME ConcolicInv, Run
  PROVE  ConcolicInv'
<1>1. /\ phase = "run" /\ \E v \in forced : trace' = EndOf(v)
      /\ count_path' = count_path + 1
      /\ program' = program /\ forced' = forced /\ to_update' = to_update
      /\ unknown' = unknown
  BY DEF Run
<1>2. /\ program \in Programs /\ forced \subseteq Inputs /\ unknown \subseteq Inputs
      /\ Shape(tree)
      /\ CountsAccounted /\ SearchAccounted /\ RunsAccounted /\ ExhaustionAccounted
  BY DEF ConcolicInv
<1>3. PICK v \in forced : trace' = EndOf(v)
  BY <1>1
<1>4. v \in Inputs
  BY <1>2
<1>5. PICK q \in DOMAIN tree : Open(q) /\ \A x \in DOMAIN tree \ {q} : Settled(x)
  BY <1>1, <1>2 DEF SearchAccounted
<1>6. OpenFor(tree, q, v)
  BY <1>5 DEF Open, OpenFor
<1>p. PICK p : p = trace'
  OBVIOUS
<1>7. /\ Sane(tree, p)
      /\ \A x \in Nodes(p) \ {p} : x \in DOMAIN tree => Inner(tree, x) \/ x = q
      /\ \A x \in Nodes(p) : x \in DOMAIN tree => tree[x].node \notin Closed
      /\ p \in DOMAIN tree /\ At(p).op # "assert" => p = q /\ tree[q].node \in Unvisited
      /\ At(p).op # "assert" => q \in Nodes(p) /\ tree[q].node \in Unvisited
  BY <1>2, <1>3, <1>4, <1>6, <1>p, RunIsSane
<1>u. PICK u : u = add_trace(tree, p)
  OBVIOUS
<1>8. /\ tree' = u
      /\ ran' = IF At(p).op = "assume" THEN ran ELSE ran \cup {p}
      /\ phase' = "judge" /\ verdict' = verdict
  <2>1. Sane(tree, trace')
    BY <1>7, <1>p
  <2>2. /\ tree' = add_trace(tree, trace')
        /\ ran' = IF At(trace').op = "assume" THEN ran ELSE ran \cup {trace'}
        /\ phase' = "judge" /\ verdict' = verdict
    BY <2>1 DEF Run, GoOn
  <2> QED BY <1>p, <1>u, <2>2
<1>9. to_update = <<>>
  BY <1>1, <1>2 DEF CountsAccounted
<1>10. \A x \in DOMAIN tree : Exact(tree, x)
  BY <1>2, <1>9 DEF CountsAccounted, Stale
<1>11. /\ Shape(u) /\ DOMAIN tree \subseteq DOMAIN u /\ p \in DOMAIN u
       /\ \A x \in DOMAIN u : Exact(u, x)
       /\ \A x \in DOMAIN u : x \notin Nodes(p) =>
            LET n == IF x \in DOMAIN tree THEN tree[x] ELSE fresh_tree
            IN  u[x].node = n.node /\ u[x].status = n.status
       /\ \A x \in DOMAIN u : x \notin DOMAIN tree /\ x \notin Nodes(p) =>
            x # <<>> /\ Front(x) \in Nodes(p) \ {p}
       /\ \A x \in Nodes(p) \ {p} : x \in DOMAIN u /\ Inner(u, x)
       /\ u[p].node = CASE At(p).op = "normal" -> "Explored"
                        [] At(p).op = "unreachable" -> "Unreachable"
                        [] OTHER -> IF p \in DOMAIN tree THEN tree[p].node ELSE "Not_explored"
       /\ At(p).op # "assert" =>
            \A x \in DOMAIN u :
              u[x].status = IF x \in DOMAIN tree THEN tree[x].status ELSE "Unknown"
  BY <1>2, <1>3, <1>4, <1>7, <1>10, <1>p, <1>u, Added
<1>12. /\ p \in DOMAIN program /\ p \in Seq(Elements) /\ At(p).op \in Completed
  BY <1>2, <1>3, <1>4, <1>p, EndIs
<1>13. p \in Nodes(p) /\ \A x \in DOMAIN tree : Nodes(x) \subseteq DOMAIN tree
  BY <1>2, <1>12, NodesOf, ShapePaths
<1>14. Shape(tree)'
  BY <1>1, <1>8, <1>11, ShapeStep
<1>15. CountsAccounted'
  <2>1. to_update' = <<>> /\ phase' = "judge"
    BY <1>1, <1>8, <1>9
  <2>2. \A x \in DOMAIN tree' : Exact(tree, x)'
    BY <1>8, <1>11, ExactStep
  <2>3. to_update' \in Seq(DOMAIN tree') /\ Len(to_update') = 0
    BY <2>1
  <2> QED BY <2>1, <2>2, <2>3 DEF CountsAccounted
<1>16. ASSUME NEW x \in ran
       PROVE  /\ x \in DOMAIN tree /\ tree[x].node = "Explored" /\ At(x).op = "normal"
              /\ x \notin Nodes(p) /\ u[x].node = "Explored"
  <2>1. x \in DOMAIN tree /\ tree[x].node = "Explored" /\ At(x).op = "normal"
    BY <1>1, <1>2 DEF RunsAccounted
  <2>2. x \notin Nodes(p)
    BY <1>7, <2>1 DEF Closed
  <2> QED BY <1>11, <2>1, <2>2
<1>17. fresh_tree.node = "Not_explored" /\ fresh_tree.status = "Unknown"
  BY DEF fresh_tree
<1>18. ASSUME At(p).op # "assert", NEW x \in DOMAIN u, x # p
       PROVE  Settled(x)'
  <2>1. q \in Nodes(p) /\ tree[q].node \in Unvisited
    BY <1>7, <1>18
  <2>2. Models(x)' = Models(x) /\ Refuted(x)' = Refuted(x) /\ At(x)' = At(x)
    BY <1>1, SameProgram
  <2>3. ran \subseteq ran'
    BY <1>8
  <2>4. CASE x \notin Nodes(p) /\ x \in DOMAIN tree
    <3>1. Settled(x) /\ u[x].node = tree[x].node /\ u[x].status = tree[x].status
      BY <1>5, <1>11, <2>1, <2>4
    <3> QED BY <1>1, <1>8, <2>2, <2>3, <3>1 DEF Settled
  <2>5. CASE x \notin Nodes(p) /\ x \notin DOMAIN tree
    <3>1. u[x].node = "Not_explored"
      BY <1>11, <1>17, <2>5
    <3> QED BY <1>8, <3>1 DEF Settled
  <2>6. CASE x \in Nodes(p)
    <3>1. Inner(u, x)
      BY <1>11, <1>18, <2>6
    <3>2. u[x].node \notin Unvisited \cup Closed
      BY <3>1 DEF Inner
    <3>3. u[x].status = "Unknown" \/ (x \in DOMAIN tree /\ u[x].status = tree[x].status)
      BY <1>11, <1>18
    <3>4. ASSUME u[x].node = "Assert", x \in DOMAIN tree, tree[x].status # "Unknown"
          PROVE  Settled(x) /\ tree[x].node = "Assert"
      <4>1. tree[x].node = "Assert"
        BY <1>2, <3>4 DEF Shape
      <4>2. x # q
        BY <2>1, <4>1 DEF Unvisited
      <4> QED BY <1>5, <3>4, <4>1, <4>2
    <3>5. u[x].node = "Assert" =>
            u[x].status = "Unknown"
              \/ (u[x].status = "Valid"
                   /\ Models(x) \subseteq True(At(x)) \cup unknown)
      BY <3>3, <3>4 DEF Settled
    <3> QED BY <1>1, <1>8, <2>2, <3>2, <3>5 DEF Settled, Unvisited, Closed
  <2> QED BY <2>4, <2>5, <2>6
<1>19. SearchAccounted'
  <2>1. phase' = "judge" /\ trace' = p /\ At(trace)' = At(p)
    BY <1>1, <1>8, <1>p DEF At
  <2>2. trace' \in DOMAIN tree' /\ trace' \in DOMAIN program'
          /\ At(trace)'.op \in Completed
    BY <1>1, <1>8, <1>11, <1>12, <2>1
  <2>3. ASSUME At(p).op = "normal" PROVE \A x \in DOMAIN tree' : Settled(x)'
    <3>1. Settled(p)'
      <4>1. u[p].node = "Explored" /\ p \in ran'
        BY <1>8, <1>11, <2>3
      <4>2. At(p)' = At(p)
        BY <1>1, SameProgram
      <4> QED BY <1>1, <1>8, <1>12, <2>3, <4>1, <4>2 DEF Settled
    <3> QED BY <1>8, <1>18, <2>3, <3>1
  <2>4. ASSUME At(p).op = "assume"
        PROVE  /\ tree'[p].node \in Unvisited
               /\ \A x \in DOMAIN tree' \ {p} : Settled(x)'
    <3>1. u[p].node = IF p \in DOMAIN tree THEN tree[p].node ELSE "Not_explored"
      BY <1>11, <2>4
    <3>2. u[p].node \in Unvisited
      BY <1>7, <2>4, <3>1 DEF Unvisited
    <3> QED BY <1>8, <1>18, <2>4, <3>2
  <2> QED BY <2>1, <2>2, <2>3, <2>4 DEF SearchAccounted
<1>20. RunsAccounted'
  <2>1. phase' = "judge" /\ trace' = p /\ At(trace)' = At(p)
    BY <1>1, <1>8, <1>p DEF At
  <2>2. count_path = Cardinality(ran) /\ ran \subseteq DOMAIN tree /\ count_path \in Nat
    BY <1>1, <1>2 DEF RunsAccounted
  <2>3. IsFiniteSet(ran)
    BY <1>2, <2>2, ShapePaths, FS_Subset
  <2>4. p \notin ran
    BY <1>13, <1>16
  <2>5. Cardinality(ran \cup {p}) = Cardinality(ran) + 1
    BY <2>3, <2>4, FS_AddElement
  <2>6. count_path' \in Nat /\ ran' \subseteq DOMAIN tree'
    BY <1>1, <1>8, <1>11, <2>2
  <2>7. ASSUME NEW x \in ran'
        PROVE  \/ tree'[x].node = "Explored" /\ At(x)'.op = "normal"
               \/ x = p /\ At(x)'.op \in Completed \ {"normal", "assume"}
    <3>1. At(x)' = At(x)
      BY <1>1, SameProgram
    <3>2. CASE x \in ran
      BY <1>8, <1>16, <3>1, <3>2
    <3>3. CASE x \notin ran
      <4>1. x = p /\ At(p).op # "assume"
        BY <1>8, <3>3
      <4>2. At(p).op = "normal" => u[p].node = "Explored"
        BY <1>11
      <4> QED BY <1>8, <1>12, <3>1, <4>1, <4>2
    <3> QED BY <3>2, <3>3
  <2>8. count_path' = Cardinality(ran') + (IF At(p).op = "assume" THEN 1 ELSE 0)
    <3>1. CASE At(p).op = "assume"
      BY <1>1, <1>8, <2>2, <3>1
    <3>2. CASE At(p).op # "assume"
      <4>1. ran' = ran \cup {p} /\ Cardinality(ran') \in Nat
        BY <1>1, <1>8, <2>2, <2>5, <3>2
      <4> QED BY <1>1, <2>2, <2>5, <3>2, <4>1
    <3> QED BY <3>1, <3>2
  <2>9. verdict' = "running"
    BY <1>1, <1>2, <1>8 DEF RunsAccounted
  <2> QED BY <2>1, <2>6, <2>7, <2>8, <2>9 DEF RunsAccounted
<1>21. ExhaustionAccounted'
  <2> SUFFICES ASSUME Exhaustible' PROVE \A x \in DOMAIN u : Models(x)' # {}
    BY <1>2, <1>1, <1>8 DEF ExhaustionAccounted, RunsAccounted
  <2>1. Exhaustible
    BY <1>1, SameProgram
  <2>2. ASSUME NEW x \in DOMAIN u PROVE Models(x) # {}
    <3>1. CASE x \in DOMAIN tree
      BY <1>2, <2>1, <3>1 DEF ExhaustionAccounted
    <3>2. CASE x \in Nodes(p)
      <4>1. v \in Models(x)
        BY <1>2, <1>3, <1>4, <1>p, <2>1, <3>2, ExhaustibleRun
      <4> QED BY <4>1
    <3>3. CASE x \notin DOMAIN tree /\ x \notin Nodes(p)
      <4>1. x # <<>> /\ Front(x) \in Nodes(p) \ {p}
        BY <1>11, <3>3
      <4> QED BY <1>2, <1>3, <1>4, <1>11, <1>p, <2>1, <4>1, ExhaustibleBranch
    <3> QED BY <3>1, <3>2, <3>3
  <2>3. \A x : Models(x)' = Models(x)
    BY <1>1, SameProgram
  <2> QED BY <2>2, <2>3
<1>22. program' \in Programs /\ forced' \subseteq Inputs /\ unknown' \subseteq Inputs
       /\ phase' \in {"run", "judge", "search", "return", "done"}
       /\ trace' \in DOMAIN tree' /\ verdict' = verdict
  BY <1>1, <1>2, <1>8, <1>11, <1>p
<1> QED BY <1>14, <1>15, <1>19, <1>20, <1>21, <1>22 DEF ConcolicInv

(* The verdict on a run. *)
LEMMA JudgeInv ==
  ASSUME ConcolicInv, Judge
  PROVE  ConcolicInv'
<1>1. /\ phase = "judge"
      /\ program' = program /\ tree' = tree /\ trace' = trace /\ to_update' = to_update
      /\ ran' = ran /\ unknown \subseteq unknown'
  BY DEF Judge, AssumeFails, Retry, SomeModel, NoModel, RunsThrough, Fails
<1>2. /\ program \in Programs /\ forced \subseteq Inputs /\ unknown \subseteq Inputs
      /\ Shape(tree)
      /\ CountsAccounted /\ SearchAccounted /\ RunsAccounted /\ ExhaustionAccounted
  BY DEF ConcolicInv
<1>3. /\ \A x : /\ At(x)' = At(x) /\ EndOf(x)' = EndOf(x) /\ Models(x)' = Models(x)
                /\ Refuted(x)' = Refuted(x)
      /\ Exhaustible' = Exhaustible
      /\ \A x : Settled(x) => Settled(x)'
      /\ \A x : Exact(tree, x)' <=> Exact(tree, x)
  <2>1. \A x : Exact(tree, x)' <=> Exact(tree, x)
    BY <1>1, ExactStep
  <2> QED BY <1>1, <2>1, SameProgram, SettledStep
<1>4. At(trace)' = At(trace)
  BY <1>1 DEF At
<1>5. /\ trace \in DOMAIN tree /\ At(trace).op \in Completed
      /\ At(trace).op = "normal" => \A p \in DOMAIN tree : Settled(p)
      /\ At(trace).op = "assume" =>
           /\ tree[trace].node \in Unvisited
           /\ \A p \in DOMAIN tree \ {trace} : Settled(p)
  BY <1>1, <1>2 DEF SearchAccounted
<1>6. /\ count_path \in Nat /\ ran \subseteq DOMAIN tree
      /\ \A p \in ran :
           \/ tree[p].node = "Explored" /\ At(p).op = "normal"
           \/ p = trace /\ At(p).op \in Completed \ {"normal", "assume"}
      /\ count_path = Cardinality(ran) + (IF At(trace).op = "assume" THEN 1 ELSE 0)
      /\ verdict = "running"
  BY <1>1, <1>2 DEF RunsAccounted
<1>7. Cardinality(ran) \in Nat
  BY <1>2, <1>6, ShapePaths, FS_Subset, FS_CardinalityType
<1>8. to_update = <<>> /\ \A p \in DOMAIN tree : Exact(tree, p)
  BY <1>1, <1>2 DEF CountsAccounted, Stale
<1>9. Shape(tree)'
  BY <1>1, <1>2, ShapeStep
<1>10. CountsAccounted'
  <2>1. to_update' \in Seq(DOMAIN tree') /\ Len(to_update') = 0 /\ to_update' = <<>>
    BY <1>1, <1>8
  <2> QED BY <1>1, <1>3, <1>8, <2>1 DEF CountsAccounted
<1>11. ASSUME phase' \in {"run", "search", "done"}, verdict' \in {"running", "Found_bug"}
       PROVE  ExhaustionAccounted'
  <2>1. Exhaustible' => \A p \in DOMAIN tree' : Models(p)' # {}
    BY <1>1, <1>2, <1>3 DEF ExhaustionAccounted
  <2> QED BY <1>11, <2>1 DEF ExhaustionAccounted
<1>12. ASSUME NEW p \in ran, At(trace).op \in {"normal", "assume"}
       PROVE  tree[p].node = "Explored" /\ At(p).op = "normal"
  BY <1>6, <1>12
<1>13. CASE AssumeFails
  <2>s. PICK S : S = Models(trace) \cap True(At(trace))
    OBVIOUS
  <2>1. /\ At(trace).op = "assume"
        /\ count_path' = count_path - 1 /\ verdict' = verdict
        /\ \/ forced' = S /\ S # {} /\ phase' = "run" /\ unknown' = unknown
           \/ forced' = {} /\ phase' = "search" /\ unknown' = unknown \cup S
    BY <1>13, <2>s DEF AssumeFails, Retry, SomeModel, NoModel, GoOn
  <2>2. /\ forced' \subseteq Inputs /\ unknown' \subseteq Inputs
        /\ phase' \in {"run", "search"}
    BY <1>2, <2>1, <2>s DEF Models
  <2>3. RunsAccounted'
    <3>1. count_path' = Cardinality(ran') /\ count_path' \in Nat
      BY <1>1, <1>6, <1>7, <2>1
    <3>2. \A p \in ran' : tree'[p].node = "Explored" /\ At(p)'.op = "normal"
      BY <1>1, <1>3, <1>12, <2>1
    <3> QED BY <1>1, <1>6, <2>1, <2>2, <3>1, <3>2 DEF RunsAccounted
  <2>4. CASE forced' = {}
    <3>1. ASSUME NEW p \in DOMAIN tree' PROVE Settled(p)'
      <4>1. CASE p # trace
        BY <1>1, <1>3, <1>5, <2>1, <4>1
      <4>2. CASE p = trace
        <5>1. Models(p) \subseteq Refuted(p) \cup unknown'
          BY <2>1, <2>4, <2>s, <4>2 DEF Refuted, Models
        <5>2. Models(p)' = Models(p) /\ Refuted(p)' = Refuted(p)
          BY <1>3
        <5> QED BY <1>1, <1>5, <2>1, <4>2, <5>1, <5>2 DEF Settled, Unvisited
      <4> QED BY <4>1, <4>2
    <3>2. SearchAccounted'
      BY <2>1, <2>4, <3>1 DEF SearchAccounted
    <3> QED BY <1>1, <1>2, <1>6, <1>9, <1>10, <1>11, <2>1, <2>2, <2>3, <3>2 DEF ConcolicInv
  <2>5. CASE forced' # {}
    <3>1. Open(trace)'
      <4>1. forced' \subseteq Models(trace)
              /\ Models(trace) \subseteq forced' \cup Refuted(trace)
        BY <2>1, <2>5, <2>s DEF Refuted, Models
      <4>2. Models(trace)' = Models(trace) /\ Refuted(trace)' = Refuted(trace)
        BY <1>1, <1>3, <1>4 DEF Models, Refuted, At
      <4>3. tree'[trace'].node \in Unvisited
        BY <1>1, <1>5, <2>1
      <4> QED BY <4>1, <4>2, <4>3 DEF Open
    <3>2. \A p \in DOMAIN tree' \ {trace'} : Settled(p)'
      BY <1>1, <1>3, <1>5, <2>1
    <3>3. SearchAccounted'
      <4>1. \E q \in DOMAIN tree' : Open(q)' /\ \A p \in DOMAIN tree' \ {q} : Settled(p)'
        <5>1. PICK q : q = trace
          OBVIOUS
        <5>2. Open(q)'
          BY <1>1, <3>1, <5>1 DEF Open, Models, Refuted, At
        <5> QED BY <1>1, <1>5, <3>2, <5>1, <5>2
      <4> QED BY <2>1, <2>2, <2>5, <4>1 DEF SearchAccounted
    <3> QED BY <1>1, <1>2, <1>6, <1>9, <1>10, <1>11, <2>1, <2>2, <2>3, <3>3 DEF ConcolicInv
  <2> QED BY <2>4, <2>5
<1>14. CASE RunsThrough
  <2>1. /\ At(trace).op = "normal" /\ phase' = "search" /\ verdict' = verdict
        /\ forced' = forced /\ unknown' = unknown /\ count_path' = count_path
    BY <1>14 DEF RunsThrough, GoOn
  <2>2. RunsAccounted'
    <3>1. count_path' = Cardinality(ran') /\ count_path' \in Nat
      BY <1>1, <1>6, <1>7, <2>1
    <3>2. \A p \in ran' : tree'[p].node = "Explored" /\ At(p)'.op = "normal"
      BY <1>1, <1>3, <1>12, <2>1
    <3> QED BY <1>1, <1>6, <2>1, <3>1, <3>2 DEF RunsAccounted
  <2>3. SearchAccounted'
    BY <1>1, <1>3, <1>5, <2>1 DEF SearchAccounted
  <2> QED BY <1>1, <1>2, <1>6, <1>9, <1>10, <1>11, <2>1, <2>2, <2>3 DEF ConcolicInv
<1>15. CASE Fails
  <2>1. /\ At(trace).op \in {"trap", "unreachable", "assert"}
        /\ phase' = "done" /\ verdict' = "Found_bug"
        /\ forced' = forced /\ unknown' = unknown /\ count_path' = count_path
    BY <1>15 DEF Fails, End
  <2>2. RunsAccounted'
    <3>1. ASSUME NEW p \in ran'
          PROVE  \/ tree'[p].node = "Explored" /\ At(p)'.op = "normal"
                 \/ p = trace' /\ At(p)'.op \in Completed \ {"normal", "assume"}
      BY <1>1, <1>3, <1>6
    <3> QED BY <1>1, <1>6, <2>1, <3>1 DEF RunsAccounted
  <2>3. SearchAccounted'
    BY <2>1 DEF SearchAccounted
  <2> QED BY <1>1, <1>2, <1>9, <1>10, <1>11, <2>1, <2>2, <2>3 DEF ConcolicInv
<1> QED BY <1>13, <1>14, <1>15 DEF Judge

(* A node that the search marks. *)
LEMMA MarkedIs ==
  ASSUME NEW t, Shape(t), NEW p \in DOMAIN t,
         t[p].node = "Not_explored" \/ (t[p].node = "Assert" /\ t[p].status = "Unknown"),
         NEW node \in {"Unreachable", "Being_explored"}, NEW status \in {"Valid", "Invalid"},
         NEW u, u = Marked(t, p, node, status)
  PROVE  /\ Shape(u) /\ DOMAIN u = DOMAIN t
         /\ \A x \in DOMAIN t : x # p => u[x] = t[x]
         /\ t[p].node = "Not_explored" => u[p].node = node /\ u[p].status = "Unknown"
         /\ t[p].node = "Assert" => u[p].node = "Assert" /\ u[p].status = status
         /\ u[p].unexplored = t[p].unexplored
<1>1. \A x \in DOMAIN t : t[x] \in NodeType
                            /\ (t[x].node # "Assert" => t[x].status = "Unknown")
  BY DEF Shape
<1>2. /\ DOMAIN u = DOMAIN t
      /\ \A x \in DOMAIN t : x # p => u[x] = t[x]
      /\ t[p].node = "Not_explored" => u[p] = [t[p] EXCEPT !.node = node]
      /\ t[p].node # "Not_explored" => u[p] = [t[p] EXCEPT !.status = status]
  BY DEF Marked
<1>3. node \in Unvisited \cup Closed
  BY DEF Unvisited, Closed
<1>4. u[p] \in NodeType /\ (u[p].node # "Assert" => u[p].status = "Unknown")
  <2>1. CASE t[p].node = "Not_explored"
    BY <1>1, <1>2, <1>3, <2>1 DEF NodeType
  <2>2. CASE t[p].node = "Assert"
    BY <1>1, <1>2, <2>2 DEF NodeType
  <2> QED BY <2>1, <2>2
<1>5. /\ t[p].node = "Not_explored" => u[p].node = node /\ u[p].status = "Unknown"
      /\ t[p].node = "Assert" => u[p].node = "Assert" /\ u[p].status = status
      /\ u[p].unexplored = t[p].unexplored
  BY <1>1, <1>2 DEF NodeType
<1>6. \A x \in DOMAIN t : /\ Inner(u, x) <=> Inner(t, x)
                          /\ Inner(t, x) => u[x].node = t[x].node
  BY <1>2, <1>3, <1>5 DEF Inner, Unvisited, Closed
<1>7. Shape(u)
  BY <1>1, <1>2, <1>4, <1>6, ShapeKept
<1> QED BY <1>2, <1>5, <1>7

(* The counts after a node was marked. *)
LEMMA MarkCounts ==
  ASSUME ConcolicInv, phase = "search", NEW p \in DOMAIN tree, Target(p),
         NEW node \in {"Unreachable", "Being_explored"}, NEW status \in {"Valid", "Invalid"},
         tree' = Marked(tree, p, node, status), to_update' = Append(to_update, p),
         phase' \in {"search", "return"}, node = "Being_explored" => phase' = "return"
  PROVE  CountsAccounted'
<1>1. Shape(tree) /\ CountsAccounted
  BY DEF ConcolicInv
<1>2. tree[p].node = "Not_explored"
        \/ (tree[p].node = "Assert" /\ tree[p].status = "Unknown")
  BY DEF Target, Unasked
<1>u. PICK u : u = tree'
  OBVIOUS
<1>3. /\ DOMAIN u = DOMAIN tree
      /\ \A x \in DOMAIN tree : x # p => u[x] = tree[x]
      /\ tree[p].node = "Not_explored" => u[p].node = node /\ u[p].status = "Unknown"
      /\ tree[p].node = "Assert" => u[p].node = "Assert" /\ u[p].status = status
      /\ u[p].unexplored = tree[p].unexplored
  BY <1>1, <1>2, <1>u, MarkedIs
<1>4. /\ to_update \in Seq(DOMAIN tree)
      /\ \A i \in 1 .. Len(to_update) : tree[to_update[i]].node \in {"Unreachable", "Assert"}
      /\ \A x \in DOMAIN tree : Exact(tree, x) \/ Stale(x)
  BY <1>1 DEF CountsAccounted
<1>5. /\ to_update' \in Seq(DOMAIN u) /\ Len(to_update') = Len(to_update) + 1
      /\ Len(to_update) \in Nat /\ to_update'[Len(to_update) + 1] = p
      /\ \A i \in 1 .. Len(to_update) : to_update'[i] = to_update[i]
                                          /\ to_update[i] \in DOMAIN tree
  BY <1>3, <1>4
<1>6. ASSUME NEW i \in 1 .. Len(to_update)
      PROVE  u[to_update[i]].node = tree[to_update[i]].node
  <2>1. tree[to_update[i]].node \in {"Unreachable", "Assert"}
          /\ to_update[i] \in DOMAIN tree
    BY <1>4, <1>5
  <2> QED BY <1>2, <1>3, <2>1
<1>7. u[p].node \in {node, "Assert"}
        /\ (tree[p].node = "Not_explored" => u[p].node = node)
  BY <1>2, <1>3
<1>8. ASSUME NEW i \in 1 .. Len(to_update')
      PROVE  u[to_update'[i]].node \in
               {"Unreachable", "Assert"} \cup
               (IF phase' = "search" THEN {} ELSE {"Being_explored"})
  <2>1. CASE i \in 1 .. Len(to_update)
    BY <1>4, <1>5, <1>6, <2>1
  <2>2. CASE i = Len(to_update) + 1
    BY <1>5, <1>7, <2>2
  <2> QED BY <1>5, <2>1, <2>2
<1>9. ASSUME NEW x \in DOMAIN tree
      PROVE  Exact(u, x) \/ Stale(x)'
  <2>1. CASE Stale(x)
    <3>1. PICK i \in 1 .. Len(to_update) :
            IsPrefix(x, to_update[i]) /\ tree[to_update[i]].node # "Assert"
      BY <2>1 DEF Stale
    <3>2. i \in 1 .. Len(to_update') /\ to_update'[i] = to_update[i]
      BY <1>5
    <3>3. u[to_update'[i]].node # "Assert"
      BY <1>6, <3>1, <3>2
    <3> QED BY <1>u, <3>1, <3>2, <3>3 DEF Stale
  <2>2. CASE Exact(tree, x) /\ tree[p].node = "Not_explored" /\ IsPrefix(x, p)
    <3>1. Len(to_update) + 1 \in 1 .. Len(to_update')
      BY <1>5
    <3>2. u[p].node # "Assert"
      BY <1>7, <2>2
    <3> QED BY <1>5, <1>u, <2>2, <3>1, <3>2 DEF Stale
  <2>3. CASE Exact(tree, x) /\ (tree[p].node = "Assert" \/ ~IsPrefix(x, p))
    <3>1. \A y \in DOMAIN tree : IsPrefix(x, y) =>
            (u[y].node = "Not_explored" <=> tree[y].node = "Not_explored")
      BY <1>3, <2>3
    <3>2. Frontier(u, x) = Frontier(tree, x)
      BY <1>3, <3>1 DEF Frontier
    <3>3. u[x].unexplored = tree[x].unexplored
      BY <1>3
    <3> QED BY <2>3, <3>2, <3>3 DEF Exact
  <2> QED BY <1>2, <1>4, <2>1, <2>2, <2>3
<1>10. \A x \in DOMAIN tree' : Exact(tree, x)' \/ Stale(x)'
  BY <1>3, <1>9, <1>u, ExactStep
<1> QED BY <1>5, <1>8, <1>10, <1>u DEF CountsAccounted

(* What a step of the search leaves alone. *)
LEMMA SearchFacts ==
  ASSUME ConcolicInv, phase = "search"
  PROVE  /\ program \in Programs /\ forced \subseteq Inputs /\ unknown \subseteq Inputs
         /\ Shape(tree)
         /\ CountsAccounted /\ ExhaustionAccounted
         /\ \A x \in DOMAIN tree : Settled(x)
         /\ \A x \in ran : x \in DOMAIN tree /\ tree[x].node = "Explored"
                             /\ At(x).op = "normal"
         /\ count_path \in Nat /\ count_path = Cardinality(ran)
              /\ ran \subseteq DOMAIN tree
         /\ verdict = "running"
<1>1. /\ program \in Programs /\ forced \subseteq Inputs /\ unknown \subseteq Inputs
      /\ Shape(tree)
      /\ CountsAccounted /\ SearchAccounted /\ RunsAccounted /\ ExhaustionAccounted
  BY DEF ConcolicInv
<1>2. \A x \in DOMAIN tree : Settled(x)
  BY <1>1 DEF SearchAccounted
<1>3. /\ \A x \in ran : x \in DOMAIN tree /\ tree[x].node = "Explored"
                          /\ At(x).op = "normal"
      /\ count_path \in Nat /\ count_path = Cardinality(ran) /\ ran \subseteq DOMAIN tree
      /\ verdict = "running"
  BY <1>1 DEF RunsAccounted
<1> QED BY <1>1, <1>2, <1>3

(* A call that finds no model. *)
LEMMA TrimInv ==
  ASSUME ConcolicInv, NEW p \in DOMAIN tree, Trim(p)
  PROVE  ConcolicInv'
<1>1. /\ phase = "search" /\ Target(p) /\ unknown' = unknown \cup Solutions(p)
      /\ tree' = Marked(tree, p, "Unreachable", "Valid")
      /\ to_update' = Append(to_update, p)
      /\ program' = program /\ phase' = phase /\ forced' = forced /\ trace' = trace
      /\ ran' = ran /\ count_path' = count_path /\ verdict' = verdict
  BY DEF Trim, NoModel, Searching
<1>2. /\ program \in Programs /\ forced \subseteq Inputs /\ unknown \subseteq Inputs
      /\ Shape(tree)
      /\ CountsAccounted /\ ExhaustionAccounted
      /\ \A x \in DOMAIN tree : Settled(x)
      /\ \A x \in ran : x \in DOMAIN tree /\ tree[x].node = "Explored"
                          /\ At(x).op = "normal"
      /\ count_path \in Nat /\ count_path = Cardinality(ran) /\ ran \subseteq DOMAIN tree
      /\ verdict = "running"
  BY <1>1, SearchFacts
<1>3. tree[p].node = "Not_explored"
        \/ (tree[p].node = "Assert" /\ tree[p].status = "Unknown")
  BY <1>1 DEF Target, Unasked
<1>u. PICK u : u = tree'
  OBVIOUS
<1>4. /\ Shape(u) /\ DOMAIN u = DOMAIN tree
      /\ \A x \in DOMAIN tree : x # p => u[x] = tree[x]
      /\ tree[p].node = "Not_explored" => u[p].node = "Unreachable"
           /\ u[p].status = "Unknown"
      /\ tree[p].node = "Assert" => u[p].node = "Assert" /\ u[p].status = "Valid"
  BY <1>1, <1>2, <1>3, <1>u, MarkedIs
<1>5. /\ \A x : /\ At(x)' = At(x) /\ EndOf(x)' = EndOf(x) /\ Models(x)' = Models(x)
                /\ Refuted(x)' = Refuted(x)
      /\ Exhaustible' = Exhaustible
  BY <1>1, SameProgram
<1>6. Shape(tree)'
  BY <1>1, <1>4, <1>u, ShapeStep
<1>7. CountsAccounted'
  BY <1>1, MarkCounts
<1>8. ASSUME NEW x \in DOMAIN u PROVE Settled(x)'
  <2>1. CASE x # p
    <3>1. Settled(x) /\ u[x] = tree[x]
      BY <1>2, <1>4, <2>1
    <3> QED BY <1>1, <1>5, <1>u, <3>1 DEF Settled
  <2>2. CASE x = p
    <3>1. tree[p].node = "Not_explored" => Models(p) \subseteq unknown'
      BY <1>1 DEF Solutions, Unasked
    <3>2. tree[p].node = "Assert" => Models(p) \subseteq True(At(p)) \cup unknown'
      BY <1>1, <1>3 DEF Solutions, Unasked
    <3> QED BY <1>1, <1>3, <1>4, <1>5, <1>u, <2>2, <3>1, <3>2 DEF Settled
  <2> QED BY <2>1, <2>2
<1>9. SearchAccounted'
  BY <1>1, <1>4, <1>8, <1>u DEF SearchAccounted
<1>10. RunsAccounted'
  <2>1. \A x \in ran' : tree'[x].node = "Explored" /\ At(x)'.op = "normal"
    BY <1>1, <1>2, <1>3, <1>4, <1>5, <1>u
  <2> QED BY <1>1, <1>2, <1>4, <1>u, <2>1 DEF RunsAccounted
<1>11. ExhaustionAccounted'
  <2>1. Exhaustible' => \A x \in DOMAIN tree' : Models(x)' # {}
    BY <1>2, <1>4, <1>5, <1>u DEF ExhaustionAccounted
  <2> QED BY <1>1, <1>2, <2>1 DEF ExhaustionAccounted
<1>12. unknown' \subseteq Inputs
  BY <1>1, <1>2 DEF Solutions, Models
<1> QED BY <1>1, <1>2, <1>4, <1>6, <1>7, <1>9, <1>10, <1>11, <1>12, <1>u DEF ConcolicInv

(* A call that finds one. *)
LEMMA PickInv ==
  ASSUME ConcolicInv, NEW p \in DOMAIN tree, Pick(p)
  PROVE  ConcolicInv'
<1>1. /\ phase = "search" /\ Target(p) /\ Solutions(p) # {} /\ forced' = Solutions(p)
      /\ tree' = Marked(tree, p, "Being_explored", "Invalid")
      /\ to_update' = Append(to_update, p)
      /\ program' = program /\ phase' = "return" /\ trace' = trace
      /\ ran' = ran /\ count_path' = count_path /\ verdict' = verdict
      /\ unknown' = unknown
  BY DEF Pick, SomeModel, Searching, GoOn
<1>2. /\ program \in Programs /\ forced \subseteq Inputs /\ unknown \subseteq Inputs
      /\ Shape(tree)
      /\ CountsAccounted /\ ExhaustionAccounted
      /\ \A x \in DOMAIN tree : Settled(x)
      /\ \A x \in ran : x \in DOMAIN tree /\ tree[x].node = "Explored"
                          /\ At(x).op = "normal"
      /\ count_path \in Nat /\ count_path = Cardinality(ran) /\ ran \subseteq DOMAIN tree
      /\ verdict = "running"
  BY <1>1, SearchFacts
<1>3. tree[p].node = "Not_explored"
        \/ (tree[p].node = "Assert" /\ tree[p].status = "Unknown")
  BY <1>1 DEF Target, Unasked
<1>u. PICK u : u = tree'
  OBVIOUS
<1>4. /\ Shape(u) /\ DOMAIN u = DOMAIN tree
      /\ \A x \in DOMAIN tree : x # p => u[x] = tree[x]
      /\ tree[p].node = "Not_explored" => u[p].node = "Being_explored"
           /\ u[p].status = "Unknown"
      /\ tree[p].node = "Assert" => u[p].node = "Assert" /\ u[p].status = "Invalid"
  BY <1>1, <1>2, <1>3, <1>u, MarkedIs
<1>5. /\ \A x : /\ At(x)' = At(x) /\ EndOf(x)' = EndOf(x) /\ Models(x)' = Models(x)
                /\ Refuted(x)' = Refuted(x)
      /\ Exhaustible' = Exhaustible
  BY <1>1, SameProgram
<1>6. Shape(tree)'
  BY <1>1, <1>4, <1>u, ShapeStep
<1>7. CountsAccounted'
  BY <1>1, MarkCounts
<1>8. ASSUME NEW x \in DOMAIN u, x # p PROVE Settled(x)'
  <2>1. Settled(x) /\ u[x] = tree[x]
    BY <1>2, <1>4, <1>8
  <2> QED BY <1>1, <1>5, <1>u, <2>1 DEF Settled
<1>9. Open(p)'
  <2>1. CASE tree[p].node = "Not_explored"
    <3>1. forced' = Models(p) /\ u[p].node \in Unvisited
      BY <1>1, <1>4, <2>1 DEF Solutions, Unasked, Unvisited
    <3> QED BY <1>5, <1>u, <3>1 DEF Open
  <2>2. CASE tree[p].node = "Assert"
    <3>1. forced' = Models(p) \ True(At(p)) /\ u[p].node = "Assert"
      BY <1>1, <1>3, <1>4, <2>2 DEF Solutions, Unasked
    <3> QED BY <1>5, <1>u, <3>1 DEF Open
  <2> QED BY <1>3, <2>1, <2>2
<1>10. SearchAccounted'
  BY <1>1, <1>4, <1>8, <1>9, <1>u DEF SearchAccounted
<1>11. RunsAccounted'
  <2>1. \A x \in ran' : tree'[x].node = "Explored" /\ At(x)'.op = "normal"
    BY <1>1, <1>2, <1>3, <1>4, <1>5, <1>u
  <2> QED BY <1>1, <1>2, <1>4, <1>u, <2>1 DEF RunsAccounted
<1>12. ExhaustionAccounted'
  <2>1. Exhaustible' => \A x \in DOMAIN tree' : Models(x)' # {}
    BY <1>2, <1>4, <1>5, <1>u DEF ExhaustionAccounted
  <2> QED BY <1>1, <1>2, <2>1 DEF ExhaustionAccounted
<1>13. forced' \subseteq Inputs
  BY <1>1 DEF Solutions, Models
<1> QED BY <1>1, <1>2, <1>4, <1>6, <1>7, <1>10, <1>11, <1>12, <1>13, <1>u DEF ConcolicInv

(* A call that returns. *)
LEMMA ReturnInv ==
  ASSUME ConcolicInv, Return
  PROVE  ConcolicInv'
<1>1. /\ phase = "return" /\ to_update # <<>>
      /\ tree' = update_unexplored(tree, Last(to_update)) /\ to_update' = Front(to_update)
      /\ program' = program /\ phase' = phase /\ forced' = forced /\ trace' = trace
      /\ ran' = ran /\ count_path' = count_path /\ verdict' = verdict
      /\ unknown' = unknown
  BY DEF Return
<1>2. /\ program \in Programs /\ forced \subseteq Inputs /\ unknown \subseteq Inputs
      /\ Shape(tree)
      /\ CountsAccounted /\ SearchAccounted /\ RunsAccounted /\ ExhaustionAccounted
  BY DEF ConcolicInv
<1>3. /\ to_update \in Seq(DOMAIN tree)
      /\ \A i \in 1 .. Len(to_update) :
           tree[to_update[i]].node \in {"Unreachable", "Assert", "Being_explored"}
      /\ \A x \in DOMAIN tree : Exact(tree, x) \/ Stale(x)
  BY <1>1, <1>2 DEF CountsAccounted
<1>p. PICK p : p = Last(to_update)
  OBVIOUS
<1>n. PICK n : n = Len(to_update)
  OBVIOUS
<1>4. /\ n \in Nat /\ n >= 1 /\ p \in DOMAIN tree /\ p = to_update[n]
      /\ to_update' \in Seq(DOMAIN tree) /\ Len(to_update') = n - 1
      /\ \A i \in 1 .. n - 1 : to_update'[i] = to_update[i]
  BY <1>1, <1>3, <1>p, <1>n DEF Last, Front
<1>u. PICK u : u = tree'
  OBVIOUS
<1>5. /\ Shape(u) /\ DOMAIN u = DOMAIN tree
      /\ \A x \in DOMAIN tree : u[x].node = tree[x].node /\ u[x].status = tree[x].status
      /\ \A x \in DOMAIN tree : x \notin Nodes(p) /\ Exact(tree, x) => Exact(u, x)
      /\ \A x \in Nodes(p) : (\A y \in Beside(tree, p, x) : Exact(tree, y)) => Exact(u, x)
  BY <1>1, <1>2, <1>4, <1>p, <1>u, Updated
<1>6. /\ \A x : /\ At(x)' = At(x) /\ EndOf(x)' = EndOf(x) /\ Models(x)' = Models(x)
                /\ Refuted(x)' = Refuted(x)
      /\ Exhaustible' = Exhaustible
  BY <1>1, SameProgram
<1>7. Shape(tree)'
  BY <1>1, <1>5, <1>u, ShapeStep
<1>8. /\ p \in Seq(Elements) /\ Nodes(p) \subseteq DOMAIN tree
      /\ \A x \in DOMAIN tree : x \in Seq(Elements)
  BY <1>2, <1>4, ShapePaths
<1>9. ASSUME NEW y \in DOMAIN tree, Stale(y), y \notin Nodes(p)
      PROVE  \E i \in 1 .. n - 1 : IsPrefix(y, to_update[i])
               /\ tree[to_update[i]].node # "Assert"
  <2>1. PICK i \in 1 .. n : IsPrefix(y, to_update[i])
                              /\ tree[to_update[i]].node # "Assert"
    BY <1>9, <1>n DEF Stale
  <2>2. i # n
    BY <1>4, <1>8, <1>9, <2>1, PrefixIs
  <2>3. i \in 1 .. n - 1
    BY <1>4, <2>2
  <2> QED BY <2>1, <2>3
<1>10. ASSUME NEW x \in DOMAIN tree,
              \E i \in 1 .. n - 1 : IsPrefix(x, to_update[i])
                /\ tree[to_update[i]].node # "Assert"
       PROVE  Stale(x)'
  <2>1. PICK i \in 1 .. n - 1 : IsPrefix(x, to_update[i])
                                  /\ tree[to_update[i]].node # "Assert"
    BY <1>10
  <2>2. to_update[i] \in DOMAIN tree
    BY <1>3, <1>4, <1>n, <2>1
  <2> QED BY <1>4, <1>5, <1>u, <2>1, <2>2 DEF Stale
<1>11. ASSUME NEW x \in DOMAIN tree
       PROVE  Exact(u, x) \/ Stale(x)'
  <2>1. CASE x \notin Nodes(p)
    BY <1>3, <1>5, <1>9, <1>10, <2>1
  <2>2. CASE x \in Nodes(p) /\ \A y \in Beside(tree, p, x) : Exact(tree, y)
    BY <1>5, <2>2
  <2>3. CASE x \in Nodes(p) /\ \E y \in Beside(tree, p, x) : ~ Exact(tree, y)
    <3>1. PICK y \in Beside(tree, p, x) : ~ Exact(tree, y)
      BY <2>3
    <3>2. y \in DOMAIN tree /\ y \notin Nodes(p) /\ IsPrefix(x, Front(y))
            /\ y \in Seq(Elements)
      BY <1>8, <3>1 DEF Beside
    <3>3. PICK i \in 1 .. n - 1 : IsPrefix(y, to_update[i])
                                    /\ tree[to_update[i]].node # "Assert"
      BY <1>3, <1>9, <3>1, <3>2
    <3>4. to_update[i] \in Seq(Elements)
      BY <1>3, <1>4, <1>8, <1>n, <3>3
    <3>5. y # <<>>
      BY <1>8, <3>2, NodesOf
    <3>6. Front(y) \in Nodes(y)
      BY <3>2, <3>5, FrontIs DEF Nodes
    <3>7. /\ Front(y) \in Seq(Elements) /\ Nodes(Front(y)) \subseteq Nodes(y)
      BY <3>2, <3>6, NodesOf
    <3>8. x \in Nodes(y)
      BY <1>8, <3>2, <3>7, PrefixIs
    <3>9. y \in Nodes(to_update[i])
      BY <3>2, <3>3, <3>4, PrefixIs
    <3>10. x \in Nodes(to_update[i])
      BY <3>4, <3>8, <3>9, NodesOf
    <3>11. IsPrefix(x, to_update[i])
      BY <1>8, <3>4, <3>10, PrefixIs
    <3> QED BY <1>10, <3>3, <3>11
  <2> QED BY <2>1, <2>2, <2>3
<1>12. CountsAccounted'
  <2>1. \A x \in DOMAIN tree' : Exact(tree, x)' \/ Stale(x)'
    BY <1>5, <1>11, <1>u, ExactStep
  <2>2. ASSUME NEW i \in 1 .. Len(to_update')
        PROVE  tree'[to_update'[i]].node \in {"Unreachable", "Assert", "Being_explored"}
    <3>1. i \in 1 .. n /\ to_update'[i] = to_update[i] /\ to_update[i] \in DOMAIN tree
      BY <1>3, <1>4, <1>n
    <3> QED BY <1>3, <1>5, <1>n, <1>u, <3>1
  <2> QED BY <1>1, <1>4, <1>5, <1>u, <2>1, <2>2 DEF CountsAccounted
<1>13. \A x \in DOMAIN tree : Settled(x) => Settled(x)'
  BY <1>1, <1>5, <1>6, <1>u DEF Settled
<1>14. \A x \in DOMAIN tree : Open(x) => Open(x)'
  BY <1>1, <1>5, <1>6, <1>u DEF Open
<1>15. SearchAccounted'
  BY <1>1, <1>2, <1>5, <1>13, <1>14, <1>u DEF SearchAccounted
<1>16. RunsAccounted'
  <2>1. \A x \in ran : x \in DOMAIN tree /\ tree[x].node = "Explored"
                         /\ At(x).op = "normal"
    BY <1>1, <1>2 DEF RunsAccounted
  <2>2. \A x \in ran' : tree'[x].node = "Explored" /\ At(x)'.op = "normal"
    BY <1>1, <1>5, <1>6, <1>u, <2>1
  <2> QED BY <1>1, <1>2, <1>5, <1>u, <2>2 DEF RunsAccounted
<1>17. ExhaustionAccounted'
  <2>1. Exhaustible' => \A x \in DOMAIN tree' : Models(x)' # {}
    BY <1>2, <1>5, <1>6, <1>u DEF ExhaustionAccounted
  <2> QED BY <1>1, <1>2, <1>6, <2>1 DEF ExhaustionAccounted
<1> QED BY <1>1, <1>2, <1>5, <1>7, <1>12, <1>15, <1>16, <1>17, <1>u DEF ConcolicInv

(* The outermost call has returned. *)
LEMMA ReturnedInv ==
  ASSUME ConcolicInv, Returned
  PROVE  ConcolicInv'
<1>1. /\ phase = "return" /\ to_update = <<>>
      /\ IF forced = {} THEN phase' = "done" /\ verdict' = "All_OK"
         ELSE phase' = "run" /\ verdict' = verdict
      /\ program' = program /\ tree' = tree /\ forced' = forced /\ trace' = trace
      /\ to_update' = to_update /\ ran' = ran /\ count_path' = count_path
      /\ unknown' = unknown
  BY DEF Returned, End, GoOn
<1>2. /\ program \in Programs /\ forced \subseteq Inputs /\ unknown \subseteq Inputs
      /\ Shape(tree)
      /\ CountsAccounted /\ SearchAccounted /\ RunsAccounted /\ ExhaustionAccounted
  BY DEF ConcolicInv
<1>3. /\ \A x : /\ At(x)' = At(x) /\ EndOf(x)' = EndOf(x) /\ Models(x)' = Models(x)
                /\ Refuted(x)' = Refuted(x)
      /\ Exhaustible' = Exhaustible
      /\ \A x : Settled(x) => Settled(x)'
  BY <1>1, SameProgram, SettledStep
<1>4. Shape(tree)'
  BY <1>1, <1>2, ShapeStep
<1>5. \A x \in DOMAIN tree : Exact(tree, x)
  BY <1>1, <1>2 DEF CountsAccounted, Stale
<1>6. CountsAccounted'
  <2>1. to_update' \in Seq(DOMAIN tree') /\ Len(to_update') = 0 /\ to_update' = <<>>
    BY <1>1
  <2>2. \A x \in DOMAIN tree' : Exact(tree, x)'
    BY <1>1, <1>5, ExactStep
  <2> QED BY <2>1, <2>2 DEF CountsAccounted
<1>7. \A x : Open(x)' <=> Open(x)
  BY <1>1, <1>3 DEF Open
<1>8. SearchAccounted'
  BY <1>1, <1>2, <1>3, <1>7 DEF SearchAccounted
<1>9. RunsAccounted'
  <2>1. \A x \in ran : tree[x].node = "Explored" /\ At(x).op = "normal"
    BY <1>1, <1>2 DEF RunsAccounted
  <2>2. \A x \in ran' : tree'[x].node = "Explored" /\ At(x)'.op = "normal"
    BY <1>1, <1>3, <2>1
  <2>3. /\ count_path \in Nat /\ count_path = Cardinality(ran)
             /\ ran \subseteq DOMAIN tree
        /\ verdict = "running"
    BY <1>1, <1>2 DEF RunsAccounted
  <2> QED BY <1>1, <2>2, <2>3 DEF RunsAccounted
<1>10. ExhaustionAccounted'
  <2>1. Exhaustible' => \A x \in DOMAIN tree' : Models(x)' # {}
    BY <1>1, <1>2, <1>3 DEF ExhaustionAccounted
  <2>2. verdict = "running"
    BY <1>1, <1>2 DEF RunsAccounted
  <2>3. Exhaustible' /\ forced = {} /\ unknown = {} =>
          \A v \in Inputs : At(EndOf(v)).op \in {"normal", "assume"}
    BY <1>1, <1>2, <1>3 DEF ExhaustionAccounted
  <2>4. \A v \in Inputs : At(EndOf(v))' = At(EndOf(v))
    BY <1>1, <1>3 DEF At
  <2> QED BY <1>1, <2>1, <2>2, <2>3, <2>4 DEF ExhaustionAccounted
<1> QED BY <1>1, <1>2, <1>4, <1>6, <1>8, <1>9, <1>10 DEF ConcolicInv

(* The assertion that the root has a condition. *)
LEMMA NoConditionInv ==
  ASSUME ConcolicInv, NEW p \in DOMAIN tree, NoCondition(p)
  PROVE  ConcolicInv'
<1>1. /\ phase = "search" /\ Target(p) /\ ~HasCondition(p)
      /\ phase' = "done" /\ verdict' = "assert_false"
      /\ program' = program /\ tree' = tree /\ forced' = forced /\ trace' = trace
      /\ to_update' = to_update /\ ran' = ran /\ count_path' = count_path
      /\ unknown' = unknown
  BY DEF NoCondition, Searching, End
<1>2. /\ program \in Programs /\ forced \subseteq Inputs /\ unknown \subseteq Inputs
      /\ Shape(tree)
      /\ CountsAccounted /\ ExhaustionAccounted
      /\ \A x \in DOMAIN tree : Settled(x)
      /\ \A x \in ran : x \in DOMAIN tree /\ tree[x].node = "Explored"
                          /\ At(x).op = "normal"
      /\ count_path \in Nat /\ count_path = Cardinality(ran) /\ ran \subseteq DOMAIN tree
      /\ verdict = "running"
  BY <1>1, SearchFacts
<1>3. p = <<>> /\ tree[p].node = "Not_explored"
  BY <1>1 DEF Target, HasCondition
<1>4. ran = {}
  <2> SUFFICES ASSUME NEW x \in ran PROVE FALSE
    OBVIOUS
  <2>1. x \in DOMAIN tree /\ tree[x].node = "Explored" /\ x \in Seq(Elements)
    BY <1>2, ShapePaths
  <2>2. <<>> \in Nodes(x)
    BY <2>1, NodesOf
  <2>3. ~ Inner(tree, p)
    BY <1>3 DEF Inner, Unvisited
  <2>4. x = p
    BY <1>2, <1>3, <2>1, <2>2, <2>3, BelowLeaf
  <2> QED BY <1>3, <2>1, <2>4
<1>5. /\ \A x : /\ At(x)' = At(x) /\ EndOf(x)' = EndOf(x) /\ Models(x)' = Models(x)
      /\ Exhaustible' = Exhaustible
  BY <1>1, SameProgram
<1>6. Shape(tree)'
  BY <1>1, <1>2, ShapeStep
<1>7. CountsAccounted'
  <2>1. \A x \in DOMAIN tree' : Exact(tree, x)' \/ Stale(x)'
    <3>1. \A x : Stale(x)' <=> Stale(x)
      BY <1>1 DEF Stale
    <3> QED BY <1>1, <1>2, <3>1, ExactStep DEF CountsAccounted
  <2> QED BY <1>1, <1>2, <2>1 DEF CountsAccounted
<1>8. SearchAccounted'
  BY <1>1 DEF SearchAccounted
<1>9. RunsAccounted'
  BY <1>1, <1>2, <1>4 DEF RunsAccounted
<1>10. ExhaustionAccounted'
  <2>1. Exhaustible' => \A x \in DOMAIN tree' : Models(x)' # {}
    BY <1>1, <1>2, <1>5 DEF ExhaustionAccounted
  <2> QED BY <1>1, <2>1 DEF ExhaustionAccounted
<1> QED BY <1>1, <1>2, <1>6, <1>7, <1>8, <1>9, <1>10 DEF ConcolicInv

-----------------------------------------------------------------------------
(* An input is a model of every node on its path, if nothing aborts there. *)
LEMMA RunIsModel ==
  ASSUME program \in Programs, NEW v \in Inputs, NEW p, p = EndOf(v), ~ Aborts(p),
         NEW x \in Nodes(p)
  PROVE  v \in Models(x)
<1>1. /\ p \in Seq(Elements)
      /\ \A k \in 0 .. Len(p) - 1 : p[k + 1] = At(Up(p, k)).value[v]
  BY EndIs
<1>2. /\ Len(x) \in 0 .. Len(p) /\ x = Up(p, Len(x)) /\ Len(p) \in Nat
      /\ x \in Seq(Elements) /\ \A i \in 1 .. Len(x) : x[i] = p[i]
  <2>1. Len(x) \in 0 .. Len(p) /\ x = Up(p, Len(x)) /\ x \in Seq(Elements)
    BY <1>1, NodesOf
  <2>2. \A i \in 1 .. Len(x) : Up(p, Len(x))[i] = p[i]
    BY <1>1, <2>1, UpIs
  <2> QED BY <1>1, <2>1, <2>2
<1>3. ASSUME NEW k \in 1 .. Len(x)
      PROVE  v \in Allows(At(Up(x, k - 1)), x[k])
  <2>1. /\ k - 1 \in 0 .. Len(x) /\ k - 1 \in 0 .. Len(p) - 1 /\ (k - 1) + 1 = k
        /\ k \in 1 .. Len(p)
    BY <1>2
  <2>2. Up(x, k - 1) = Up(p, k - 1)
    BY <1>1, <1>2, <2>1, UpUp
  <2>3. x[k] = At(Up(x, k - 1)).value[v]
    BY <1>1, <1>2, <2>1, <2>2
  <2>4. At(Up(x, k - 1)).op # "abort"
    BY <2>1, <2>2 DEF Aborts
  <2> QED BY <2>3, <2>4 DEF Allows
<1> QED BY <1>3 DEF Models

(* The last node of a path that is in the tree. *)
LEMMA Deepest ==
  ASSUME NEW t, Shape(t), NEW p \in Seq(Elements)
  PROVE  \E k \in 0 .. Len(p) :
           /\ Up(p, k) \in DOMAIN t
           /\ k = Len(p) \/ Up(p, k + 1) \notin DOMAIN t
<1> DEFINE S == {k \in 0 .. Len(p) : Up(p, k) \in DOMAIN t}
<1>1. Len(p) \in Nat /\ 0 \in S
  BY UpAll, ShapePaths
<1>2. PICK k \in S : \A j \in S : j <= k
  BY <1>1, GreatestNatural
<1>3. k = Len(p) \/ Up(p, k + 1) \notin DOMAIN t
  <2> SUFFICES ASSUME k # Len(p), Up(p, k + 1) \in DOMAIN t PROVE FALSE
    OBVIOUS
  <2>1. k + 1 \in S
    BY <1>1
  <2> QED BY <1>2, <2>1
<1> QED BY <1>3

(* The invariant implies that no input is forgotten. *)
LEMMA FrontierCovered ==
  ASSUME ConcolicInv
  PROVE  FrontierCoversInputs
<1> SUFFICES ASSUME phase \in {"run", "search", "return"}, NEW v \in Inputs \ unknown
             PROVE  LET p == EndOf(v)
                    IN  \/ p \in ran \/ At(p).op = "assume" \/ Aborts(p)
                        \/ \E k \in 0 .. Len(p) :
                             /\ Up(p, k) \in DOMAIN tree
                             /\ \/ Target(Up(p, k))
                                \/ /\ tree[Up(p, k)].node = "Select_i32"
                                   /\ Up(p, k + 1) \notin DOMAIN tree
                                \/ phase # "search" /\ v \in forced
  BY DEF FrontierCoversInputs
<1>0. v \in Inputs /\ v \notin unknown
  OBVIOUS
<1>p. PICK p : p = EndOf(v)
  OBVIOUS
<1> SUFFICES ASSUME p \notin ran, At(p).op # "assume", ~ Aborts(p)
             PROVE  \E k \in 0 .. Len(p) :
                      /\ Up(p, k) \in DOMAIN tree
                      /\ \/ Target(Up(p, k))
                         \/ /\ tree[Up(p, k)].node = "Select_i32"
                            /\ Up(p, k + 1) \notin DOMAIN tree
                         \/ phase # "search" /\ v \in forced
  BY <1>p
<1>1. program \in Programs /\ Shape(tree) /\ SearchAccounted /\ RunsAccounted
  BY DEF ConcolicInv
<1>2. /\ p \in DOMAIN program /\ p \in Seq(Elements) /\ At(p).op \in Completed
      /\ \A k \in 0 .. Len(p) - 1 :
           /\ At(Up(p, k)).op \in Ops \ Leaf
           /\ GoesOn(At(Up(p, k)), v)
           /\ At(Up(p, k)).op # "select_i32" =>
                p[k + 1] \in Branches(At(Up(p, k)).op)
      /\ ~ GoesOn(At(p), v)
  BY <1>0, <1>1, <1>p, EndIs
<1>3. PICK k \in 0 .. Len(p) : /\ Up(p, k) \in DOMAIN tree
                               /\ k = Len(p) \/ Up(p, k + 1) \notin DOMAIN tree
  BY <1>1, <1>2, Deepest
<1>x. PICK x : x = Up(p, k)
  OBVIOUS
<1>4. /\ x \in DOMAIN tree /\ x \in Nodes(p) /\ Len(p) \in Nat
      /\ (k = Len(p) => x = p) /\ (k # Len(p) => k \in 0 .. Len(p) - 1)
  BY <1>2, <1>3, <1>x, UpAll DEF Nodes
<1>5. v \in Models(x)
  BY <1>0, <1>1, <1>4, <1>p, RunIsModel
<1>6. Settled(x) \/ (Open(x) /\ phase # "search")
  BY <1>1, <1>4 DEF SearchAccounted
<1>7. tree[x] \in NodeType
  BY <1>1, <1>4, ShapePaths
<1>8. Open(x) => v \in forced \/ v \in Refuted(x) \/ tree[x].node = "Assert"
  BY <1>5 DEF Open
<1>9. v \notin Refuted(x)
  <2> SUFFICES ASSUME At(x).op = "assume", v \notin True(At(x)) PROVE FALSE
    BY DEF Refuted
  <2>1. ~ GoesOn(At(x), v)
    BY DEF GoesOn
  <2>2. k = Len(p)
    BY <1>2, <1>4, <1>x, <2>1
  <2> QED BY <1>4, <2>2
<1>10. CASE tree[x].node = "Not_explored"
  BY <1>3, <1>x, <1>10 DEF Target
<1>11. CASE tree[x].node = "Being_explored"
  <2>1. ~ Settled(x)
    BY <1>0, <1>5, <1>9, <1>11 DEF Settled
  <2>2. v \in forced /\ phase # "search"
    BY <1>6, <1>8, <1>9, <1>11, <2>1
  <2> QED BY <1>3, <2>2
<1>12. CASE tree[x].node = "Explored"
  <2>1. ~ Open(x)
    BY <1>12 DEF Open, Unvisited
  <2>2. x \in ran /\ At(x).op = "normal"
    BY <1>6, <1>12, <2>1 DEF Settled
  <2>3. k = Len(p)
    BY <1>2, <1>4, <1>x, <2>2 DEF Leaf
  <2> QED BY <1>4, <2>2, <2>3
<1>13. CASE tree[x].node = "Unreachable"
  <2>1. ~ Open(x)
    BY <1>13 DEF Open, Unvisited
  <2> QED BY <1>0, <1>5, <1>6, <1>13, <2>1 DEF Settled
<1>14. CASE Inner(tree, x)
  <2>1. /\ At(x).op \notin Leaf /\ tree[x].node = NodeOf[At(x).op] /\ x \in DOMAIN program
        /\ \A e \in Branches(At(x).op) : Append(x, e) \in DOMAIN tree
    BY <1>1, <1>4, <1>14 DEF Shape
  <2>2. CASE k # Len(p)
    <3>1. At(x).op = "select_i32"
      <4> SUFFICES ASSUME At(x).op # "select_i32" PROVE FALSE
        OBVIOUS
      <4>1. p[k + 1] \in Branches(At(x).op)
        BY <1>2, <1>4, <1>x, <2>2
      <4>2. Append(x, p[k + 1]) = Up(p, k + 1)
        BY <1>2, <1>4, <1>x, <2>2, UpNext
      <4> QED BY <1>3, <2>1, <2>2, <4>1, <4>2
    <3>2. tree[x].node = "Select_i32"
      BY <2>1, <3>1 DEF NodeOf
    <3> QED BY <1>3, <1>x, <2>2, <3>2
  <2>3. CASE k = Len(p)
    <3>1. x = p /\ At(p).op = "assert" /\ v \notin True(At(x))
      BY <1>2, <1>4, <2>1, <2>3 DEF GoesOn, Completed, Leaf
    <3>2. tree[x].node = "Assert"
      BY <2>1, <3>1 DEF NodeOf
    <3>3. CASE Settled(x)
      <4>1. tree[x].status = "Unknown"
        BY <1>0, <1>5, <3>1, <3>2, <3>3 DEF Settled
      <4>2. Target(x)
        BY <3>2, <4>1 DEF Target, Unasked
      <4> QED BY <1>3, <1>x, <4>2
    <3>4. CASE Open(x) /\ phase # "search"
      <4>1. v \in forced
        BY <1>5, <3>1, <3>2, <3>4 DEF Open, Unvisited
      <4> QED BY <1>3, <3>4, <4>1
    <3> QED BY <1>6, <3>3, <3>4
  <2> QED BY <2>2, <2>3
<1> QED BY <1>10, <1>11, <1>12, <1>13, <1>14 DEF Inner, Unvisited, Closed

(* A search that finds no node leaves none that it could have found, when all *)
(* branches of the program can be taken and the solver always decided.        *)
LEMMA NoTargetLeft ==
  ASSUME ConcolicInv, phase = "search", Exhaustible, unknown = {},
         NEW p \in DOMAIN tree, Reaches(p), Dead(p)
  PROVE  \A x \in DOMAIN tree : ~ Target(x)
<1>1. /\ program \in Programs /\ Shape(tree) /\ CountsAccounted /\ ExhaustionAccounted
      /\ \A x \in DOMAIN tree : Settled(x)
  BY SearchFacts
<1>2. \A x \in DOMAIN tree : Exact(tree, x)
  <2> SUFFICES ASSUME NEW x \in DOMAIN tree, Stale(x) PROVE FALSE
    BY <1>1 DEF CountsAccounted
  <2>1. PICK i \in 1 .. Len(to_update) : tree[to_update[i]].node # "Assert"
    BY DEF Stale
  <2>2. to_update[i] \in DOMAIN tree /\ tree[to_update[i]].node = "Unreachable"
    BY <1>1, <2>1 DEF CountsAccounted
  <2>3. Models(to_update[i]) = {}
    BY <1>1, <2>2 DEF Settled
  <2> QED BY <1>1, <2>2, <2>3 DEF ExhaustionAccounted
<1>3. /\ \A x \in DOMAIN tree : x \in Seq(Elements) /\ Len(x) \in Nat
      /\ \A x \in DOMAIN tree : \A k \in 0 .. Len(x) : Up(x, k) \in DOMAIN tree
  BY <1>1, ShapePaths
<1> SUFFICES ASSUME NEW w \in DOMAIN tree, Target(w) PROVE FALSE
  OBVIOUS
<1> DEFINE With(x, k) == k \in 0 .. Len(x) /\ Up(x, k) = Up(p, k) /\ Target(x)
           S == {k \in 0 .. Len(p) : \E x \in DOMAIN tree : With(x, k)}
<1>4. 0 \in S
  BY <1>3, UpAll
<1>5. PICK k \in S : \A j \in S : j <= k
  BY <1>3, <1>4, GreatestNatural
<1>6. PICK x \in DOMAIN tree : With(x, k)
  OBVIOUS
<1>7. /\ k \in 0 .. Len(p) /\ k \in 0 .. Len(x) /\ Up(x, k) = Up(p, k) /\ Target(x)
      /\ p \in Seq(Elements) /\ x \in Seq(Elements) /\ Len(p) \in Nat /\ Len(x) \in Nat
  BY <1>3, <1>6
<1>8. k + 1 \notin S
  BY <1>5, <1>7
<1>9. \A y \in DOMAIN tree : \A j \in 0 .. Len(y) - 1 :
        /\ Inner(tree, Up(y, j)) /\ Up(y, j) \in DOMAIN program
        /\ At(Up(y, j)).op \notin Leaf \cup {"select_i32", "abort"}
        /\ tree[Up(y, j)].node = NodeOf[At(Up(y, j)).op]
        /\ y[j + 1] \in Branches(At(Up(y, j)).op)
  <2> SUFFICES ASSUME NEW y \in DOMAIN tree, NEW j \in 0 .. Len(y) - 1
               PROVE  /\ Inner(tree, Up(y, j)) /\ Up(y, j) \in DOMAIN program
                      /\ At(Up(y, j)).op \notin Leaf \cup {"select_i32", "abort"}
                      /\ tree[Up(y, j)].node = NodeOf[At(Up(y, j)).op]
                      /\ y[j + 1] \in Branches(At(Up(y, j)).op)
    OBVIOUS
  <2>1. /\ Up(y, j) \in DOMAIN tree /\ Inner(tree, Up(y, j))
        /\ At(Up(y, j)).op # "select_i32" => y[j + 1] \in Branches(At(Up(y, j)).op)
    BY <1>1 DEF Shape
  <2>2. /\ Up(y, j) \in DOMAIN program /\ At(Up(y, j)).op \notin Leaf
        /\ tree[Up(y, j)].node = NodeOf[At(Up(y, j)).op]
    BY <1>1, <2>1 DEF Shape
  <2>3. At(Up(y, j)).op \notin {"select_i32", "abort"}
    BY <2>2 DEF Exhaustible
  <2> QED BY <2>1, <2>2, <2>3
<1>10. Target(x) => tree[x].node \in {"Not_explored", "Assert"}
  BY DEF Target, Unasked
<1>11. CASE k = Len(x) /\ k = Len(p)
  <2>a. Up(x, Len(x)) = x /\ Up(p, Len(p)) = p
    BY <1>7, UpAll
  <2>b. Up(x, k) = Up(p, k)
    BY <1>7
  <2>1. x = p
    BY <1>11, <2>a, <2>b
  <2> QED BY <1>7, <1>10, <2>1 DEF Dead, Splits, Closed, Target, Unasked
<1>12. CASE k = Len(x) /\ k # Len(p)
  <2>1. x = Up(p, k) /\ k \in 0 .. Len(p) - 1 /\ k + 1 \in 1 .. Len(p) /\ (k + 1) - 1 = k
    BY <1>7, <1>12, UpAll
  <2>2. Inner(tree, x)
    BY <1>9, <2>1
  <2>3. Unasked(x)
    BY <1>7, <2>2 DEF Target, Inner, Unvisited
  <2> QED BY <2>1, <2>3 DEF Reaches
<1>13. ASSUME k # Len(x)
       PROVE  /\ k \in 0 .. Len(x) - 1 /\ k + 1 \in 0 .. Len(x)
                   /\ Up(x, k + 1) \in DOMAIN tree
              /\ Front(Up(x, k + 1)) = Up(x, k) /\ Up(x, k + 1) # <<>>
  <2>1. k \in 0 .. Len(x) - 1 /\ k + 1 \in 0 .. Len(x)
    BY <1>7, <1>13
  <2>2. Up(x, k + 1) \in DOMAIN tree /\ Up(x, k + 1) \in Seq(Elements)
        /\ Len(Up(x, k + 1)) = k + 1
    BY <1>3, <1>7, <2>1, UpIs
  <2>3. Up(x, k + 1) # <<>>
    BY <1>7, <2>2
  <2>4. Front(Up(x, k + 1)) = Up(Up(x, k + 1), (k + 1) - 1)
    BY <2>2, <2>3, FrontIs
  <2>5. (k + 1) - 1 = k /\ k \in 0 .. k + 1
    BY <1>7
  <2>6. Up(Up(x, k + 1), k) = Up(x, k)
    BY <1>7, <2>1, <2>5, UpUp
  <2> QED BY <2>1, <2>2, <2>3, <2>4, <2>5, <2>6
<1>14. CASE k # Len(x) /\ k = Len(p)
  <2>1. p = Up(x, k)
    BY <1>7, <1>14, UpAll
  <2>2. Inner(tree, p)
    BY <1>9, <1>13, <1>14, <2>1
  <2>3. Splits(p) /\ \A q \in DOMAIN tree \ {<<>>} : Front(q) = p =>
          tree[q].unexplored = 0
    BY <2>2 DEF Dead, Inner, Unvisited
  <2>y. PICK y : y = Up(x, k + 1)
    OBVIOUS
  <2>4. y \in DOMAIN tree /\ tree[y].unexplored = 0 /\ k + 1 \in 0 .. Len(x)
    BY <1>13, <1>14, <2>1, <2>3, <2>y
  <2>5. CASE tree[x].node = "Not_explored"
    <3>1. y \in Seq(Elements) /\ y \in Nodes(x)
      BY <1>3, <2>4, <2>y DEF Nodes
    <3>2. x \in Frontier(tree, y)
      BY <1>7, <2>5, <3>1, PrefixIs DEF Frontier
    <3>3. Frontier(tree, y) \in SUBSET DOMAIN tree /\ IsFiniteSet(DOMAIN tree)
      BY <1>1, ShapePaths DEF Frontier
    <3>4. IsFiniteSet(Frontier(tree, y)) /\ Cardinality(Frontier(tree, y)) = 0
      BY <1>2, <2>4, <3>3, FS_Subset DEF Exact
    <3> QED BY <3>2, <3>4, FS_EmptySet
  <2>6. CASE tree[x].node = "Assert"
    <3>1. Inner(tree, x)
      BY <2>6 DEF Inner, Unvisited, Closed
    <3>2. x \in DOMAIN program /\ tree[x].node = NodeOf[At(x).op] /\ At(x).op \notin Leaf
      BY <1>1, <3>1 DEF Shape
    <3>3. At(x).op \in Ops
      BY <1>1, <3>2, ProgramsAssumption DEF At
    <3>4. At(x).op = "assert"
      BY <2>6, <3>2, <3>3 DEF NodeOf, Ops, Leaf
    <3>5. k + 1 \in 1 .. Len(x) /\ (k + 1) - 1 = k
      BY <1>7, <1>13, <1>14
    <3>6. At(Up(x, k)).op # "select"
      BY <3>2, <3>4, <3>5 DEF Exhaustible
    <3>7. /\ tree[p].node = NodeOf[At(p).op]
               /\ At(p).op \notin Leaf \cup {"select_i32", "abort"}
          /\ p \in DOMAIN program
      BY <1>9, <1>13, <1>14, <2>1
    <3>8. At(p).op \in Ops
      BY <1>1, <3>7, ProgramsAssumption DEF At
    <3> QED BY <2>1, <2>3, <3>6, <3>7, <3>8 DEF Splits, NodeOf, Ops, Leaf
  <2> QED BY <1>7, <1>10, <2>5, <2>6
<1>15. CASE k # Len(x) /\ k # Len(p)
  <2>1. k \in 0 .. Len(p) - 1 /\ k + 1 \in 0 .. Len(p) /\ k + 1 \in 1 .. Len(p)
          /\ (k + 1) - 1 = k
    BY <1>7, <1>15
  <2>2. x[k + 1] # p[k + 1]
    <3> SUFFICES ASSUME x[k + 1] = p[k + 1] PROVE FALSE
      OBVIOUS
    <3>1. Up(x, k + 1) = Append(Up(x, k), x[k + 1])
            /\ Up(p, k + 1) = Append(Up(p, k), p[k + 1])
      BY <1>7, <1>13, <1>15, <2>1, UpNext
    <3>2. With(x, k + 1)
      BY <1>7, <1>13, <1>15, <3>1
    <3> QED BY <1>8, <2>1, <3>2
  <2>z. PICK z : z = Up(p, k)
    OBVIOUS
  <2>3. /\ z \in DOMAIN program /\ At(z).op \notin Leaf \cup {"select_i32", "abort"}
        /\ tree[z].node = NodeOf[At(z).op]
        /\ p[k + 1] \in Branches(At(z).op) /\ x[k + 1] \in Branches(At(z).op)
    BY <1>7, <1>9, <1>13, <1>15, <2>1, <2>z
  <2>4. At(z).op = "select"
    BY <2>2, <2>3 DEF Branches
  <2>5. Splits(z)
    BY <2>3, <2>4 DEF Splits, NodeOf
  <2>y. PICK y : y = Up(p, k + 1)
    OBVIOUS
  <2>6. y \in DOMAIN tree /\ tree[y].unexplored # 0 /\ y \in Seq(Elements)
          /\ Len(y) = k + 1
    BY <1>3, <1>7, <2>1, <2>5, <2>y, <2>z, UpIs DEF Reaches
  <2>7. Frontier(tree, y) # {}
    <3>1. Cardinality(Frontier(tree, y)) # 0
      BY <1>2, <2>6 DEF Exact
    <3> QED BY <3>1, FS_EmptySet
  <2>8. PICK n \in Frontier(tree, y) : TRUE
    BY <2>7
  <2>9. /\ n \in DOMAIN tree /\ IsPrefix(y, n) /\ Target(n) /\ n \in Seq(Elements)
    BY <1>3 DEF Frontier, Target
  <2>10. k + 1 \in 0 .. Len(n) /\ Up(n, k + 1) = Up(p, k + 1)
    BY <2>6, <2>9, <2>y, PrefixIs
  <2>11. With(n, k + 1)
    BY <2>9, <2>10
  <2> QED BY <1>8, <2>1, <2>9, <2>11
<1> QED BY <1>11, <1>12, <1>14, <1>15

(* A call that finds no node. *)
LEMMA GiveUpInv ==
  ASSUME ConcolicInv, NEW p \in DOMAIN tree, GiveUp(p)
  PROVE  ConcolicInv'
<1>1. /\ phase = "search" /\ Reaches(p) /\ Dead(p)
      /\ forced' = {} /\ phase' = "return" /\ verdict' = verdict
      /\ program' = program /\ tree' = tree /\ trace' = trace
      /\ to_update' = to_update /\ ran' = ran /\ count_path' = count_path
      /\ unknown' = unknown
  BY DEF GiveUp, Searching, GoOn
<1>2. /\ program \in Programs /\ forced \subseteq Inputs /\ unknown \subseteq Inputs
      /\ Shape(tree)
      /\ CountsAccounted /\ ExhaustionAccounted
      /\ \A x \in DOMAIN tree : Settled(x)
      /\ \A x \in ran : x \in DOMAIN tree /\ tree[x].node = "Explored"
                          /\ At(x).op = "normal"
      /\ count_path \in Nat /\ count_path = Cardinality(ran) /\ ran \subseteq DOMAIN tree
      /\ verdict = "running"
  BY <1>1, SearchFacts
<1>3. /\ \A x : /\ At(x)' = At(x) /\ EndOf(x)' = EndOf(x) /\ Models(x)' = Models(x)
                /\ Refuted(x)' = Refuted(x)
      /\ Exhaustible' = Exhaustible
      /\ \A x : Settled(x) => Settled(x)'
  BY <1>1, SameProgram, SettledStep
<1>4. Shape(tree)'
  BY <1>1, <1>2, ShapeStep
<1>5. CountsAccounted'
  <2>1. \A x \in DOMAIN tree' : Exact(tree, x)' \/ Stale(x)'
    <3>1. \A x : Stale(x)' <=> Stale(x)
      BY <1>1 DEF Stale
    <3> QED BY <1>1, <1>2, <3>1, ExactStep DEF CountsAccounted
  <2> QED BY <1>1, <1>2, <2>1 DEF CountsAccounted
<1>6. SearchAccounted'
  BY <1>1, <1>2, <1>3 DEF SearchAccounted
<1>7. RunsAccounted'
  <2>1. \A x \in ran' : tree'[x].node = "Explored" /\ At(x)'.op = "normal"
    BY <1>1, <1>2, <1>3
  <2> QED BY <1>1, <1>2, <2>1 DEF RunsAccounted
<1>8. ExhaustionAccounted'
  <2>1. Exhaustible' => \A x \in DOMAIN tree' : Models(x)' # {}
    BY <1>1, <1>2, <1>3 DEF ExhaustionAccounted
  <2>2. ASSUME Exhaustible, unknown = {}, NEW v \in Inputs
        PROVE  At(EndOf(v)).op \in {"normal", "assume"}
    <3>1. \A x \in DOMAIN tree : ~ Target(x)
      BY <1>1, <2>2, NoTargetLeft
    <3>q. PICK q : q = EndOf(v)
      OBVIOUS
    <3>2. /\ q \in Seq(Elements)
          /\ \A k \in 0 .. Len(q) - 1 : Up(q, k) \in DOMAIN program
      BY <1>2, <3>q, EndIs
    <3>3. ~ Aborts(q)
      <4> SUFFICES ASSUME NEW k \in 1 .. Len(q) PROVE At(Up(q, k - 1)).op # "abort"
        BY DEF Aborts
      <4>1. k - 1 \in 0 .. Len(q) - 1
        BY <3>2
      <4> QED BY <2>2, <3>2, <4>1 DEF Exhaustible
    <3>4. \A x \in DOMAIN tree : tree[x].node # "Select_i32"
      <4> SUFFICES ASSUME NEW x \in DOMAIN tree, tree[x].node = "Select_i32" PROVE FALSE
        OBVIOUS
      <4>1. Inner(tree, x)
        BY DEF Inner, Unvisited, Closed
      <4>2. x \in DOMAIN program /\ At(x).op \notin Leaf
              /\ tree[x].node = NodeOf[At(x).op]
        BY <1>2, <4>1 DEF Shape
      <4>3. At(x).op \in Ops
        BY <1>2, <4>2, ProgramsAssumption DEF At
      <4>4. At(x).op = "select_i32"
        BY <4>2, <4>3 DEF NodeOf, Ops, Leaf
      <4> QED BY <2>2, <4>2, <4>4 DEF Exhaustible
    <3>5. q \in ran \/ At(q).op = "assume"
      BY <1>1, <2>2, <3>1, <3>3, <3>4, <3>q, FrontierCovered DEF FrontierCoversInputs
    <3> QED BY <1>2, <3>5, <3>q
  <2>3. \A v \in Inputs : At(EndOf(v))' = At(EndOf(v))
    BY <1>1, <1>3 DEF At
  <2> QED BY <1>1, <1>2, <1>3, <2>1, <2>2, <2>3 DEF ExhaustionAccounted
<1> QED BY <1>1, <1>2, <1>4, <1>5, <1>6, <1>7, <1>8 DEF ConcolicInv

-----------------------------------------------------------------------------
(* The inductive invariant: the tree has the shape of the program, a count is  *)
(* stale only on the way to a node whose call has yet to return, each node    *)
(* accounts for the inputs below it, and the runs that count are those of the *)
(* explored nodes (cmd_conc.ml:88-337).                                       *)
THEOREM ConcolicInvariance == Spec => []ConcolicInv
<1>1. Init => ConcolicInv
  BY InitInv
<1>2. ConcolicInv /\ [Next]_vars => ConcolicInv'
  <2> SUFFICES ASSUME ConcolicInv, [Next]_vars PROVE ConcolicInv'
    OBVIOUS
  <2>1. CASE Run
    BY <2>1, RunInv
  <2>2. CASE Judge
    BY <2>2, JudgeInv
  <2>3. CASE \E p \in DOMAIN tree : Trim(p) \/ Pick(p) \/ GiveUp(p) \/ NoCondition(p)
    BY <2>3, TrimInv, PickInv, GiveUpInv, NoConditionInv
  <2>4. CASE Return
    BY <2>4, ReturnInv
  <2>5. CASE Returned
    BY <2>5, ReturnedInv
  <2>6. CASE UNCHANGED vars
    <3>1. \A x : /\ At(x)' = At(x) /\ EndOf(x)' = EndOf(x) /\ Models(x)' = Models(x)
                 /\ Refuted(x)' = Refuted(x)
      BY <2>6, SameProgram DEF vars
    <3>2. Exhaustible' = Exhaustible
      BY <2>6, SameProgram DEF vars
    <3>3. Shape(tree)'
      BY <2>6, ShapeStep DEF vars, ConcolicInv
    <3>4. \A x : Exact(tree, x)' <=> Exact(tree, x)
      BY <2>6, ExactStep DEF vars
    <3>5. \A x : Stale(x)' <=> Stale(x)
      BY <2>6 DEF vars, Stale
    <3>6. \A x : (Settled(x)' <=> Settled(x)) /\ (Open(x)' <=> Open(x))
      BY <2>6, <3>1 DEF vars, Settled, Open
    <3>7. CountsAccounted'
      BY <2>6, <3>4, <3>5 DEF vars, CountsAccounted, ConcolicInv
    <3>8. At(trace)' = At(trace) /\ \A v : At(EndOf(v))' = At(EndOf(v))
      BY <2>6, <3>1 DEF vars, At
    <3>9. SearchAccounted'
      BY <2>6, <3>6, <3>8 DEF vars, SearchAccounted, ConcolicInv
    <3>10. RunsAccounted'
      BY <2>6, <3>1, <3>8 DEF vars, RunsAccounted, ConcolicInv
    <3>11. ExhaustionAccounted'
      BY <2>6, <3>1, <3>2, <3>8 DEF vars, ExhaustionAccounted, ConcolicInv
    <3> QED BY <2>6, <3>3, <3>7, <3>9, <3>10, <3>11 DEF vars, ConcolicInv
  <2> QED BY <2>1, <2>2, <2>3, <2>4, <2>5, <2>6 DEF Next, Done
<1> QED BY <1>1, <1>2, PTL DEF Spec

(* The cached counts are those of the tree whenever a search begins, though    *)
(* they are updated one path at a time, and late for the nodes a search trims *)
(* (cmd_conc.ml:227, 336).                                                    *)
THEOREM CountsAreExact == Spec => []CountsExact
<1>1. ConcolicInv => CountsExact
  BY DEF ConcolicInv, CountsAccounted, Stale, CountsExact
<1> QED BY <1>1, ConcolicInvariance, PTL

(* The count of completed paths is that of different paths, and add_trace      *)
(* never meets a closed node (cmd_conc.ml:345, 352).                          *)
THEOREM NoPathIsCountedTwice == Spec => []NoPathTwice
<1>1. ConcolicInv => NoPathTwice
  BY DEF ConcolicInv, RunsAccounted, NoPathTwice
<1> QED BY <1>1, ConcolicInvariance, PTL

(* Whatever was run, trimmed and marked, the path of every input was run or    *)
(* goes through a node that the search may still find (cmd_conc.ml:280-337),  *)
(* but for the inputs of a path condition that the solver did not decide,     *)
(* which the code takes for unsatisfiable (cmd_conc.ml:308).                  *)
THEOREM NoInputIsForgotten == Spec => []FrontierCoversInputs
<1>1. ConcolicInv => FrontierCoversInputs
  BY FrontierCovered
<1> QED BY <1>1, ConcolicInvariance, PTL

(* For the programs whose branches can all be taken, and with a solver that    *)
(* decided all that it was asked, the verdict "All OK" means that no input    *)
(* makes the program fail (cmd_conc.ml:374, 460).                             *)
THEOREM AllOkIsRight == Spec => []AllOkSound
<1>1. ConcolicInv => AllOkSound
  BY DEF ConcolicInv, ExhaustionAccounted, AllOkSound
<1> QED BY <1>1, ConcolicInvariance, PTL

(* The tree is closed under the beginnings of its paths, and every variable    *)
(* has its type.                                                              *)
THEOREM ConcolicIsTyped == Spec => []TypeOK
<1>1. ConcolicInv => TypeOK
  <2> SUFFICES ASSUME ConcolicInv PROVE TypeOK
    OBVIOUS
  <2>1. \A p \in DOMAIN tree :
          tree[p] \in NodeType /\ \A k \in 0 .. Len(p) : Up(p, k) \in DOMAIN tree
    BY ShapePaths DEF ConcolicInv
  <2>2. /\ phase \in {"run", "judge", "search", "return", "done"}
             /\ forced \subseteq Inputs /\ unknown \subseteq Inputs
        /\ trace \in DOMAIN tree /\ to_update \in Seq(DOMAIN tree)
             /\ ran \subseteq DOMAIN tree
        /\ count_path \in Nat
             /\ verdict \in {"running", "All_OK", "Found_bug", "assert_false"}
    BY DEF ConcolicInv, CountsAccounted, RunsAccounted
  <2> QED BY <2>1, <2>2 DEF TypeOK, NodeType
<1> QED BY <1>1, ConcolicInvariance, PTL
=============================================================================
