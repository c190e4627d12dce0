--------------------------- MODULE Library_proofs ---------------------------
(***************************************************************************)
(* Theorems about the functions of lang_c.                                 *)
(*                                                                         *)
(* qsort is right for arrays of any length and any keys: it touches only   *)
(* the interval at hand, and when it returns the elements are those it was *)
(* given, in order.  The functions on texts convert the longest number at  *)
(* their beginning, whatever the text.  The functions on strings and bytes *)
(* do what they are for in every memory and at every address where they    *)
(* are defined, and strftime never writes behind the end of its buffer.    *)
(***************************************************************************)
EXTENDS Library, Numbers_proofs, WellFoundedInduction, SequenceTheorems, FiniteSetTheorems,
        FunctionTheorems, TLAPS

(* What an exchange does to the array. *)
LEMMA ExchangeElements ==
  ASSUME SortTypeOK, NEW u \in Places, NEW v \in Places, a' = exch(u, v),
         UNCHANGED <<nmemb, key>>
  PROVE  /\ a' \in [Places -> Places]
         /\ \A x \in Places :
              a'[x] = IF x = u THEN a[v] ELSE IF x = v THEN a[u] ELSE a[x]
         /\ \A x \in Places :
              K(x)' = IF x = u THEN K(v) ELSE IF x = v THEN K(u) ELSE K(x)
<1>1. a' \in [Places -> Places]
  BY DEF exch, SortTypeOK
<1>2. \A x \in Places :
        a'[x] = IF x = u THEN a[v] ELSE IF x = v THEN a[u] ELSE a[x]
  BY DEF exch, SortTypeOK
<1> QED BY <1>1, <1>2 DEF K

(* Keys are integers, of the array and of the pivot. *)
LEMMA KeysAreIntegers ==
  ASSUME SortTypeOK, NEW x \in Places
  PROVE  K(x) \in Int
BY SortAssumption DEF SortTypeOK, K

(* The intervals on the stack have integer ends. *)
LEMMA StackOfIntegers ==
  ASSUME SortTypeOK, NEW s \in 1 .. Len(stack)
  PROVE  stack[s][1] \in Int /\ stack[s][2] \in Int
<1>1. stack[s] \in Int \X Int
  BY DEF SortTypeOK
<1> QED BY <1>1

(* An exchange keeps all elements. *)
LEMMA ExchangePermutes ==
  ASSUME SortTypeOK, Permuted, NEW u \in Places, NEW v \in Places,
         a' = exch(u, v), UNCHANGED <<nmemb, key>>
  PROVE  Permuted'
<1> SUFFICES ASSUME NEW x \in Places
             PROVE  \E y \in Places : a'[y] = x
  BY DEF Permuted, Places
<1>1. PICK y \in Places : a[y] = x
  BY DEF Permuted
<1>2. \A z \in Places :
        a'[z] = IF z = u THEN a[v] ELSE IF z = v THEN a[u] ELSE a[z]
  BY ExchangeElements
<1>3. CASE y = u
  BY <1>1, <1>2, <1>3
<1>4. CASE y = v
  BY <1>1, <1>2, <1>4
<1>5. CASE y /= u /\ y /= v
  BY <1>1, <1>2, <1>5
<1> QED BY <1>3, <1>4, <1>5

(* An exchange within the interval at hand leaves the order elsewhere. *)
LEMMA ExchangeOrder ==
  ASSUME SortTypeOK, Pending, OrderedElsewhere,
         NEW u \in l .. r, NEW v \in l .. r,
         a' = exch(u, v), UNCHANGED <<nmemb, key, l, r, stack>>
  PROVE  OrderedElsewhere'
<1>1. u \in Places /\ v \in Places /\ l .. r \subseteq Places
  BY DEF Pending, SortTypeOK, Places
<1>2. \A x \in Places :
        K(x)' = IF x = u THEN K(v) ELSE IF x = v THEN K(u) ELSE K(x)
  BY <1>1, ExchangeElements
<1> SUFFICES ASSUME NEW x \in Places, NEW y \in Places, x < y, ~ Together(x, y)
             PROVE  K(x)' <= K(y)'
  BY DEF OrderedElsewhere, Together, Places
<1>3. \A z \in Places : z \in l .. r <=> l <= z /\ z <= r
  BY DEF SortTypeOK, Places
<1>4. K(x) <= K(y)
  BY DEF OrderedElsewhere
<1>5. CASE x \in l .. r /\ y \in l .. r
  BY <1>3, <1>5 DEF Together
<1>6. CASE x \in l .. r /\ y \notin l .. r
  <2>1. r < y
    BY <1>3, <1>6 DEF SortTypeOK, Places
  <2>2. \A z \in l .. r : K(z) <= K(y)
    <3> SUFFICES ASSUME NEW z \in l .. r PROVE ~ Together(z, y) /\ z < y
      BY <1>1 DEF OrderedElsewhere
    <3>1. z <= r /\ r \in Int /\ y \in Int /\ z \in Int
      BY DEF SortTypeOK, Places
    <3>2. \A s \in 1 .. Len(stack) : r < stack[s][1] /\ stack[s][1] \in Int
      BY StackOfIntegers DEF Pending
    <3> QED BY <2>1, <3>1, <3>2 DEF Together
  <2>3. K(y)' = K(y)
    BY <1>2, <1>6
  <2> QED BY <1>2, <1>6, <2>2, <2>3
<1>7. CASE x \notin l .. r /\ y \in l .. r
  <2>1. x < l
    BY <1>3, <1>7 DEF SortTypeOK, Places
  <2>2. \A z \in l .. r : K(x) <= K(z)
    <3> SUFFICES ASSUME NEW z \in l .. r PROVE ~ Together(x, z) /\ x < z
      BY <1>1 DEF OrderedElsewhere
    <3>1. l <= z /\ z <= r /\ l \in Int /\ r \in Int /\ x \in Int /\ z \in Int
      BY DEF SortTypeOK, Places
    <3>2. \A s \in 1 .. Len(stack) : r < stack[s][1] /\ stack[s][1] \in Int
      BY StackOfIntegers DEF Pending
    <3> QED BY <2>1, <3>1, <3>2 DEF Together
  <2>3. K(x)' = K(x)
    BY <1>2, <1>7
  <2> QED BY <1>2, <1>7, <2>2, <2>3
<1>8. CASE x \notin l .. r /\ y \notin l .. r
  BY <1>2, <1>4, <1>8
<1> QED BY <1>5, <1>6, <1>7, <1>8

(* What every exchange within the interval at hand keeps. *)
LEMMA ExchangeKeeps ==
  ASSUME SortTypeOK, Permuted, Pending, OrderedElsewhere,
         NEW u \in l .. r, NEW v \in l .. r,
         a' = exch(u, v), UNCHANGED <<nmemb, key, l, r, stack>>
  PROVE  /\ a' \in [Places -> Places]
         /\ l .. r \subseteq Places
         /\ \A x \in l .. r :
              K(x)' = IF x = u THEN K(v) ELSE IF x = v THEN K(u) ELSE K(x)
         /\ \A x \in l .. r : K(x) \in Int
         /\ Permuted' /\ Pending' /\ OrderedElsewhere'
<1>1. u \in Places /\ v \in Places /\ l .. r \subseteq Places
  BY DEF Pending, SortTypeOK, Places
<1>2. Pending'
  BY DEF Pending
<1> QED BY <1>1, <1>2, ExchangeElements, ExchangePermutes, ExchangeOrder, KeysAreIntegers

(* The keys of the interval, and what comparisons of its elements say. *)
LEMMA IntervalKeys ==
  ASSUME SortTypeOK, Pending
  PROVE  /\ l .. r \subseteq Places
         /\ \A x \in l .. r : K(x) \in Int
         /\ \A x, y \in l .. r : compar(a[x], a[y]) = K(x) - K(y)
<1>1. l .. r \subseteq Places
  BY DEF Pending, SortTypeOK, Places
<1> QED BY <1>1, KeysAreIntegers DEF compar, K

(* The steps that exchange nothing while the interval is scanned. *)
LEMMA ScanUpInv == SortInv /\ ScanUp => SortInv'
<1> SUFFICES ASSUME SortInv, ScanUp PROVE SortInv'
  OBVIOUS
<1> USE DEF ScanUp
<1>1. SortTypeOK /\ Permuted /\ Pending /\ OrderedElsewhere /\ Scanned /\ pc = "up"
  BY DEF SortInv
<1>2. SortTypeOK'
  BY <1>1 DEF SortTypeOK, Places
<1>3. Permuted' /\ Pending' /\ OrderedElsewhere'
  BY <1>1 DEF Permuted, Pending, OrderedElsewhere, Together, K, Places
<1>4. /\ l < r /\ l - 1 <= p /\ p <= i /\ q <= r /\ i < j /\ l < j /\ j <= q
      /\ Less(p + 1, i) /\ Greater(j, q - 1)
      /\ \A z \in l .. p : K(z) = K(r)
      /\ \A z \in q .. r : K(z) = K(r)
  BY <1>1 DEF Scanned
<1>5. i + 1 \in l .. r /\ r \in l .. r /\ j \in l .. r
  BY <1>1, <1>4 DEF SortTypeOK
<1>6. \A z \in l .. r : K(z) \in Int /\ compar(a[z], a[r]) = K(z) - K(r)
  BY <1>1, <1>5, IntervalKeys
<1>7. \A z : K(z)' = K(z)
  BY DEF K
<1>8. l \in Int /\ r \in Int /\ i \in Int /\ j \in Int /\ p \in Int /\ q \in Int
  BY <1>1 DEF SortTypeOK
<1>9. CASE i + 1 /= r /\ compar(a[i + 1], a[r]) < 0
  <2>1. K(i + 1) < K(r)
    BY <1>5, <1>6, <1>9
  <2>2. i + 1 < j
    <3>1. i + 1 /= j
      <4>1. CASE j = q
        BY <1>4, <1>5, <1>8, <2>1, <4>1, <1>6
      <4>2. CASE j < q
        BY <1>4, <1>5, <1>6, <1>8, <2>1, <4>2 DEF Greater
      <4> QED BY <1>4, <1>8, <4>1, <4>2
    <3> QED BY <1>4, <1>8, <3>1
  <2>3. Less(p + 1, i + 1)
    BY <1>4, <1>8, <2>1 DEF Less
  <2>4. Scanned'
    BY <1>4, <1>7, <1>8, <1>9, <2>2, <2>3 DEF Scanned, Less, Greater
  <2> QED BY <1>2, <1>3, <1>9, <2>4 DEF SortInv
<1>10. CASE ~ (i + 1 /= r /\ compar(a[i + 1], a[r]) < 0)
  <2>1. i + 1 = r \/ K(r) <= K(i + 1)
    BY <1>5, <1>6, <1>10
  <2>2. Scanned'
    BY <1>4, <1>5, <1>7, <1>8, <1>10, <2>1 DEF Scanned, Less, Greater
  <2> QED BY <1>2, <1>3, <1>10, <2>2 DEF SortInv
<1> QED BY <1>9, <1>10

(* The same from the right. *)
LEMMA ScanDownInv == SortInv /\ ScanDown => SortInv'
<1> SUFFICES ASSUME SortInv, ScanDown PROVE SortInv'
  OBVIOUS
<1> USE DEF ScanDown
<1>1. SortTypeOK /\ Permuted /\ Pending /\ OrderedElsewhere /\ Scanned /\ pc = "down"
  BY DEF SortInv
<1>2. SortTypeOK'
  BY <1>1 DEF SortTypeOK, Places
<1>3. Permuted' /\ Pending' /\ OrderedElsewhere'
  BY <1>1 DEF Permuted, Pending, OrderedElsewhere, Together, K, Places
<1>4. /\ l < r /\ l - 1 <= p /\ p < i /\ q <= r /\ i <= j /\ j <= q /\ l < j
      /\ Less(p + 1, i - 1) /\ Greater(j, q - 1)
      /\ \A z \in l .. p : K(z) = K(r)
      /\ \A z \in q .. r : K(z) = K(r)
      /\ i = r \/ K(r) <= K(i)
  BY <1>1 DEF Scanned
<1>5. l \in Int /\ r \in Int /\ i \in Int /\ j \in Int /\ p \in Int /\ q \in Int
  BY <1>1 DEF SortTypeOK
<1>6. j - 1 \in l .. r /\ r \in l .. r
  BY <1>4, <1>5
<1>7. \A z \in l .. r : K(z) \in Int /\ compar(a[r], a[z]) = K(r) - K(z)
  BY <1>1, <1>6, IntervalKeys
<1>8. \A z : K(z)' = K(z)
  BY DEF K
<1>9. CASE compar(a[r], a[j - 1]) < 0 /\ j - 1 /= l
  <2>1. K(r) < K(j - 1)
    BY <1>6, <1>7, <1>9
  <2>2. i <= j - 1
    <3> SUFFICES ASSUME j - 1 = i - 1 PROVE FALSE
      BY <1>4, <1>5
    <3>1. CASE j - 1 <= p
      BY <1>4, <1>5, <1>6, <1>7, <2>1, <3>1
    <3>2. CASE p < j - 1
      BY <1>4, <1>5, <1>6, <1>7, <2>1, <3>2 DEF Less
    <3> QED BY <1>5, <3>1, <3>2
  <2>3. Greater(j - 1, q - 1)
    BY <1>4, <1>5, <2>1 DEF Greater
  <2>4. Scanned'
    BY <1>4, <1>5, <1>6, <1>8, <1>9, <2>2, <2>3 DEF Scanned, Less, Greater
  <2> QED BY <1>2, <1>3, <1>9, <2>4 DEF SortInv
<1>10. CASE ~ (compar(a[r], a[j - 1]) < 0 /\ j - 1 /= l)
  <2>1. j - 1 = l \/ K(j - 1) <= K(r)
    BY <1>6, <1>7, <1>10
  <2>2. Scanned'
    BY <1>4, <1>5, <1>6, <1>8, <1>10, <2>1 DEF Scanned, Less, Greater
  <2> QED BY <1>2, <1>3, <1>10, <2>2 DEF SortInv
<1> QED BY <1>9, <1>10

(* An interval begins to be scanned, with its middle element as pivot. *)
LEMMA QuicksortInv == SortInv /\ quicksort => SortInv'
<1> SUFFICES ASSUME SortInv, quicksort PROVE SortInv'
  OBVIOUS
<1> USE DEF quicksort
<1>1. SortTypeOK /\ Permuted /\ Pending /\ OrderedElsewhere
  BY DEF SortInv
<1>2. l \in Int /\ r \in Int /\ l < r
  BY <1>1 DEF SortTypeOK
<1>3. l + (r - l) \div 2 \in l .. r /\ r \in l .. r
  BY <1>2
<1>4. /\ a' \in [Places -> Places]
      /\ Permuted' /\ Pending' /\ OrderedElsewhere'
  BY <1>1, <1>3, ExchangeKeeps
<1>5. SortTypeOK'
  BY <1>1, <1>2, <1>4 DEF SortTypeOK, Places
<1>6. Scanned'
  BY <1>2 DEF Scanned, Less, Greater
<1> QED BY <1>4, <1>5, <1>6 DEF SortInv

(* The exchanges while the interval is scanned. *)
LEMMA ExchangeInv == SortInv /\ Exchange => SortInv'
<1> SUFFICES ASSUME SortInv, Exchange PROVE SortInv'
  OBVIOUS
<1> USE DEF Exchange, scanVars
<1>1. SortTypeOK /\ Permuted /\ Pending /\ OrderedElsewhere /\ Scanned /\ pc = "exchange"
  BY DEF SortInv
<1>2. l \in Int /\ r \in Int /\ i \in Int /\ j \in Int /\ p \in Int /\ q \in Int
  BY <1>1 DEF SortTypeOK
<1>3. /\ l < r /\ l - 1 <= p /\ q <= r /\ p < i /\ i < j /\ j < q
      /\ Less(p + 1, i - 1) /\ Greater(j + 1, q - 1)
      /\ \A z \in l .. p : K(z) = K(r)
      /\ \A z \in q .. r : K(z) = K(r)
      /\ i = r \/ K(r) <= K(i)
      /\ j = l \/ K(j) <= K(r)
  BY <1>1 DEF Scanned
<1>4. i \in l .. r /\ j \in l .. r /\ i < r /\ l < j
  BY <1>2, <1>3
<1>5. /\ a' \in [Places -> Places]
      /\ Permuted' /\ Pending' /\ OrderedElsewhere'
      /\ \A x \in l .. r : K(x)' = IF x = i THEN K(j) ELSE IF x = j THEN K(i) ELSE K(x)
  BY <1>1, <1>4, ExchangeKeeps
<1>6. SortTypeOK'
  BY <1>1, <1>2, <1>5 DEF SortTypeOK, Places
<1>7. K(r)' = K(r)
  BY <1>2, <1>3, <1>4, <1>5
<1>8. /\ \A z \in l .. p : K(z)' = K(z)
      /\ \A z \in q .. r : K(z)' = K(z)
      /\ \A z \in p + 1 .. i - 1 : K(z)' = K(z)
      /\ \A z \in j + 1 .. q - 1 : K(z)' = K(z)
  BY <1>2, <1>3, <1>4, <1>5
<1>9. K(i)' = K(j) /\ K(j)' = K(i)
  BY <1>2, <1>3, <1>4, <1>5
<1>10. Scanned'
  BY <1>2, <1>3, <1>4, <1>7, <1>8, <1>9 DEF Scanned, Less, Greater
<1> QED BY <1>5, <1>6, <1>10 DEF SortInv

(* An element equal to the pivot is moved to the left end. *)
LEMMA KeepLeftInv == SortInv /\ KeepLeft => SortInv'
<1> SUFFICES ASSUME SortInv, KeepLeft PROVE SortInv'
  OBVIOUS
<1> USE DEF KeepLeft
<1>1. SortTypeOK /\ Permuted /\ Pending /\ OrderedElsewhere /\ Scanned /\ pc = "left"
  BY DEF SortInv
<1>2. l \in Int /\ r \in Int /\ i \in Int /\ j \in Int /\ p \in Int /\ q \in Int
  BY <1>1 DEF SortTypeOK
<1>3. /\ l < r /\ l - 1 <= p /\ q <= r /\ p < i /\ i < j /\ j < q
      /\ Less(p + 1, i - 1) /\ Greater(j + 1, q - 1)
      /\ \A z \in l .. p : K(z) = K(r)
      /\ \A z \in q .. r : K(z) = K(r)
      /\ K(i) <= K(r) /\ K(r) <= K(j)
  BY <1>1 DEF Scanned
<1>4. i \in l .. r /\ p + 1 \in l .. r /\ r \in l .. r
  BY <1>2, <1>3
<1>5. \A z \in l .. r : K(z) \in Int /\ compar(a[z], a[r]) = K(z) - K(r)
  BY <1>1, <1>4, IntervalKeys
<1>6. CASE compar(a[i], a[r]) = 0
  <2>1. K(i) = K(r)
    BY <1>4, <1>5, <1>6
  <2>2. /\ a' \in [Places -> Places]
        /\ Permuted' /\ Pending' /\ OrderedElsewhere'
        /\ \A x \in l .. r :
             K(x)' = IF x = p + 1 THEN K(i) ELSE IF x = i THEN K(p + 1) ELSE K(x)
    BY <1>1, <1>4, <1>6, ExchangeKeeps
  <2>3. SortTypeOK'
    BY <1>1, <1>2, <1>6, <2>2 DEF SortTypeOK, Places
  <2>4. /\ K(r)' = K(r) /\ K(j)' = K(j)
        /\ \A z \in l .. p : K(z)' = K(z)
        /\ \A z \in q .. r : K(z)' = K(z)
        /\ \A z \in p + 2 .. i - 1 : K(z)' = K(z)
        /\ \A z \in j + 1 .. q - 1 : K(z)' = K(z)
        /\ \A z \in l .. r : z = p + 1 => K(z)' = K(r)
    BY <1>2, <1>3, <1>4, <2>1, <2>2
  <2>5. p + 1 < i => K(i)' < K(r)
    <3> SUFFICES ASSUME p + 1 < i PROVE K(i)' < K(r)
      OBVIOUS
    <3>1. K(i)' = K(p + 1)
      BY <1>2, <1>4, <2>2
    <3>2. K(p + 1) < K(r)
      BY <1>2, <1>3 DEF Less
    <3> QED BY <3>1, <3>2
  <2>6. Less(p + 1, i)'
    BY <1>6, <1>2, <1>3, <1>5, <2>4, <2>5 DEF Less
  <2>7. Greater(j + 1, q - 1)' /\ (\A z \in l .. p : K(z) = K(r))'
    BY <1>4, <1>6, <1>2, <1>3, <2>4 DEF Greater
  <2>8. Scanned'
    BY <1>2, <1>3, <1>6, <2>4, <2>6, <2>7 DEF Scanned
  <2> QED BY <2>2, <2>3, <2>8 DEF SortInv
<1>7. CASE compar(a[i], a[r]) /= 0
  <2>1. K(i) < K(r)
    BY <1>3, <1>4, <1>5, <1>7
  <2>2. SortTypeOK' /\ Permuted' /\ Pending' /\ OrderedElsewhere'
    BY <1>1, <1>7 DEF SortTypeOK, Permuted, Pending, OrderedElsewhere, Together, K, Places
  <2>3. \A z : K(z)' = K(z)
    BY <1>7 DEF K
  <2>4. Scanned'
    BY <1>2, <1>3, <1>7, <2>1, <2>3 DEF Scanned, Less, Greater
  <2> QED BY <2>2, <2>4 DEF SortInv
<1> QED BY <1>6, <1>7

(* An element equal to the pivot is moved to the right end. *)
LEMMA KeepRightInv == SortInv /\ KeepRight => SortInv'
<1> SUFFICES ASSUME SortInv, KeepRight PROVE SortInv'
  OBVIOUS
<1> USE DEF KeepRight
<1>1. SortTypeOK /\ Permuted /\ Pending /\ OrderedElsewhere /\ Scanned /\ pc = "right"
  BY DEF SortInv
<1>2. l \in Int /\ r \in Int /\ i \in Int /\ j \in Int /\ p \in Int /\ q \in Int
  BY <1>1 DEF SortTypeOK
<1>3. /\ l < r /\ l - 1 <= p /\ p <= i /\ q <= r /\ l <= i /\ i < j /\ j < q
      /\ Less(p + 1, i) /\ Greater(j + 1, q - 1)
      /\ \A z \in l .. p : K(z) = K(r)
      /\ \A z \in q .. r : K(z) = K(r)
      /\ K(r) <= K(j)
  BY <1>1 DEF Scanned
<1>4. j \in l .. r /\ q - 1 \in l .. r /\ r \in l .. r
  BY <1>2, <1>3
<1>5. \A z \in l .. r : K(z) \in Int /\ compar(a[r], a[z]) = K(r) - K(z)
  BY <1>1, <1>4, IntervalKeys
<1>6. CASE compar(a[r], a[j]) = 0
  <2>1. K(j) = K(r)
    BY <1>4, <1>5, <1>6
  <2>2. /\ a' \in [Places -> Places]
        /\ Permuted' /\ Pending' /\ OrderedElsewhere'
        /\ \A x \in l .. r :
             K(x)' = IF x = j THEN K(q - 1) ELSE IF x = q - 1 THEN K(j) ELSE K(x)
    BY <1>1, <1>4, <1>6, ExchangeKeeps
  <2>3. SortTypeOK'
    BY <1>1, <1>2, <1>6, <2>2 DEF SortTypeOK, Places
  <2>4. /\ K(r)' = K(r)
        /\ \A z \in l .. p : K(z)' = K(z)
        /\ \A z \in q .. r : K(z)' = K(z)
        /\ \A z \in p + 1 .. i : K(z)' = K(z)
        /\ \A z \in j + 1 .. q - 2 : K(z)' = K(z)
        /\ \A z \in l .. r : z = q - 1 => K(z)' = K(r)
    BY <1>2, <1>3, <1>4, <2>1, <2>2
  <2>5. j < q - 1 => K(r) < K(j)'
    <3> SUFFICES ASSUME j < q - 1 PROVE K(r) < K(j)'
      OBVIOUS
    <3>1. K(j)' = K(q - 1)
      BY <1>2, <1>4, <2>2
    <3>2. K(r) < K(q - 1)
      BY <1>2, <1>3 DEF Greater
    <3> QED BY <3>1, <3>2
  <2>6. Greater(j, q - 1)'
    BY <1>6, <1>2, <1>3, <1>5, <2>4, <2>5 DEF Greater
  <2>7. Less(p + 1, i)' /\ (\A z \in q .. r : K(z) = K(r))'
    BY <1>4, <1>6, <1>2, <1>3, <2>4 DEF Less
  <2>8. Scanned'
    BY <1>2, <1>3, <1>6, <2>4, <2>6, <2>7 DEF Scanned
  <2> QED BY <2>2, <2>3, <2>8 DEF SortInv
<1>7. CASE compar(a[r], a[j]) /= 0
  <2>1. K(r) < K(j)
    BY <1>3, <1>4, <1>5, <1>7
  <2>2. SortTypeOK' /\ Permuted' /\ Pending' /\ OrderedElsewhere'
    BY <1>1, <1>7 DEF SortTypeOK, Permuted, Pending, OrderedElsewhere, Together, K, Places
  <2>3. \A z : K(z)' = K(z)
    BY <1>7 DEF K
  <2>4. Scanned'
    BY <1>2, <1>3, <1>7, <2>1, <2>3 DEF Scanned, Less, Greater
  <2> QED BY <2>2, <2>4 DEF SortInv
<1> QED BY <1>6, <1>7

(* The pivot is put where the scans met. *)
LEMMA PlaceInv == SortInv /\ Place => SortInv'
<1> SUFFICES ASSUME SortInv, Place PROVE SortInv'
  OBVIOUS
<1> USE DEF Place
<1>1. SortTypeOK /\ Permuted /\ Pending /\ OrderedElsewhere /\ Scanned /\ pc = "exchange"
  BY DEF SortInv
<1>2. l \in Int /\ r \in Int /\ i \in Int /\ j \in Int /\ p \in Int /\ q \in Int
  BY <1>1 DEF SortTypeOK
<1>3. /\ l < r /\ l - 1 <= p /\ q <= r /\ p < i /\ j <= i /\ i <= j + 1 /\ j < q
      /\ Less(p + 1, i - 1) /\ Greater(j + 1, q - 1)
      /\ \A z \in l .. p : K(z) = K(r)
      /\ \A z \in q .. r : K(z) = K(r)
      /\ i = r \/ K(r) <= K(i)
  BY <1>1 DEF Scanned
<1>4. i \in l .. r /\ r \in l .. r
  BY <1>2, <1>3
<1>5. /\ a' \in [Places -> Places]
      /\ Permuted' /\ Pending' /\ OrderedElsewhere'
      /\ \A x \in l .. r : K(x)' = IF x = i THEN K(r) ELSE IF x = r THEN K(i) ELSE K(x)
      /\ \A x \in l .. r : K(x) \in Int
  BY <1>1, <1>4, ExchangeKeeps
<1>6. SortTypeOK'
  BY <1>1, <1>2, <1>5 DEF SortTypeOK, Places
<1>7. K(r) <= K(i)
  BY <1>3, <1>4, <1>5
<1>8. /\ \A z \in l .. i - 1 : K(z)' <= K(r)
      /\ \A z \in l .. p : K(z)' = K(r)
  <2>1. \A z \in l .. i - 1 : K(z)' = K(z) /\ K(z) \in Int
    BY <1>2, <1>4, <1>5
  <2>2. \A z \in l .. i - 1 : z \in l .. p \/ z \in p + 1 .. i - 1
    BY <1>2, <1>3
  <2>3. \A z \in l .. p : z \in l .. i - 1
    BY <1>2, <1>3
  <2> QED BY <1>3, <1>4, <1>5, <2>1, <2>2, <2>3 DEF Less
<1>9. /\ \A z \in i + 1 .. r : K(r) <= K(z)'
      /\ \A z \in q .. r - 1 : K(z)' = K(r)
  <2>1. \A z \in l .. r : z /= i /\ z /= r => K(z)' = K(z)
    BY <1>5
  <2>2. \A z \in i + 1 .. r : z \in j + 1 .. q - 1 \/ z \in q .. r
    BY <1>2, <1>3
  <2>3. \A z \in i + 1 .. r - 1 : z \in l .. r /\ z /= i /\ z /= r
    BY <1>2, <1>3, <1>4
  <2>4. \A z \in i + 1 .. r - 1 : K(r) <= K(z)'
    BY <1>2, <1>3, <1>4, <1>5, <2>1, <2>2, <2>3 DEF Greater
  <2>5. K(r)' = K(i)
    BY <1>4, <1>5
  <2>6. \A z \in i + 1 .. r : z \in i + 1 .. r - 1 \/ z = r
    BY <1>2
  <2>7. \A z \in i + 1 .. r : K(r) <= K(z)'
    <3> SUFFICES ASSUME NEW z \in i + 1 .. r PROVE K(r) <= K(z)'
      OBVIOUS
    <3>1. CASE z \in i + 1 .. r - 1
      BY <2>4, <3>1
    <3>2. CASE z = r
      <4>1. K(z)' = K(i)
        BY <1>4, <1>5, <3>2
      <4> QED BY <1>7, <4>1
    <3> QED BY <2>6, <3>1, <3>2
  <2>8. \A z \in q .. r - 1 : z \in l .. r /\ z /= r /\ z \in q .. r
    BY <1>2, <1>3
  <2>9. \A z \in q .. r - 1 : K(z)' = K(r)
    BY <1>3, <1>5, <2>8
  <2> QED BY <2>7, <2>9
<1>10. \A z \in l .. r : z = i => K(z)' = K(r)
  BY <1>5
<1>11. FoldsLeft'
  BY <1>2, <1>3, <1>4, <1>8, <1>9, <1>10 DEF FoldsLeft
<1> QED BY <1>5, <1>6, <1>11 DEF SortInv

(* An element equal to the pivot moves from the left end to its middle.     *)
LEMMA FoldLeftInv == SortInv /\ FoldLeft => SortInv'
<1> SUFFICES ASSUME SortInv, FoldLeft PROVE SortInv'
  OBVIOUS
<1> USE DEF FoldLeft
<1> DEFINE m == i - 1
<1>1. SortTypeOK /\ Permuted /\ Pending /\ OrderedElsewhere /\ FoldsLeft /\ pc = "fold_left"
  BY DEF SortInv
<1>2. /\ l \in Int /\ r \in Int /\ i \in Int /\ j \in Int /\ p \in Int /\ q \in Int
      /\ k \in Int
  BY <1>1 DEF SortTypeOK
<1>3. /\ l <= m /\ p < m /\ m <= q /\ q <= r /\ l <= k /\ (k = l \/ k <= p)
      /\ j = l + m - 1 - k
      /\ \A z \in l .. m - 1 : K(z) <= K(m)
      /\ \A z \in m + 1 .. r : K(m) <= K(z)
      /\ \A z \in q .. r - 1 : K(z) = K(m)
      /\ \A z \in j + 1 .. m - 1 : K(z) = K(m)
      /\ \A z \in k .. p : K(z) = K(m)
      /\ \A z \in l .. k - 1 : l + m - 1 - z <= p => K(z) = K(m)
  BY <1>1 DEF FoldsLeft
<1>4. CASE k < p
  <2>1. k \in l .. m - 1 /\ j \in l .. m - 1 /\ m \in l .. r
    BY <1>2, <1>3, <1>4
  <2>2. k \in l .. r /\ j \in l .. r
    BY <1>2, <2>1
  <2>3. /\ a' \in [Places -> Places]
        /\ Permuted' /\ Pending' /\ OrderedElsewhere'
        /\ \A x \in l .. r : K(x)' = IF x = k THEN K(j) ELSE IF x = j THEN K(k) ELSE K(x)
    BY <1>1, <1>4, <2>2, ExchangeKeeps
  <2>4. SortTypeOK'
    BY <1>1, <1>2, <1>4, <2>3 DEF SortTypeOK, Places
  <2>5. K(k) = K(m)
    BY <1>2, <1>3, <1>4
  <2>6. \A x \in l .. r : x = m => K(x)' = K(m)
    BY <1>2, <2>1, <2>3
  <2>7. \A x \in l .. r : x = j => K(x)' = K(m)
    BY <2>2, <2>3, <2>5
  <2>8. \A z \in l .. m - 1 : K(z)' <= K(m)
    BY <1>2, <1>3, <2>1, <2>3
  <2>9. /\ \A z \in m + 1 .. r : K(m) <= K(z)'
        /\ \A z \in q .. r - 1 : K(z)' = K(m)
    BY <1>2, <1>3, <2>1, <2>3
  <2>10. (j <= p) => K(j) = K(m)
    <3> SUFFICES ASSUME j <= p PROVE K(j) = K(m)
      OBVIOUS
    <3>1. CASE k <= j
      BY <1>2, <1>3, <2>1, <3>1
    <3>2. CASE j < k
      <4>1. j \in l .. k - 1 /\ l + m - 1 - j <= p
        BY <1>2, <1>3, <1>4, <2>1, <3>2
      <4> QED BY <1>3, <4>1
    <3> QED BY <1>2, <3>1, <3>2
  <2>11. \A z \in j .. m - 1 : K(z)' = K(m)
    <3> SUFFICES ASSUME NEW z \in j .. m - 1 PROVE K(z)' = K(m)
      OBVIOUS
    <3>1. z \in l .. r
      BY <1>2, <1>3, <2>1
    <3>2. CASE z = j
      BY <2>7, <3>1, <3>2
    <3>3. CASE z = k /\ z /= j
      BY <1>2, <1>4, <2>3, <2>10, <3>1, <3>3
    <3>4. CASE z /= k /\ z /= j
      <4>1. z \in j + 1 .. m - 1
        BY <1>2, <2>1, <3>4
      <4> QED BY <1>3, <2>3, <3>1, <3>4, <4>1
    <3> QED BY <3>2, <3>3, <3>4
  <2>12. \A z \in k + 1 .. p : K(z)' = K(m)
    <3> SUFFICES ASSUME NEW z \in k + 1 .. p PROVE K(z)' = K(m)
      OBVIOUS
    <3>1. z \in l .. r /\ z \in k .. p /\ z /= k
      BY <1>2, <1>3, <2>1
    <3> QED BY <1>3, <2>3, <2>5, <3>1
  <2>13. \A z \in l .. k : l + m - 1 - z <= p => K(z)' = K(m)
    <3> SUFFICES ASSUME NEW z \in l .. k, l + m - 1 - z <= p PROVE K(z)' = K(m)
      OBVIOUS
    <3>1. z \in l .. r
      BY <1>2, <2>2
    <3>2. CASE z = k
      <4>1. j <= p
        BY <1>2, <1>3, <3>2
      <4> QED BY <2>3, <2>10, <3>1, <3>2, <4>1
    <3>3. CASE z = j /\ z /= k
      BY <2>3, <2>5, <3>1, <3>3
    <3>4. CASE z /= k /\ z /= j
      <4>1. z \in l .. k - 1
        BY <1>2, <3>4
      <4> QED BY <1>3, <2>3, <3>1, <3>4, <4>1
    <3> QED BY <3>2, <3>3, <3>4
  <2>14. FoldsLeft'
    BY <1>2, <1>3, <1>4, <2>1, <2>6, <2>8, <2>9, <2>11, <2>12, <2>13 DEF FoldsLeft
  <2> QED BY <1>1, <1>4, <2>3, <2>4, <2>14 DEF SortInv
<1>5. CASE ~ (k < p)
  <2>1. \A z : K(z)' = K(z)
    BY <1>5 DEF K
  <2>2. SortTypeOK' /\ Permuted' /\ Pending' /\ OrderedElsewhere'
    BY <1>1, <1>2, <1>5 DEF SortTypeOK, Permuted, Pending, OrderedElsewhere, Together, K, Places
  <2>3. l - 1 <= j /\ j < m
    BY <1>2, <1>3, <1>5
  <2>4. \A z \in l .. j : z \in l .. m - 1
    BY <1>2, <2>3
  <2>5. \A z \in j + 1 .. i - 1 : z \in j + 1 .. m - 1 \/ z = m
    BY <1>2
  <2>6. \A z \in j + 1 .. i - 1 : K(z) = K(m)
    BY <1>3, <2>5
  <2>7. FoldsRight'
    BY <1>2, <1>3, <1>5, <2>1, <2>3, <2>4, <2>6 DEF FoldsRight
  <2> QED BY <1>1, <1>5, <2>2, <2>7 DEF SortInv
<1> QED BY <1>4, <1>5

(* An element equal to the pivot moves from the right end to its middle.    *)
LEMMA FoldRightInv == SortInv /\ FoldRight => SortInv'
<1> SUFFICES ASSUME SortInv, FoldRight PROVE SortInv'
  OBVIOUS
<1> USE DEF FoldRight
<1> DEFINE m == i + k - r
<1>1. SortTypeOK /\ Permuted /\ Pending /\ OrderedElsewhere /\ FoldsRight /\ pc = "fold_right"
  BY DEF SortInv
<1>2. /\ l \in Int /\ r \in Int /\ i \in Int /\ j \in Int /\ p \in Int /\ q \in Int
      /\ k \in Int
  BY <1>1 DEF SortTypeOK
<1>3. /\ l <= m /\ m <= q /\ q <= r /\ l - 1 <= j /\ j < m /\ m < i
      /\ k < r /\ (k = r - 1 \/ q <= k)
      /\ \A z \in l .. j : K(z) <= K(m)
      /\ \A z \in j + 1 .. i - 1 : K(z) = K(m)
      /\ \A z \in m + 1 .. r : K(m) <= K(z)
      /\ \A z \in q .. k : K(z) = K(m)
      /\ \A z \in k + 1 .. r - 1 : q <= m + r - z => K(z) = K(m)
  BY <1>1 DEF FoldsRight
<1>4. /\ i \in l .. r /\ k \in l .. r /\ m < k /\ i < r /\ i + k = m + r /\ q < k
      /\ m \in l .. r
  BY <1>2, <1>3
<1>5. /\ a' \in [Places -> Places]
      /\ Permuted' /\ Pending' /\ OrderedElsewhere'
      /\ \A x \in l .. r : K(x)' = IF x = i THEN K(k) ELSE IF x = k THEN K(i) ELSE K(x)
  BY <1>1, <1>4, ExchangeKeeps
<1>6. SortTypeOK'
  BY <1>1, <1>2, <1>5 DEF SortTypeOK, Places
<1>7. K(k) = K(m)
  BY <1>2, <1>3, <1>4
<1>8. \A x \in l .. r : x = m => K(x)' = K(m)
  BY <1>2, <1>3, <1>4, <1>5
<1>9. \A z \in l .. j : K(z)' <= K(m)
  <2> SUFFICES ASSUME NEW z \in l .. j PROVE K(z)' <= K(m)
    OBVIOUS
  <2>1. z \in l .. r /\ z /= i /\ z /= k
    BY <1>2, <1>3, <1>4
  <2> QED BY <1>3, <1>5, <2>1
<1>10. \A z \in j + 1 .. i : K(z)' = K(m)
  <2> SUFFICES ASSUME NEW z \in j + 1 .. i PROVE K(z)' = K(m)
    OBVIOUS
  <2>1. z \in l .. r
    BY <1>2, <1>3, <1>4
  <2>2. CASE z = i
    BY <1>5, <1>7, <2>1, <2>2
  <2>3. CASE z = k /\ z /= i
    <3>1. K(i) = K(m)
      <4>1. i \in k + 1 .. r - 1 /\ q <= m + r - i
        BY <1>2, <1>3, <1>4, <2>3
      <4> QED BY <1>3, <4>1
    <3> QED BY <1>5, <2>1, <2>3, <3>1
  <2>4. CASE z /= k /\ z /= i
    <3>1. z \in j + 1 .. i - 1
      BY <1>2, <2>4
    <3> QED BY <1>3, <1>5, <2>1, <2>4, <3>1
  <2> QED BY <2>2, <2>3, <2>4
<1>11. \A z \in m + 1 .. r : K(m) <= K(z)'
  <2> SUFFICES ASSUME NEW z \in m + 1 .. r PROVE K(m) <= K(z)'
    OBVIOUS
  <2>1. z \in l .. r /\ i \in m + 1 .. r /\ k \in m + 1 .. r
    BY <1>2, <1>3, <1>4
  <2> QED BY <1>3, <1>5, <2>1
<1>12. q <= i => K(i) = K(m)
  <2> SUFFICES ASSUME q <= i PROVE K(i) = K(m)
    OBVIOUS
  <2>1. CASE i <= k
    BY <1>2, <1>3, <1>4, <2>1
  <2>2. CASE k < i
    <3>1. i \in k + 1 .. r - 1 /\ q <= m + r - i
      BY <1>2, <1>3, <1>4, <2>2
    <3> QED BY <1>3, <3>1
  <2> QED BY <1>2, <2>1, <2>2
<1>13. \A z \in q .. k - 1 : K(z)' = K(m)
  <2> SUFFICES ASSUME NEW z \in q .. k - 1 PROVE K(z)' = K(m)
    OBVIOUS
  <2>1. z \in l .. r /\ z \in q .. k /\ z /= k
    BY <1>2, <1>3, <1>4
  <2> QED BY <1>3, <1>5, <1>7, <2>1
<1>14. \A z \in k .. r - 1 : q <= m + r - z => K(z)' = K(m)
  <2> SUFFICES ASSUME NEW z \in k .. r - 1, q <= m + r - z PROVE K(z)' = K(m)
    OBVIOUS
  <2>1. z \in l .. r
    BY <1>2, <1>4
  <2>2. CASE z = i
    BY <1>5, <1>7, <2>1, <2>2
  <2>3. CASE z = k /\ z /= i
    <3>1. q <= i
      BY <1>2, <1>4, <2>3
    <3> QED BY <1>5, <1>12, <2>1, <2>3, <3>1
  <2>4. CASE z /= i /\ z /= k
    <3>1. z \in k + 1 .. r - 1
      BY <1>2, <2>4
    <3> QED BY <1>3, <1>5, <2>1, <2>4, <3>1
  <2> QED BY <2>2, <2>3, <2>4
<1>15. FoldsRight'
  BY <1>2, <1>3, <1>4, <1>8, <1>9, <1>10, <1>11, <1>13, <1>14 DEF FoldsRight
<1> QED BY <1>1, <1>5, <1>6, <1>15 DEF SortInv

(* The interval is split around the elements equal to the pivot. *)
LEMMA RecurseInv == SortInv /\ Recurse => SortInv'
<1> SUFFICES ASSUME SortInv, Recurse PROVE SortInv'
  OBVIOUS
<1> USE DEF Recurse, scanVars
<1> DEFINE m == i + k - r
<1>1. SortTypeOK /\ Permuted /\ Pending /\ OrderedElsewhere /\ FoldsRight /\ pc = "fold_right"
  BY DEF SortInv
<1>2. /\ l \in Int /\ r \in Int /\ i \in Int /\ j \in Int /\ p \in Int /\ q \in Int
      /\ k \in Int /\ nmemb \in Nat
  BY <1>1 DEF SortTypeOK
<1>3. /\ l <= m /\ m <= r /\ l - 1 <= j /\ j < m /\ m < i
      /\ \A z \in l .. j : K(z) <= K(m)
      /\ \A z \in j + 1 .. i - 1 : K(z) = K(m)
      /\ \A z \in m + 1 .. r : K(m) <= K(z)
  BY <1>1, <1>2 DEF FoldsRight
<1>4. /\ stack \in Seq(Int \X Int)
      /\ stack' \in Seq(Int \X Int)
      /\ Len(stack) \in Nat /\ Len(stack') = Len(stack) + 1
      /\ stack'[1] = <<i, r>>
      /\ \A s \in 1 .. Len(stack) : stack'[s + 1] = stack[s]
  <2>1. stack \in Seq(Int \X Int) /\ << <<i, r>> >> \in Seq(Int \X Int)
    BY <1>1, <1>2 DEF SortTypeOK
  <2> QED BY <2>1
<1>5. SortTypeOK' /\ Permuted'
  BY <1>1, <1>2, <1>4 DEF SortTypeOK, Permuted, Places
<1>6. \A s \in 1 .. Len(stack) : stack[s][1] \in Int /\ stack[s][2] \in Int
  BY <1>1, StackOfIntegers
<1>7. Pending'
  <2>1. \A s \in 1 .. Len(stack') : s = 1 \/ s - 1 \in 1 .. Len(stack)
    BY <1>4
  <2>2. \A s \in 1 .. Len(stack') : s /= 1 => stack'[s] = stack[s - 1]
    BY <1>4, <2>1
  <2>3. 0 <= l /\ r < nmemb /\ j < nmemb /\ 0 <= i /\ j < i
    BY <1>1, <1>2, <1>3 DEF Pending
  <2>4. ASSUME NEW s \in 1 .. Len(stack')
        PROVE  0 <= stack'[s][1] /\ stack'[s][2] < nmemb /\ j < stack'[s][1]
    <3>1. CASE s = 1
      BY <1>4, <2>3, <3>1
    <3>2. CASE s /= 1
      <4>1. s - 1 \in 1 .. Len(stack) /\ stack'[s] = stack[s - 1]
        BY <2>1, <2>2, <3>2
      <4>2. /\ 0 <= stack[s - 1][1] /\ stack[s - 1][2] < nmemb /\ r < stack[s - 1][1]
            /\ stack[s - 1][1] \in Int
        BY <1>1, <1>6, <4>1 DEF Pending
      <4> QED BY <1>2, <1>3, <4>1, <4>2
    <3> QED BY <3>1, <3>2
  <2>5. ASSUME NEW s \in 1 .. Len(stack'), NEW t \in 1 .. Len(stack'), s < t
        PROVE  stack'[s][2] < stack'[t][1]
    <3>1. t - 1 \in 1 .. Len(stack) /\ stack'[t] = stack[t - 1]
      <4>1. t /= 1
        BY ONLY <2>5, Len(stack') \in Nat, s \in 1 .. Len(stack'), t \in 1 .. Len(stack')
      <4> QED BY ONLY <2>1, <2>2, <4>1, t \in 1 .. Len(stack')
    <3>2. CASE s = 1
      BY <1>1, <1>4, <3>1, <3>2 DEF Pending
    <3>3. CASE s /= 1
      <4>1. s - 1 \in 1 .. Len(stack) /\ stack'[s] = stack[s - 1] /\ s - 1 < t - 1
        BY <1>4, <2>1, <2>2, <2>5, <3>3
      <4> QED BY <1>1, <3>1, <4>1 DEF Pending
    <3> QED BY <3>2, <3>3
  <2> QED BY <1>2, <2>3, <2>4, <2>5 DEF Pending
<1>8. OrderedElsewhere'
  <2> SUFFICES ASSUME NEW x \in Places, NEW y \in Places, x < y, ~ Together(x, y)'
               PROVE  K(x) <= K(y)
    BY DEF OrderedElsewhere, Places, K
  <2>1. x \in Int /\ y \in Int
    BY DEF Places
  <2>2. ~ (l <= x /\ y <= j) /\ ~ (i <= x /\ y <= r)
    BY <1>4 DEF Together
  <2>3. \A s \in 1 .. Len(stack) : ~ (stack[s][1] <= x /\ y <= stack[s][2])
    <3> SUFFICES ASSUME NEW s \in 1 .. Len(stack)
                 PROVE  ~ (stack[s][1] <= x /\ y <= stack[s][2])
      OBVIOUS
    <3>1. s + 1 \in 1 .. Len(stack') /\ stack'[s + 1] = stack[s]
      BY <1>4
    <3> QED BY <3>1 DEF Together
  <2>4. CASE ~ (l <= x /\ y <= r)
    BY <1>1, <2>3, <2>4 DEF OrderedElsewhere, Together
  <2>5. CASE l <= x /\ y <= r
    <3>1. K(x) <= K(m)
      <4>1. x \in l .. j \/ x \in j + 1 .. i - 1
        BY <1>2, <1>3, <2>1, <2>2, <2>5
      <4>2. K(x) \in Int
        BY <1>1, KeysAreIntegers
      <4> QED BY <1>3, <4>1, <4>2
    <3>2. K(m) <= K(y)
      <4>1. y \in j + 1 .. i - 1 \/ y \in m + 1 .. r
        BY <1>2, <1>3, <2>1, <2>2, <2>5
      <4>2. K(y) \in Int
        BY <1>1, KeysAreIntegers
      <4> QED BY <1>3, <4>1, <4>2
    <3>3. m \in Places
      <4>1. 0 <= l /\ r < nmemb
        BY ONLY <1>1 DEF Pending
      <4> QED BY ONLY <1>2, <1>3, <4>1 DEF Places
    <3> QED BY <1>1, <3>1, <3>2, <3>3, KeysAreIntegers
  <2> QED BY <2>4, <2>5
<1> QED BY <1>5, <1>7, <1>8 DEF SortInv

(* An interval of at most one element is sorted; the next one is taken. *)
LEMMA ReturnInv == SortInv /\ Return => SortInv'
<1> SUFFICES ASSUME SortInv, Return PROVE SortInv'
  OBVIOUS
<1> USE DEF Return, scanVars
<1>1. SortTypeOK /\ Permuted /\ Pending /\ OrderedElsewhere /\ pc = "quicksort"
  BY DEF SortInv
<1>2. l \in Int /\ r \in Int /\ r <= l
  BY <1>1 DEF SortTypeOK
<1>3. \A x : K(x)' = K(x)
  BY DEF K
<1>4. Permuted'
  BY <1>1 DEF Permuted, Places
<1>5. \A x, y \in Places : x < y => ~ (l <= x /\ y <= r)
  BY <1>2 DEF Places
<1>6. CASE stack = << >>
  <2>1. SortTypeOK'
    BY <1>1, <1>6 DEF SortTypeOK, Places
  <2>2. \A x, y \in Places : x < y => K(x) <= K(y)
    BY <1>1, <1>5, <1>6 DEF OrderedElsewhere, Together
  <2> QED BY <1>3, <1>4, <1>6, <2>1, <2>2 DEF SortInv, Places
<1>7. CASE stack /= << >>
  <2>1. /\ stack \in Seq(Int \X Int) /\ Len(stack) \in Nat \ {0}
        /\ Tail(stack) \in Seq(Int \X Int) /\ Len(Tail(stack)) = Len(stack) - 1
        /\ Head(stack) = stack[1]
        /\ \A s \in 1 .. Len(Tail(stack)) : Tail(stack)[s] = stack[s + 1]
    BY <1>1, <1>7 DEF SortTypeOK
  <2>2. \A s \in 1 .. Len(stack) : stack[s][1] \in Int /\ stack[s][2] \in Int
    BY <1>1, StackOfIntegers
  <2>3. l' = stack[1][1] /\ r' = stack[1][2] /\ stack' = Tail(stack) /\ 1 \in 1 .. Len(stack)
    BY <1>7, <2>1
  <2>4. SortTypeOK'
    BY <1>1, <1>7, <2>1, <2>2, <2>3 DEF SortTypeOK, Places
  <2>5. \A s \in 1 .. Len(stack') : s + 1 \in 1 .. Len(stack) /\ stack'[s] = stack[s + 1]
    BY <2>1, <2>3
  <2>6. Pending'
    BY <1>1, <2>3, <2>5 DEF Pending
  <2>7. OrderedElsewhere'
    <3> SUFFICES ASSUME NEW x \in Places, NEW y \in Places, x < y, ~ Together(x, y)'
                 PROVE  K(x) <= K(y)
      BY <1>3 DEF OrderedElsewhere, Places
    <3>1. ASSUME NEW s \in 1 .. Len(stack)
          PROVE  ~ (stack[s][1] <= x /\ y <= stack[s][2])
      <4>1. CASE s = 1
        BY <2>3, <4>1 DEF Together
      <4>2. CASE s /= 1
        <5>1. s - 1 \in 1 .. Len(stack') /\ stack'[s - 1] = stack[s]
          BY <2>1, <2>3, <4>2
        <5> QED BY <5>1 DEF Together
      <4> QED BY <4>1, <4>2
    <3> QED BY <1>1, <1>5, <3>1 DEF OrderedElsewhere, Together
  <2> QED BY <1>1, <1>4, <1>7, <2>4, <2>6, <2>7 DEF SortInv
<1> QED BY <1>6, <1>7

(* qsort begins with the whole array. *)
LEMMA QsortInv == SortInv /\ qsort => SortInv'
<1> SUFFICES ASSUME SortInv, qsort PROVE SortInv'
  OBVIOUS
<1> USE DEF qsort, scanVars
<1>1. SortTypeOK /\ Permuted /\ stack = << >> /\ pc = "qsort" /\ nmemb \in Nat
  BY DEF SortInv, SortTypeOK
<1>2. Permuted'
  BY <1>1 DEF Permuted, Places
<1>3. CASE TooLarge \/ nmemb <= 1
  <2>1. SortTypeOK'
    BY <1>1, <1>3 DEF SortTypeOK, Places
  <2>2. ~ TooLarge' => \A x, y \in Places' : ~ (x < y)
    BY <1>1, <1>3 DEF Places, TooLarge
  <2> QED BY <1>2, <1>3, <2>1, <2>2 DEF SortInv
<1>4. CASE ~ (TooLarge \/ nmemb <= 1)
  <2>1. SortTypeOK'
    BY <1>1, <1>4 DEF SortTypeOK, Places
  <2>2. Pending' /\ OrderedElsewhere'
    BY <1>1, <1>4 DEF Pending, OrderedElsewhere, Together, Places
  <2> QED BY <1>2, <1>4, <2>1, <2>2 DEF SortInv
<1> QED BY <1>3, <1>4

(* It holds before the call. *)
LEMMA SortInitInv == SortInit => SortInv
<1> SUFFICES ASSUME SortInit PROVE SortInv
  OBVIOUS
<1>1. SortTypeOK
  BY SortAssumption DEF SortInit, SortTypeOK, Places
<1>2. Permuted
  BY DEF SortInit, Permuted
<1> QED BY <1>1, <1>2 DEF SortInit, SortInv

(* The invariant of qsort holds for every array. *)
THEOREM SortInvariance == SortSpec => []SortInv
<1>1. SortInv /\ [SortNext]_sortVars => SortInv'
  <2> SUFFICES ASSUME SortInv, [SortNext]_sortVars PROVE SortInv'
    OBVIOUS
  <2>1. CASE SortNext
    BY <2>1, QsortInv, QuicksortInv, ReturnInv, ScanUpInv, ScanDownInv, ExchangeInv,
       KeepLeftInv, KeepRightInv, PlaceInv, FoldLeftInv, FoldRightInv, RecurseInv
       DEF SortNext
  <2>2. CASE UNCHANGED sortVars
    BY <2>2 DEF sortVars, SortInv, SortTypeOK, Permuted, Pending, OrderedElsewhere,
       Together, Scanned, Less, Greater, FoldsLeft, FoldsRight, K, Places, TooLarge
  <2> QED BY <2>1, <2>2
<1> QED BY <1>1, SortInitInv, PTL DEF SortSpec

(* qsort returns the elements it was given, each of them, in order. *)
THEOREM SortCorrect == SortSpec => []Sorted
<1>1. SortInv => Sorted
  BY DEF SortInv, Sorted, Permuted, K
<1> QED BY <1>1, SortInvariance, PTL

(* No comparison or exchange leaves the interval at hand. *)
THEOREM SortStaysWithin == SortSpec => []WithinInterval
<1>1. SortInv => WithinInterval
  <2> SUFFICES ASSUME SortInv PROVE WithinInterval
    OBVIOUS
  <2>1. /\ l \in Int /\ r \in Int /\ i \in Int /\ j \in Int /\ p \in Int /\ q \in Int
        /\ k \in Int /\ nmemb \in Nat
    BY DEF SortInv, SortTypeOK
  <2>2. pc \notin {"qsort", "done"} => l .. r \subseteq Places
    BY <2>1 DEF SortInv, Pending, Places
  <2>3. pc \in {"up", "down", "exchange", "left", "right"} => Scanned
    BY DEF SortInv
  <2>4. /\ pc = "up" => i + 1 \in l .. r
        /\ pc = "down" => j - 1 \in l .. r
        /\ pc = "exchange" => i \in l .. r /\ j \in l .. r
    BY <2>1, <2>3 DEF Scanned
  <2>5. /\ pc = "left" => i \in l .. r /\ j \in l .. r /\ p + 1 \in l .. r
        /\ pc = "right" => j \in l .. r /\ q - 1 \in l .. r
    BY <2>1, <2>3 DEF Scanned
  <2>6. pc = "fold_left" /\ k < p => k \in l .. r /\ j \in l .. r
    BY <2>1 DEF SortInv, FoldsLeft
  <2>7. pc = "fold_right" /\ k > q => k \in l .. r /\ i \in l .. r
    BY <2>1 DEF SortInv, FoldsRight
  <2> QED BY <2>2, <2>4, <2>5, <2>6, <2>7 DEF WithinInterval
<1> QED BY <1>1, SortInvariance, PTL

-----------------------------------------------------------------------------
(* A memory after e bytes were moved from s to d. *)
Moved(m, d, s, e) ==
  [x \in DOMAIN m |-> IF x \in d .. d + e - 1 THEN m[x - d + s] ELSE m[x]]

Written(m, x, byte) == [m EXCEPT ![x] = byte]

(* One byte more, when it was not overwritten before it is read. *)
LEMMA MovedNext ==
  ASSUME NEW m, NEW d \in Int, NEW s \in Int, NEW e \in Nat,
         d .. d + e \subseteq DOMAIN m, s + e \in DOMAIN m, d <= s \/ s + e < d
  PROVE  Moved(m, d, s, e + 1)
           = Written(Moved(m, d, s, e), d + e, Moved(m, d, s, e)[s + e])
<1>1. d + e \in DOMAIN m
  OBVIOUS
<1>2. s + e \notin d .. d + e - 1
  OBVIOUS
<1>3. Moved(m, d, s, e)[s + e] = m[s + e]
  BY <1>2 DEF Moved
<1>4. \A x \in DOMAIN m :
        (IF x \in d .. d + (e + 1) - 1 THEN m[x - d + s] ELSE m[x])
          = IF x = d + e THEN m[s + e]
            ELSE IF x \in d .. d + e - 1 THEN m[x - d + s] ELSE m[x]
  <2> SUFFICES ASSUME NEW x \in DOMAIN m
               PROVE  (IF x \in d .. d + (e + 1) - 1 THEN m[x - d + s] ELSE m[x])
                        = IF x = d + e THEN m[s + e]
                          ELSE IF x \in d .. d + e - 1 THEN m[x - d + s] ELSE m[x]
    OBVIOUS
  <2>1. CASE x = d + e
    <3>1. x \in d .. d + (e + 1) - 1 /\ x - d + s = s + e
      BY <2>1
    <3> QED BY <2>1, <3>1
  <2>2. CASE x # d + e
    <3>1. x \in d .. d + (e + 1) - 1 <=> x \in d .. d + e - 1
      BY <2>2
    <3> QED BY <2>2, <3>1
  <2> QED BY <2>1, <2>2
<1> QED BY <1>1, <1>3, <1>4 DEF Moved, Written

(* Byte by byte from the left is the same as all at once, when no byte is   *)
(* written before it is read.                                               *)
LEMMA CopyForwardIs ==
  ASSUME NEW m, IsMemory(m), NEW d \in Int, NEW s \in Int, NEW n \in Nat,
         d .. d + n - 1 \subseteq DOMAIN m, s .. s + n - 1 \subseteq DOMAIN m,
         d <= s \/ s + n <= d
  PROVE  CopyForward(m, d, s, n) = Moved(m, d, s, n)
<1>0. PICK A, B : m \in [A -> B] /\ A = DOMAIN m
  BY DEF IsMemory
<1> DEFINE Step(g) == [e \in 0 .. n |->
                         IF e = 0 THEN m ELSE [g[e - 1] EXCEPT ![d + e - 1] = g[e - 1][s + e - 1]]]
           copy == CHOOSE g : g = Step(g)
           G == [e \in 0 .. n |-> Moved(m, d, s, e)]
<1>1. Moved(m, d, s, 0) = m
  <2>1. \A x : x \notin d .. d + 0 - 1
    OBVIOUS
  <2>2. Moved(m, d, s, 0) = [x \in DOMAIN m |-> m[x]]
    BY ONLY <2>1 DEF Moved
  <2> QED BY ONLY <2>2, <1>0
<1>2. ASSUME NEW e \in 0 .. n, e # 0
      PROVE  Moved(m, d, s, e)
               = [Moved(m, d, s, e - 1) EXCEPT ![d + e - 1] = Moved(m, d, s, e - 1)[s + e - 1]]
  <2>1. PICK f \in Nat : e = f + 1 /\ f = e - 1
    BY <1>2
  <2>2. d .. d + f \subseteq DOMAIN m /\ s + f \in DOMAIN m /\ (d <= s \/ s + f < d)
    BY <2>1
  <2>3. Moved(m, d, s, f + 1) = Written(Moved(m, d, s, f), d + f, Moved(m, d, s, f)[s + f])
    BY ONLY <2>2, MovedNext
  <2>4. d + f = d + e - 1 /\ s + f = s + e - 1
    BY <2>1
  <2> QED BY ONLY <2>1, <2>3, <2>4 DEF Written
<1>3. \A e \in 0 .. n : e # 0 => e - 1 \in 0 .. n
  OBVIOUS
<1>4. G = Step(G)
  BY <1>1, <1>2, <1>3
<1>5. copy = Step(copy)
  BY <1>4
<1>6. CopyForward(m, d, s, n) = copy[n]
  BY DEF CopyForward
<1>7. \A e \in 0 .. n : copy[e] = IF e = 0 THEN m
        ELSE [copy[e - 1] EXCEPT ![d + e - 1] = copy[e - 1][s + e - 1]]
  BY <1>5
<1> HIDE DEF copy
<1>8. \A e \in 0 .. n : copy[e] = Moved(m, d, s, e)
  <2> DEFINE S == {e \in 0 .. n : copy[e] # Moved(m, d, s, e)}
  <2> SUFFICES S = {}
    OBVIOUS
  <2> SUFFICES ASSUME S # {} PROVE FALSE
    OBVIOUS
  <2>1. PICK e \in S : \A y \in S : e <= y
    <3>1. S \in SUBSET Nat
      OBVIOUS
    <3> HIDE DEF S
    <3> QED BY <3>1, LeastNatural
  <2>2. e # 0
    BY <1>1, <1>7
  <2>3. e - 1 \in 0 .. n /\ e - 1 \notin S
    BY <2>1, <2>2
  <2> QED BY <1>2, <1>7, <2>2, <2>3
<1> QED BY <1>6, <1>8

(* The same from the right: the bytes from the place e on are moved. *)
MovedBack(m, d, s, e, n) ==
  [x \in DOMAIN m |-> IF x \in d + e .. d + n - 1 THEN m[x - d + s] ELSE m[x]]

(* One byte more from the right. *)
LEMMA MovedBackNext ==
  ASSUME NEW m, NEW d \in Int, NEW s \in Int, NEW n \in Nat, NEW e \in 0 .. n - 1,
         d .. d + n - 1 \subseteq DOMAIN m, s + e \in DOMAIN m, s <= d
  PROVE  MovedBack(m, d, s, e, n)
           = Written(MovedBack(m, d, s, e + 1, n), d + e, MovedBack(m, d, s, e + 1, n)[s + e])
<1>1. d + e \in DOMAIN m
  OBVIOUS
<1>2. s + e \notin d + (e + 1) .. d + n - 1
  OBVIOUS
<1>3. MovedBack(m, d, s, e + 1, n)[s + e] = m[s + e]
  BY <1>2 DEF MovedBack
<1>4. \A x \in DOMAIN m :
        (IF x \in d + e .. d + n - 1 THEN m[x - d + s] ELSE m[x])
          = IF x = d + e THEN m[s + e]
            ELSE IF x \in d + (e + 1) .. d + n - 1 THEN m[x - d + s] ELSE m[x]
  <2> SUFFICES ASSUME NEW x \in DOMAIN m
               PROVE  (IF x \in d + e .. d + n - 1 THEN m[x - d + s] ELSE m[x])
                        = IF x = d + e THEN m[s + e]
                          ELSE IF x \in d + (e + 1) .. d + n - 1 THEN m[x - d + s] ELSE m[x]
    OBVIOUS
  <2>1. CASE x = d + e
    <3>1. x \in d + e .. d + n - 1 /\ x - d + s = s + e
      BY <2>1
    <3> QED BY <2>1, <3>1
  <2>2. CASE x # d + e
    <3>1. x \in d + e .. d + n - 1 <=> x \in d + (e + 1) .. d + n - 1
      BY <2>2
    <3> QED BY <2>2, <3>1
  <2> QED BY <2>1, <2>2
<1> QED BY <1>1, <1>3, <1>4 DEF MovedBack, Written

(* Byte by byte from the right is the same as all at once. *)
LEMMA CopyBackwardIs ==
  ASSUME NEW m, IsMemory(m), NEW d \in Int, NEW s \in Int, NEW n \in Nat,
         d .. d + n - 1 \subseteq DOMAIN m, s .. s + n - 1 \subseteq DOMAIN m, s <= d
  PROVE  CopyBackward(m, d, s, n) = Moved(m, d, s, n)
<1>0. PICK A, B : m \in [A -> B] /\ A = DOMAIN m
  BY DEF IsMemory
<1> DEFINE Step(g) == [e \in 0 .. n |->
                         IF e = n THEN m ELSE [g[e + 1] EXCEPT ![d + e] = g[e + 1][s + e]]]
           copy == CHOOSE g : g = Step(g)
           G == [e \in 0 .. n |-> MovedBack(m, d, s, e, n)]
<1>1. MovedBack(m, d, s, n, n) = m
  <2>1. \A x : x \notin d + n .. d + n - 1
    OBVIOUS
  <2>2. MovedBack(m, d, s, n, n) = [x \in DOMAIN m |-> m[x]]
    BY ONLY <2>1 DEF MovedBack
  <2> QED BY ONLY <2>2, <1>0
<1>2. ASSUME NEW e \in 0 .. n, e # n
      PROVE  MovedBack(m, d, s, e, n)
               = [MovedBack(m, d, s, e + 1, n) EXCEPT ![d + e] = MovedBack(m, d, s, e + 1, n)[s + e]]
  <2>1. e \in 0 .. n - 1 /\ d .. d + n - 1 \subseteq DOMAIN m /\ s + e \in DOMAIN m /\ s <= d
    BY <1>2
  <2>2. MovedBack(m, d, s, e, n)
          = Written(MovedBack(m, d, s, e + 1, n), d + e, MovedBack(m, d, s, e + 1, n)[s + e])
    BY ONLY <2>1, MovedBackNext
  <2> QED BY ONLY <2>2 DEF Written
<1>3. \A e \in 0 .. n : e # n => e + 1 \in 0 .. n
  OBVIOUS
<1>4. G = Step(G)
  BY <1>2, <1>1, <1>3
<1>5. copy = Step(copy)
  BY <1>4
<1>6. CopyBackward(m, d, s, n) = copy[0]
  BY DEF CopyBackward
<1>7. \A e \in 0 .. n : copy[e] = IF e = n THEN m
        ELSE [copy[e + 1] EXCEPT ![d + e] = copy[e + 1][s + e]]
  BY <1>5
<1> HIDE DEF copy
<1>8. \A e \in 0 .. n : copy[n - e] = MovedBack(m, d, s, n - e, n)
  <2> DEFINE S == {e \in 0 .. n : copy[n - e] # MovedBack(m, d, s, n - e, n)}
  <2> SUFFICES S = {}
    OBVIOUS
  <2> SUFFICES ASSUME S # {} PROVE FALSE
    OBVIOUS
  <2>1. PICK e \in S : \A y \in S : e <= y
    <3>1. S \in SUBSET Nat
      OBVIOUS
    <3> HIDE DEF S
    <3> QED BY <3>1, LeastNatural
  <2>2. e # 0
    <3>1. n \in 0 .. n /\ n - 0 = n
      OBVIOUS
    <3>2. copy[n] = m
      BY <1>7, <3>1
    <3>3. 0 \notin S
      BY <1>1, <3>1, <3>2
    <3> QED BY <3>3
  <2>3. e - 1 \in 0 .. n /\ e - 1 \notin S /\ n - e \in 0 .. n /\ n - e # n
          /\ n - (e - 1) = (n - e) + 1
    BY <2>1, <2>2
  <2>4. copy[(n - e) + 1] = MovedBack(m, d, s, (n - e) + 1, n)
    BY <2>3
  <2>5. MovedBack(m, d, s, n - e, n)
          = [MovedBack(m, d, s, (n - e) + 1, n) EXCEPT
               ![d + (n - e)] = MovedBack(m, d, s, (n - e) + 1, n)[s + (n - e)]]
    BY <1>2, <2>3
  <2>6. copy[n - e] = [copy[(n - e) + 1] EXCEPT ![d + (n - e)] = copy[(n - e) + 1][s + (n - e)]]
    BY <1>7, <2>3
  <2> QED BY <2>4, <2>5, <2>6
<1>9. copy[0] = MovedBack(m, d, s, 0, n)
  BY <1>8
<1>10. MovedBack(m, d, s, 0, n) = Moved(m, d, s, n)
  BY DEF MovedBack, Moved
<1> QED BY <1>6, <1>9, <1>10

(* What was moved is a copy. *)
LEMMA MovedCopies ==
  ASSUME NEW m, IsMemory(m), NEW d \in Int, NEW s \in Int, NEW n \in Nat,
         d .. d + n - 1 \subseteq DOMAIN m
  PROVE  Copied(m, Moved(m, d, s, n), d, s, n)
<1>1. ASSUME NEW e \in 0 .. n - 1 PROVE Moved(m, d, s, n)[d + e] = m[s + e]
  <2>1. d + e \in d .. d + n - 1 /\ (d + e) - d + s = s + e /\ d + e \in DOMAIN m
    OBVIOUS
  <2> QED BY <2>1 DEF Moved
<1> QED BY <1>1 DEF Copied, Moved

(* memcpy and memmove, the latter also when the blocks overlap. *)
LEMMA MemmoveMoves ==
  ASSUME NEW m, IsMemory(m), NEW d \in Int, NEW s \in Int, NEW n \in Nat,
         d .. d + n - 1 \subseteq DOMAIN m, s .. s + n - 1 \subseteq DOMAIN m
  PROVE  /\ memmove(m, d, s, n) = Moved(m, d, s, n)
         /\ Disjoint(d, s, n) => memcpy(m, d, s, n) = Moved(m, d, s, n)
<1>0. PICK A, B : m \in [A -> B] /\ A = DOMAIN m
  BY DEF IsMemory
<1>1. CASE s = d
  <2>1. \A x \in DOMAIN m : x \in d .. d + n - 1 => x - d + s = x
    BY <1>1
  <2>2. Moved(m, d, s, n) = [x \in DOMAIN m |-> m[x]]
    BY ONLY <2>1 DEF Moved
  <2>3. Moved(m, d, s, n) = m
    BY ONLY <2>2, <1>0
  <2> QED BY <1>1, <2>3, CopyForwardIs DEF memmove, memcpy
<1>2. CASE s > d
  BY <1>2, CopyForwardIs DEF memmove, memcpy
<1>3. CASE s < d
  BY <1>3, CopyForwardIs, CopyBackwardIs DEF memmove, memcpy, Disjoint
<1> QED BY <1>1, <1>2, <1>3

(* The least and the greatest of some numbers. *)
LEMMA MinIs ==
  ASSUME NEW S \in SUBSET Nat, S # {}
  PROVE  Min(S) \in S /\ \A x \in S : Min(S) <= x
BY LeastNatural DEF Min

(* A number that is in the set and below the others is the least. *)
LEMMA MinOf ==
  ASSUME NEW S \in SUBSET Nat, NEW x \in S, \A y \in S : x <= y
  PROVE  Min(S) = x
<1>1. PICK y : y = Min(S)
  OBVIOUS
<1>2. y \in S /\ \A z \in S : y <= z
  BY <1>1, MinIs
<1>3. y \in Nat /\ x \in Nat /\ y <= x /\ x <= y
  BY <1>2
<1>4. y = x
  BY ONLY <1>3
<1> QED BY <1>1, <1>4

(* The greatest of finitely many numbers is one of them. *)
LEMMA MaxIs ==
  ASSUME NEW n \in Nat, NEW S \in SUBSET (0 .. n), S # {}
  PROVE  Max(S) \in S /\ \A x \in S : x <= Max(S)
<1> DEFINE T == {n - x : x \in S}
<1>1. T \in SUBSET Nat /\ T # {}
  <2>1. \A x \in S : n - x \in T /\ n - x \in Nat
    OBVIOUS
  <2> QED BY <2>1
<1>2. PICK y \in T : \A z \in T : y <= z
  <2> HIDE DEF T
  <2> QED BY <1>1, LeastNatural
<1>3. n - y \in S /\ \A x \in S : x <= n - y
  BY <1>2
<1> QED BY <1>3 DEF Max

(* FirstAt and LastAt are the first and the last. *)
LEMMA FirstAtIs ==
  ASSUME NEW s \in Nat, NEW S \in SUBSET Nat
  PROVE  IsFirst(FirstAt(s, S), s, S)
<1>1. CASE S = {}
  BY <1>1 DEF IsFirst, FirstAt
<1>2. CASE S # {}
  <2>1. PICK y : y = Min(S)
    OBVIOUS
  <2>2. y \in S /\ y \in Nat /\ \A x \in S : y <= x
    BY <1>2, <2>1, MinIs
  <2>3. FirstAt(s, S) = s + y
    BY <1>2, <2>1 DEF FirstAt
  <2>4. FirstAt(s, S) - s = y
    BY ONLY <2>2, <2>3, s \in Nat
  <2> QED BY ONLY <1>2, <2>2, <2>4 DEF IsFirst
<1> QED BY <1>1, <1>2

(* The same of the last. *)
LEMMA LastAtIs ==
  ASSUME NEW s \in Nat, NEW n \in Nat, NEW S \in SUBSET (0 .. n)
  PROVE  IsLast(LastAt(s, S), s, S)
<1>1. CASE S = {}
  BY <1>1 DEF IsLast, LastAt
<1>2. CASE S # {}
  <2>1. PICK y : y = Max(S)
    OBVIOUS
  <2>2. y \in S /\ y \in Nat /\ \A x \in S : x <= y
    <3>1. Max(S) \in S /\ \A x \in S : x <= Max(S)
      BY <1>2, MaxIs
    <3>2. y \in S /\ \A x \in S : x <= y
      BY ONLY <2>1, <3>1
    <3>3. \A x \in S : x \in Nat
      OBVIOUS
    <3> QED BY ONLY <3>2, <3>3
  <2>3. LastAt(s, S) = s + y
    BY <1>2, <2>1 DEF LastAt
  <2>4. LastAt(s, S) - s = y
    BY ONLY <2>2, <2>3, s \in Nat
  <2>5. LastAt(s, S) - s \in S /\ \A x \in S : x <= LastAt(s, S) - s
    BY ONLY <2>2, <2>4
  <2> QED BY ONLY <1>2, <2>5, Zenon DEF IsLast
<1> QED BY <1>1, <1>2

-----------------------------------------------------------------------------
(* memccpy: the places of the byte it stops behind, among the first n, and  *)
(* what it has done after n bytes.                                          *)
Hits(m, s, c, n) == {x \in 0 .. n - 1 : SignedChar(m[s + x]) = c}

CopiedTo(m, d, s, c, n) ==
  IF Hits(m, s, c, n) = {} THEN [mem |-> Moved(m, d, s, n), result |-> NULL]
  ELSE LET hit == Min(Hits(m, s, c, n))
       IN [mem |-> Moved(m, d, s, hit + 1), result |-> d + hit + 1]

(* One byte more, up to the one it stops behind. *)
LEMMA CopiedToNext ==
  ASSUME NEW m, NEW d \in Nat, NEW s \in Nat, NEW c, NEW e \in Nat, d # 0,
         d .. d + e \subseteq DOMAIN m, s + e \in DOMAIN m, d <= s \/ s + e < d,
         NEW before, before = CopiedTo(m, d, s, c, e)
  PROVE  CopiedTo(m, d, s, c, e + 1) =
           IF before.result /= NULL THEN before
           ELSE [mem |-> Written(before.mem, d + e, before.mem[s + e]),
                 result |-> IF SignedChar(before.mem[s + e]) = c THEN d + (e + 1) ELSE NULL]
<1>1. /\ Hits(m, s, c, e + 1)
           = Hits(m, s, c, e) \cup (IF SignedChar(m[s + e]) = c THEN {e} ELSE {})
      /\ Hits(m, s, c, e) \in SUBSET (0 .. e - 1)
      /\ Hits(m, s, c, e + 1) \in SUBSET Nat
  BY DEF Hits
<1>2. CASE Hits(m, s, c, e) # {}
  <2>1. /\ Min(Hits(m, s, c, e)) \in Hits(m, s, c, e)
        /\ \A x \in Hits(m, s, c, e) : Min(Hits(m, s, c, e)) <= x
    BY <1>1, <1>2, MinIs
  <2>2. Min(Hits(m, s, c, e + 1)) = Min(Hits(m, s, c, e))
    <3>1. Min(Hits(m, s, c, e)) \in Hits(m, s, c, e + 1)
      BY <1>1, <2>1
    <3>2. \A x \in Hits(m, s, c, e + 1) : Min(Hits(m, s, c, e)) <= x
      BY <1>1, <2>1
    <3> QED BY <1>1, <3>1, <3>2, MinOf
  <2>3. before.result # NULL /\ Min(Hits(m, s, c, e)) \in Nat
    BY <1>1, <1>2, <2>1 DEF CopiedTo, NULL
  <2>4. Hits(m, s, c, e + 1) # {}
    BY <1>1, <1>2
  <2>5. CopiedTo(m, d, s, c, e + 1) = before
    BY <1>2, <2>2, <2>4 DEF CopiedTo
  <2> QED BY <2>3, <2>5
<1>3. CASE Hits(m, s, c, e) = {}
  <2>1. before = [mem |-> Moved(m, d, s, e), result |-> NULL]
    BY <1>3 DEF CopiedTo
  <2>2. before.mem[s + e] = m[s + e]
    BY <2>1 DEF Moved
  <2>3. Moved(m, d, s, e + 1) = Written(before.mem, d + e, before.mem[s + e])
    BY <2>1, MovedNext
  <2>4. CASE SignedChar(m[s + e]) = c
    <3>1. Hits(m, s, c, e + 1) = {e}
      BY <1>1, <1>3, <2>4
    <3>2. Min({e}) = e
      BY MinOf
    <3>3. CopiedTo(m, d, s, c, e + 1) = [mem |-> Moved(m, d, s, e + 1), result |-> d + e + 1]
      BY <3>1, <3>2 DEF CopiedTo
    <3> QED BY <2>1, <2>2, <2>3, <2>4, <3>3
  <2>5. CASE SignedChar(m[s + e]) # c
    <3>1. Hits(m, s, c, e + 1) = {}
      BY <1>1, <1>3, <2>5
    <3>2. CopiedTo(m, d, s, c, e + 1) = [mem |-> Moved(m, d, s, e + 1), result |-> NULL]
      BY <3>1 DEF CopiedTo
    <3> QED BY <2>1, <2>2, <2>3, <2>5, <3>2
  <2> QED BY <2>4, <2>5
<1> QED BY <1>2, <1>3

(* memccpy has done this after n bytes. *)
LEMMA MemccpyIs ==
  ASSUME NEW m, IsMemory(m), NEW d \in Nat, NEW s \in Nat, NEW c, NEW n \in Nat,
         d # 0, d .. d + n - 1 \subseteq DOMAIN m, s .. s + n - 1 \subseteq DOMAIN m, Disjoint(d, s, n)
  PROVE  memccpy(m, d, s, c, n) = CopiedTo(m, d, s, c, n)
<1>0. PICK A, B : m \in [A -> B] /\ A = DOMAIN m
  BY DEF IsMemory
<1> DEFINE After(before, e) ==
             IF before.result /= NULL THEN before
             ELSE [mem |-> [before.mem EXCEPT ![d + e - 1] = before.mem[s + e - 1]],
                   result |-> IF SignedChar(before.mem[s + e - 1]) = c THEN d + e ELSE NULL]
           Step(g) == [e \in 0 .. n |->
                         IF e = 0 THEN [mem |-> m, result |-> NULL] ELSE After(g[e - 1], e)]
           copy == CHOOSE g : g = Step(g)
           G == [e \in 0 .. n |-> CopiedTo(m, d, s, c, e)]
<1>1. CopiedTo(m, d, s, c, 0) = [mem |-> m, result |-> NULL]
  <2>1. \A x : x \notin d .. d + 0 - 1 /\ x \notin 0 .. 0 - 1
    OBVIOUS
  <2>2. Moved(m, d, s, 0) = [x \in DOMAIN m |-> m[x]]
    BY ONLY <2>1 DEF Moved
  <2>3. Moved(m, d, s, 0) = m
    BY ONLY <2>2, <1>0
  <2>4. Hits(m, s, c, 0) = {}
    BY ONLY <2>1 DEF Hits
  <2> QED BY <2>3, <2>4 DEF CopiedTo
<1>2. ASSUME NEW e \in 0 .. n, e # 0
      PROVE  CopiedTo(m, d, s, c, e) = After(CopiedTo(m, d, s, c, e - 1), e)
  <2>1. PICK f \in Nat : e = f + 1 /\ f = e - 1
    BY <1>2
  <2>2. PICK before : before = CopiedTo(m, d, s, c, f)
    OBVIOUS
  <2>3. d .. d + f \subseteq DOMAIN m /\ s + f \in DOMAIN m /\ (d <= s \/ s + f < d)
    BY <2>1 DEF Disjoint
  <2>4. CopiedTo(m, d, s, c, f + 1) =
           IF before.result /= NULL THEN before
           ELSE [mem |-> Written(before.mem, d + f, before.mem[s + f]),
                 result |-> IF SignedChar(before.mem[s + f]) = c THEN d + (f + 1) ELSE NULL]
    BY ONLY <2>2, <2>3, d # 0, CopiedToNext
  <2>5. d + f = d + e - 1 /\ s + f = s + e - 1
    BY <2>1
  <2> HIDE DEF Step, copy, G
  <2> QED BY ONLY <2>1, <2>2, <2>4, <2>5 DEF Written, After
<1>3. \A e \in 0 .. n : e # 0 => e - 1 \in 0 .. n
  OBVIOUS
<1> HIDE DEF After
<1>4. G = Step(G)
  BY <1>1, <1>2, <1>3
<1>5. copy = Step(copy)
  BY <1>4
<1>6. memccpy(m, d, s, c, n) = copy[n]
  BY DEF memccpy, After
<1>7. \A e \in 0 .. n : copy[e] =
        IF e = 0 THEN [mem |-> m, result |-> NULL] ELSE After(copy[e - 1], e)
  BY <1>5
<1> HIDE DEF copy
<1>8. \A e \in 0 .. n : copy[e] = CopiedTo(m, d, s, c, e)
  <2> DEFINE S == {e \in 0 .. n : copy[e] # CopiedTo(m, d, s, c, e)}
  <2> SUFFICES S = {}
    OBVIOUS
  <2> SUFFICES ASSUME S # {} PROVE FALSE
    OBVIOUS
  <2>1. PICK e \in S : \A y \in S : e <= y
    <3>1. S \in SUBSET Nat
      OBVIOUS
    <3> HIDE DEF S
    <3> QED BY <3>1, LeastNatural
  <2>2. e # 0
    BY <1>1, <1>7
  <2>3. e - 1 \in 0 .. n /\ e - 1 \notin S
    BY <2>1, <2>2
  <2> QED BY <1>2, <1>7, <2>2, <2>3
<1> QED BY <1>6, <1>8

-----------------------------------------------------------------------------
(* A string at s: n bytes that are not zero, and a zero. *)
StringAt(m, s, n) ==
  /\ n \in Nat /\ s \in Nat \ {0}
  /\ s .. s + n \subseteq DOMAIN m
  /\ m[s + n] = 0
  /\ \A x \in 0 .. n - 1 : m[s + x] \in 1 .. 255

(* The bytes of a block are bytes of the memory. *)
LEMMA BlockIs ==
  ASSUME NEW m, NEW s \in Nat, NEW n \in Nat, IsMemory(m), Block(m, s, n)
  PROVE  s # 0 /\ s .. s + n - 1 \subseteq DOMAIN m /\ \A x \in 0 .. n - 1 : m[s + x] \in 0 .. 255
<1>1. PICK top \in Nat : m \in [1 .. top -> 0 .. 255]
  BY DEF IsMemory
<1>2. s >= 1 /\ s + n - 1 \in 1 .. top
  BY <1>1 DEF Block
<1> QED BY <1>1, <1>2

(* A terminated string ends where strlen says. *)
LEMMA StringIs ==
  ASSUME NEW m, NEW s, IsMemory(m), Terminated(m, s)
  PROVE  StringAt(m, s, strlen(m, s))
<1>1. PICK top \in Nat : m \in [1 .. top -> 0 .. 255] /\ top = Max(DOMAIN m)
  BY DEF IsMemory
<1>2. s \in 1 .. top /\ s # NULL
  BY <1>1 DEF Terminated, NULL
<1> DEFINE zeros == {x \in From(m, s) : m[s + x] = 0}
<1>3. zeros \in SUBSET Nat /\ zeros # {}
  BY DEF Terminated, From
<1>4. PICK n : n = strlen(m, s)
  OBVIOUS
<1>5. n \in zeros /\ \A x \in zeros : n <= x
  <2>1. strlen(m, s) = Min(zeros)
    BY <1>2 DEF strlen
  <2> HIDE DEF zeros
  <2> QED BY <1>3, <1>4, <2>1, MinIs
<1>6. n \in Nat /\ s + n \in 1 .. top /\ m[s + n] = 0
  BY <1>1, <1>3, <1>5 DEF From
<1>7. ASSUME NEW x \in 0 .. n - 1 PROVE m[s + x] \in 1 .. 255
  <2>1. x \in 0 .. top /\ s + x \in 1 .. top
    BY <1>2, <1>6
  <2>2. m[s + x] \in 0 .. 255
    BY <1>1, <2>1
  <2>3. x \notin zeros
    BY <1>5, <1>6
  <2>4. m[s + x] # 0
    BY <1>1, <2>1, <2>3 DEF From
  <2> QED BY <2>2, <2>4
<1> QED BY <1>1, <1>2, <1>4, <1>6, <1>7 DEF StringAt

(* The text of a string is what is before its zero. *)
LEMMA TextIs ==
  ASSUME NEW m, NEW s, StringAt(m, s, strlen(m, s))
  PROVE  /\ Text(m, s) \in Seq(1 .. 255)
         /\ Len(Text(m, s)) = strlen(m, s)
         /\ \A x \in 1 .. strlen(m, s) : Text(m, s)[x] = m[s + x - 1]
<1>1. PICK n : n = strlen(m, s)
  OBVIOUS
<1>2. n \in Nat /\ s \in Nat /\ Text(m, s) = [x \in 1 .. n |-> m[s + x - 1]]
  BY <1>1 DEF Text, StringAt
<1>3. ASSUME NEW x \in 1 .. n PROVE m[s + x - 1] \in 1 .. 255
  <2>1. x - 1 \in 0 .. n - 1 /\ s + x - 1 = s + (x - 1)
    BY <1>2
  <2> QED BY <1>1, <2>1 DEF StringAt
<1>4. PICK t : t = Text(m, s)
  OBVIOUS
<1>5. t \in [1 .. n -> 1 .. 255] /\ \A x \in 1 .. n : t[x] = m[s + x - 1]
  BY <1>2, <1>3, <1>4
<1>6. t \in Seq(1 .. 255) /\ Len(t) = n
  BY ONLY <1>2, <1>5, IsASeq, LenProperties
<1> QED BY ONLY <1>1, <1>4, <1>5, <1>6

(* The byte behind the end of a text is zero. *)
ByteOf(v, x) == IF x < Len(v) THEN v[x + 1] ELSE 0

(* The elements at the beginning of a text. *)
LEMMA PrefixOf ==
  ASSUME NEW S, NEW t \in Seq(S), NEW n \in 0 .. Len(t)
  PROVE  /\ SubSeq(t, 1, n) \in Seq(S) /\ Len(SubSeq(t, 1, n)) = n
         /\ \A x \in 1 .. n : SubSeq(t, 1, n)[x] = t[x]
<1>1. \A x \in 1 .. n : t[x] \in S
  OBVIOUS
<1>2. /\ SubSeq(t, 1, n) \in Seq(S)
      /\ Len(SubSeq(t, 1, n)) = IF 1 <= n THEN n - 1 + 1 ELSE 0
      /\ \A x \in 1 .. n - 1 + 1 : SubSeq(t, 1, n)[x] = t[1 + x - 1]
  BY <1>1, SubSeqProperties
<1> QED BY <1>2

(* Two beginnings are the same when their elements are. *)
LEMMA PrefixIs ==
  ASSUME NEW t \in Seq(0 .. 255), NEW u \in Seq(0 .. 255),
         NEW n \in 0 .. Len(t) \cap 0 .. Len(u)
  PROVE  SubSeq(t, 1, n) = SubSeq(u, 1, n) <=> \A x \in 1 .. n : t[x] = u[x]
<1>1. /\ SubSeq(t, 1, n) \in Seq(0 .. 255) /\ Len(SubSeq(t, 1, n)) = n
      /\ \A x \in 1 .. n : SubSeq(t, 1, n)[x] = t[x]
  BY PrefixOf
<1>2. /\ SubSeq(u, 1, n) \in Seq(0 .. 255) /\ Len(SubSeq(u, 1, n)) = n
      /\ \A x \in 1 .. n : SubSeq(u, 1, n)[x] = u[x]
  BY PrefixOf
<1> QED BY <1>1, <1>2, SeqEqual

(* Two texts that are not the same differ first at one place. *)
LEMMA DifferOnce ==
  ASSUME NEW t \in Seq(0 .. 255), NEW u \in Seq(0 .. 255),
         NEW n \in 0 .. Len(t) \cap 0 .. Len(u),
         \A x \in 1 .. n : t[x] = u[x], ByteOf(t, n) # ByteOf(u, n)
  PROVE  /\ t # u
         /\ SubSeq(t, 1, n) = SubSeq(u, 1, n)
         /\ \A x \in 0 .. Len(t) \cap 0 .. Len(u) :
              SubSeq(t, 1, x) = SubSeq(u, 1, x) /\ ByteOf(t, x) # ByteOf(u, x) => x = n
<1>1. ASSUME NEW x \in 0 .. Len(t) \cap 0 .. Len(u), SubSeq(t, 1, x) = SubSeq(u, 1, x),
             ByteOf(t, x) # ByteOf(u, x), x # n
      PROVE  FALSE
  <2>1. \A y \in 1 .. x : t[y] = u[y]
    BY <1>1, PrefixIs
  <2>2. CASE x < n
    BY <1>1, <2>2 DEF ByteOf
  <2>3. CASE n < x
    BY <2>1, <2>3 DEF ByteOf
  <2> QED BY <1>1, <2>2, <2>3
<1>2. SubSeq(t, 1, n) = SubSeq(u, 1, n)
  BY PrefixIs
<1>3. t # u
  BY DEF ByteOf
<1> QED BY <1>1, <1>2, <1>3

(* It is a byte. *)
LEMMA ByteOfIs ==
  ASSUME NEW t \in Seq(0 .. 255), NEW x \in 0 .. Len(t)
  PROVE  ByteOf(t, x) \in 0 .. 255
<1>1. CASE x < Len(t)
  <2>1. x + 1 \in 1 .. Len(t)
    BY <1>1, LenProperties
  <2>2. t[x + 1] \in 0 .. 255
    BY <2>1, LenProperties
  <2> QED BY <1>1, <2>2 DEF ByteOf
<1>2. CASE ~ (x < Len(t))
  BY <1>2 DEF ByteOf
<1> QED BY <1>1, <1>2

(* What the sign of a difference of bytes says, signed or not. *)
LEMMA SignsDiffer ==
  ASSUME NEW v \in 0 .. 255, NEW w \in 0 .. 255
  PROVE  /\ v < w => v # w
         /\ SignedChar(v) < SignedChar(w) => v # w
         /\ v - w < 0 <=> v < w
         /\ v - w = 0 <=> v = w
         /\ SignedChar(v) - SignedChar(w) < 0 <=> SignedChar(v) < SignedChar(w)
         /\ SignedChar(v) - SignedChar(w) = 0 <=> v = w
BY DEF SignedChar

UnsignedOrders(sign, t, u) == Orders(sign, t, u, Unsigned)
SignedOrders(sign, t, u) == Orders(sign, t, u, SignedChar)

(* Which of two texts is first, by the place where they differ. *)
LEMMA PrecedesUnsigned ==
  ASSUME NEW t \in Seq(0 .. 255), NEW u \in Seq(0 .. 255)
  PROVE  Precedes(t, u, Unsigned) <=>
           \E x \in 0 .. Len(t) \cap 0 .. Len(u) :
             SubSeq(t, 1, x) = SubSeq(u, 1, x) /\ ByteOf(t, x) < ByteOf(u, x)
BY DEF Precedes, ByteOf, Unsigned

(* The same for signed bytes. *)
LEMMA PrecedesSigned ==
  ASSUME NEW t \in Seq(0 .. 255), NEW u \in Seq(0 .. 255)
  PROVE  Precedes(t, u, SignedChar) <=>
           \E x \in 0 .. Len(t) \cap 0 .. Len(u) :
             SubSeq(t, 1, x) = SubSeq(u, 1, x)
               /\ SignedChar(ByteOf(t, x)) < SignedChar(ByteOf(u, x))
BY DEF Precedes, ByteOf

(* The difference of the bytes at that place orders the texts, and two      *)
(* texts that are the same are equal in both orders.                        *)
LEMMA DifferenceOrders ==
  ASSUME NEW t \in Seq(0 .. 255), NEW u \in Seq(0 .. 255),
         NEW n \in 0 .. Len(t) \cap 0 .. Len(u),
         \A x \in 1 .. n : t[x] = u[x], ByteOf(t, n) # ByteOf(u, n)
  PROVE  /\ UnsignedOrders(ByteOf(t, n) - ByteOf(u, n), t, u)
         /\ SignedOrders(SignedChar(ByteOf(t, n)) - SignedChar(ByteOf(u, n)), t, u)
<1>1. /\ t # u
      /\ SubSeq(t, 1, n) = SubSeq(u, 1, n)
      /\ \A x \in 0 .. Len(t) \cap 0 .. Len(u) :
           SubSeq(t, 1, x) = SubSeq(u, 1, x) /\ ByteOf(t, x) # ByteOf(u, x) => x = n
  BY DifferOnce
<1>2. \A x \in 0 .. Len(t) \cap 0 .. Len(u) : ByteOf(t, x) \in 0 .. 255 /\ ByteOf(u, x) \in 0 .. 255
  BY ByteOfIs
<1>3. /\ Precedes(t, u, Unsigned) <=> ByteOf(t, n) < ByteOf(u, n)
      /\ Precedes(t, u, SignedChar) <=> SignedChar(ByteOf(t, n)) < SignedChar(ByteOf(u, n))
  <2>1. ASSUME NEW x \in 0 .. Len(t) \cap 0 .. Len(u), SubSeq(t, 1, x) = SubSeq(u, 1, x),
               \/ ByteOf(t, x) < ByteOf(u, x)
               \/ SignedChar(ByteOf(t, x)) < SignedChar(ByteOf(u, x))
        PROVE  x = n
    <3>1. ByteOf(t, x) # ByteOf(u, x)
      BY ONLY <1>2, <2>1, SignsDiffer
    <3> QED BY <1>1, <2>1, <3>1
  <2>2. Precedes(t, u, Unsigned) <=> ByteOf(t, n) < ByteOf(u, n)
    BY <1>1, <2>1, PrecedesUnsigned
  <2>3. Precedes(t, u, SignedChar) <=> SignedChar(ByteOf(t, n)) < SignedChar(ByteOf(u, n))
    BY <1>1, <2>1, PrecedesSigned
  <2> QED BY <2>2, <2>3
<1>5. PICK v, w : v = ByteOf(t, n) /\ w = ByteOf(u, n)
  OBVIOUS
<1>4. v \in 0 .. 255 /\ w \in 0 .. 255
  BY <1>2, <1>5
<1>6. /\ v - w < 0 <=> v < w
      /\ v - w = 0 <=> v = w
      /\ SignedChar(v) - SignedChar(w) < 0 <=> SignedChar(v) < SignedChar(w)
      /\ SignedChar(v) - SignedChar(w) = 0 <=> v = w
  BY ONLY <1>4, SignsDiffer
<1>7. v # w /\ t # u
  BY <1>1, <1>5
<1>8. UnsignedOrders(v - w, t, u)
  BY ONLY <1>3, <1>5, <1>6, <1>7 DEF Orders, UnsignedOrders, SignedOrders
<1>9. SignedOrders(SignedChar(v) - SignedChar(w), t, u)
  BY ONLY <1>3, <1>5, <1>6, <1>7 DEF Orders, UnsignedOrders, SignedOrders
<1> QED BY ONLY <1>5, <1>8, <1>9

(* Texts that are the same are equal in both orders. *)
LEMMA SameOrders ==
  ASSUME NEW t \in Seq(0 .. 255)
  PROVE  UnsignedOrders(0, t, t) /\ SignedOrders(0, t, t)
<1>1. \A x \in 0 .. Len(t) \cap 0 .. Len(t) : ByteOf(t, x) \in 0 .. 255
  BY ByteOfIs
<1>2. ~ Precedes(t, t, Unsigned)
  <2>1. \A x \in 0 .. Len(t) \cap 0 .. Len(t) : ~ (ByteOf(t, x) < ByteOf(t, x))
    BY ONLY <1>1, SignsDiffer
  <2> QED BY <2>1, PrecedesUnsigned
<1>3. ~ Precedes(t, t, SignedChar)
  <2>1. \A x \in 0 .. Len(t) \cap 0 .. Len(t) : ~ (SignedChar(ByteOf(t, x)) < SignedChar(ByteOf(t, x)))
    BY ONLY <1>1, SignsDiffer
  <2> QED BY <2>1, PrecedesSigned
<1> QED BY <1>2, <1>3 DEF Orders, UnsignedOrders, SignedOrders

Bytes(m, s, n) == [y \in 1 .. n |-> m[s + y - 1]]

(* The elements of a block. *)
LEMMA BytesIs ==
  ASSUME NEW m, NEW s \in Nat, NEW n \in Nat, IsMemory(m), Block(m, s, n)
  PROVE  /\ Bytes(m, s, n) \in Seq(0 .. 255) /\ Len(Bytes(m, s, n)) = n
         /\ \A x \in 1 .. n : Bytes(m, s, n)[x] = m[s + x - 1]
<1>1. ASSUME NEW x \in 1 .. n PROVE m[s + x - 1] \in 0 .. 255
  <2>1. \A y \in 0 .. n - 1 : m[s + y] \in 0 .. 255
    BY BlockIs
  <2>2. x - 1 \in 0 .. n - 1 /\ s + x - 1 = s + (x - 1)
    OBVIOUS
  <2> QED BY <2>1, <2>2
<1>2. PICK t : t = Bytes(m, s, n)
  OBVIOUS
<1>3. t \in [1 .. n -> 0 .. 255] /\ \A x \in 1 .. n : t[x] = m[s + x - 1]
  BY <1>1, <1>2 DEF Bytes
<1>4. t \in Seq(0 .. 255) /\ Len(t) = n
  BY ONLY n \in Nat, <1>3, LenProperties
<1> QED BY ONLY <1>2, <1>3, <1>4

(* memcmp orders blocks of the same length. *)
LEMMA MemcmpOrders ==
  ASSUME NEW m, NEW d \in Nat, NEW s \in Nat, NEW n \in Nat,
         IsMemory(m), Block(m, d, n), Block(m, s, n)
  PROVE  UnsignedOrders(memcmp(m, d, s, n), Bytes(m, d, n), Bytes(m, s, n))
<1> DEFINE differ == {x \in 0 .. n - 1 : m[d + x] /= m[s + x]}
<1>1. PICK t, u : t = Bytes(m, d, n) /\ u = Bytes(m, s, n)
  OBVIOUS
<1>2. /\ t \in Seq(0 .. 255) /\ Len(t) = n /\ \A x \in 1 .. n : t[x] = m[d + x - 1]
      /\ u \in Seq(0 .. 255) /\ Len(u) = n /\ \A x \in 1 .. n : u[x] = m[s + x - 1]
  <2>1. /\ Bytes(m, d, n) \in Seq(0 .. 255) /\ Len(Bytes(m, d, n)) = n
        /\ \A x \in 1 .. n : Bytes(m, d, n)[x] = m[d + x - 1]
    BY BytesIs
  <2>2. /\ Bytes(m, s, n) \in Seq(0 .. 255) /\ Len(Bytes(m, s, n)) = n
        /\ \A x \in 1 .. n : Bytes(m, s, n)[x] = m[s + x - 1]
    BY BytesIs
  <2> QED BY ONLY <1>1, <2>1, <2>2
<1>3. CASE differ = {}
  <2>1. memcmp(m, d, s, n) = 0
    BY <1>3 DEF memcmp
  <2>2. \A x \in 1 .. n : t[x] = u[x]
    <3>1. ASSUME NEW x \in 1 .. n PROVE m[d + x - 1] = m[s + x - 1]
      <4>1. x - 1 \in 0 .. n - 1 /\ d + x - 1 = d + (x - 1) /\ s + x - 1 = s + (x - 1)
        OBVIOUS
      <4> QED BY <1>3, <4>1
    <3> QED BY ONLY <1>2, <3>1
  <2>3. t = u
    BY ONLY <1>2, <2>2, SeqEqual
  <2>4. UnsignedOrders(0, t, t)
    BY ONLY <1>2, SameOrders
  <2> QED BY ONLY <1>1, <2>1, <2>3, <2>4
<1>4. CASE differ # {}
  <2>1. PICK e : e = Min(differ)
    OBVIOUS
  <2>2. e \in differ /\ \A x \in differ : e <= x
    <3>1. differ \in SUBSET Nat
      OBVIOUS
    <3> HIDE DEF differ
    <3> QED BY <1>4, <2>1, <3>1, MinIs
  <2>3. memcmp(m, d, s, n) = m[d + e] - m[s + e]
    BY <1>4, <2>1 DEF memcmp
  <2>4. e \in 0 .. n - 1 /\ m[d + e] # m[s + e]
    BY <2>2
  <2>5. ByteOf(t, e) = m[d + e] /\ ByteOf(u, e) = m[s + e]
    <3>1. e < n /\ e + 1 \in 1 .. n /\ d + (e + 1) - 1 = d + e /\ s + (e + 1) - 1 = s + e
      BY <2>4
    <3> QED BY ONLY <1>2, <3>1 DEF ByteOf
  <2>6. ASSUME NEW x \in 1 .. e PROVE t[x] = u[x]
    <3>1. /\ x - 1 \in 0 .. n - 1 /\ x - 1 < e
          /\ d + x - 1 = d + (x - 1) /\ s + x - 1 = s + (x - 1) /\ x \in 1 .. n
      BY <2>4
    <3>2. x - 1 \notin differ
      BY <2>2, <2>4, <3>1
    <3>3. m[d + (x - 1)] = m[s + (x - 1)]
      BY <3>1, <3>2
    <3> QED BY ONLY <1>2, <3>1, <3>3
  <2>7. e \in 0 .. Len(t) \cap 0 .. Len(u)
    BY ONLY <1>2, <2>4, n \in Nat
  <2>8. ByteOf(t, e) # ByteOf(u, e)
    BY <2>4, <2>5
  <2>9. UnsignedOrders(ByteOf(t, e) - ByteOf(u, e), t, u)
    BY ONLY <1>2, <2>6, <2>7, <2>8, DifferenceOrders
  <2> QED BY ONLY <1>1, <2>3, <2>5, <2>9
<1> QED BY <1>3, <1>4

(* memcmp is zero when the bytes are the same. *)
LEMMA MemcmpZero ==
  ASSUME NEW m, NEW d \in Nat, NEW s \in Nat, NEW n \in Nat,
         \A x \in 0 .. n - 1 : m[d + x] \in 0 .. 255 /\ m[s + x] \in 0 .. 255
  PROVE  memcmp(m, d, s, n) = 0 <=> \A x \in 0 .. n - 1 : m[d + x] = m[s + x]
<1> DEFINE differ == {x \in 0 .. n - 1 : m[d + x] /= m[s + x]}
<1>1. CASE differ = {}
  BY <1>1 DEF memcmp
<1>2. CASE differ # {}
  <2>1. PICK e : e = Min(differ)
    OBVIOUS
  <2>2. e \in differ
    <3>1. differ \in SUBSET Nat
      OBVIOUS
    <3> HIDE DEF differ
    <3> QED BY <1>2, <2>1, <3>1, MinIs
  <2>3. memcmp(m, d, s, n) = m[d + e] - m[s + e]
    BY <1>2, <2>1 DEF memcmp
  <2>4. e \in 0 .. n - 1 /\ m[d + e] # m[s + e]
    BY <2>2
  <2>5. PICK v, w : v = m[d + e] /\ w = m[s + e]
    OBVIOUS
  <2>6. v \in 0 .. 255 /\ w \in 0 .. 255 /\ v # w
    BY <2>4, <2>5
  <2>7. memcmp(m, d, s, n) # 0
    BY ONLY <2>3, <2>5, <2>6
  <2> QED BY ONLY <2>4, <2>7
<1> QED BY <1>1, <1>2

(* A text and the byte behind it are the bytes of the memory. *)
LEMMA TextBytes ==
  ASSUME NEW m, NEW s, StringAt(m, s, strlen(m, s))
  PROVE  /\ strlen(m, s) \in Nat
         /\ Text(m, s) \in Seq(0 .. 255) /\ Len(Text(m, s)) = strlen(m, s)
         /\ \A x \in 0 .. strlen(m, s) : ByteOf(Text(m, s), x) = m[s + x]
         /\ \A x \in 1 .. strlen(m, s) : Text(m, s)[x] = m[s + x - 1]
<1>1. PICK n, t : n = strlen(m, s) /\ t = Text(m, s)
  OBVIOUS
<1>2. /\ n \in Nat /\ s \in Nat /\ m[s + n] = 0
  BY <1>1 DEF StringAt
<1>3. /\ t \in Seq(1 .. 255) /\ Len(t) = n
      /\ \A x \in 1 .. n : t[x] = m[s + x - 1]
  BY ONLY <1>1, StringAt(m, s, strlen(m, s)), TextIs
<1>4. t \in Seq(0 .. 255)
  BY ONLY <1>3, LenProperties, SeqMonotonic
<1>5. ASSUME NEW x \in 0 .. n PROVE ByteOf(t, x) = m[s + x]
  <2>1. CASE x = n
    BY ONLY <1>2, <1>3, <2>1 DEF ByteOf
  <2>2. CASE x # n
    <3>1. x < n /\ x + 1 \in 1 .. n /\ s + (x + 1) - 1 = s + x
      BY <1>2, <2>2
    <3> QED BY ONLY <1>3, <3>1 DEF ByteOf
  <2> QED BY <2>1, <2>2
<1> QED BY ONLY <1>1, <1>2, <1>3, <1>4, <1>5

(* The beginning of a text. *)
LEMMA AtMostIs ==
  ASSUME NEW t \in Seq(0 .. 255), NEW n \in Nat
  PROVE  /\ AtMost(t, n) \in Seq(0 .. 255)
         /\ Len(AtMost(t, n)) = IF n < Len(t) THEN n ELSE Len(t)
         /\ \A x \in 1 .. Len(AtMost(t, n)) : AtMost(t, n)[x] = t[x]
         /\ \A x \in 0 .. Len(t) : x < n => ByteOf(AtMost(t, n), x) = ByteOf(t, x)
<1>1. PICK c \in 0 .. Len(t) : c = IF n < Len(t) THEN n ELSE Len(t)
  BY LenProperties
<1>2. PICK u : u = AtMost(t, n)
  OBVIOUS
<1>3. u = SubSeq(t, 1, c)
  BY <1>1, <1>2 DEF AtMost
<1>4. u \in Seq(0 .. 255) /\ Len(u) = c /\ \A x \in 1 .. c : u[x] = t[x]
  BY <1>3, PrefixOf
<1>5. ASSUME NEW x \in 0 .. Len(t), x < n PROVE ByteOf(u, x) = ByteOf(t, x)
  <2>1. CASE x < c
    <3>1. x + 1 \in 1 .. c /\ x < Len(t)
      BY <1>1, <2>1, LenProperties
    <3> QED BY ONLY <1>4, <2>1, <3>1 DEF ByteOf
  <2>2. CASE ~ (x < c)
    <3>1. ~ (x < Len(t))
      BY <1>1, <1>5, <2>2, LenProperties
    <3> QED BY ONLY <1>4, <2>2, <3>1 DEF ByteOf
  <2> QED BY <2>1, <2>2
<1> QED BY ONLY <1>1, <1>2, <1>4, <1>5

(* Where two strings part: they differ there, or both end. *)
Fork(m, d, s, e) ==
  /\ e \in 0 .. strlen(m, d) \cap 0 .. strlen(m, s)
  /\ \A x \in 0 .. e - 1 : m[d + x] = m[s + x]
  /\ m[d + e] # m[s + e] \/ (e = strlen(m, d) /\ e = strlen(m, s))

(* Where a scan of a string may stop: not behind its zero. *)
LEMMA FromIs ==
  ASSUME NEW m, NEW s, NEW n, IsMemory(m), StringAt(m, s, n)
  PROVE  0 .. n \subseteq From(m, s)
<1>1. PICK top \in Nat : m \in [1 .. top -> 0 .. 255] /\ top = Max(DOMAIN m)
  BY DEF IsMemory
<1>2. n \in Nat /\ s \in Nat \ {0} /\ s .. s + n \subseteq 1 .. top
  BY <1>1 DEF StringAt
<1>3. ASSUME NEW x \in 0 .. n PROVE x \in From(m, s)
  <2>1. s + x \in s .. s + n
    BY <1>2
  <2>2. s + x \in 1 .. top /\ x \in 0 .. top
    BY <1>2, <2>1
  <2> QED BY <1>1, <2>2 DEF From
<1> QED BY <1>3

(* The first place where strcmp or strncmp stops is a fork. *)
LEMMA StopsFork ==
  ASSUME NEW m, NEW d, NEW s, IsMemory(m),
         StringAt(m, d, strlen(m, d)), StringAt(m, s, strlen(m, s))
  PROVE  /\ Stops(m, d, s) \in SUBSET Nat
         /\ Fork(m, d, s, Min(Stops(m, d, s)))
         /\ \A x \in Stops(m, d, s) : Min(Stops(m, d, s)) <= x
         /\ Min(Stops(m, d, s)) \in Stops(m, d, s)
<1>1. PICK dl, sl : dl = strlen(m, d) /\ sl = strlen(m, s)
  OBVIOUS
<1>2. /\ dl \in Nat /\ d \in Nat /\ m[d + dl] = 0 /\ \A x \in 0 .. dl - 1 : m[d + x] \in 1 .. 255
      /\ sl \in Nat /\ s \in Nat /\ m[s + sl] = 0 /\ \A x \in 0 .. sl - 1 : m[s + x] \in 1 .. 255
  BY <1>1 DEF StringAt
<1>3. 0 .. dl \subseteq From(m, d) /\ 0 .. sl \subseteq From(m, s)
  BY <1>1, FromIs
<1>4. Stops(m, d, s) \in SUBSET Nat
  BY DEF Stops, From
<1>5. ASSUME NEW x \in 0 .. dl \cap 0 .. sl
      PROVE  x \in Stops(m, d, s) <=> (m[d + x] = 0 \/ m[d + x] /= m[s + x])
  BY <1>3 DEF Stops
<1>6. PICK least : least = IF dl <= sl THEN dl ELSE sl
  OBVIOUS
<1>7. least \in Stops(m, d, s) /\ least \in 0 .. dl \cap 0 .. sl
  <2>1. least \in 0 .. dl \cap 0 .. sl
    BY <1>2, <1>6
  <2>2. CASE dl <= sl
    BY <1>2, <1>5, <1>6, <2>1, <2>2
  <2>3. CASE ~ (dl <= sl)
    <3>1. least = sl /\ sl \in 0 .. dl - 1
      BY <1>2, <1>6, <2>3
    <3> QED BY <1>2, <1>5, <2>1, <3>1
  <2> QED BY <2>1, <2>2, <2>3
<1>8. PICK e : e = Min(Stops(m, d, s))
  OBVIOUS
<1>9. e \in Stops(m, d, s) /\ \A x \in Stops(m, d, s) : e <= x
  BY <1>4, <1>7, <1>8, MinIs
<1>10. e \in 0 .. dl \cap 0 .. sl
  BY <1>2, <1>4, <1>7, <1>9
<1>11. ASSUME NEW x \in 0 .. e - 1 PROVE m[d + x] = m[s + x]
  <2>1. x \in 0 .. dl \cap 0 .. sl /\ ~ (e <= x)
    BY <1>2, <1>10
  <2> QED BY <1>5, <1>9, <2>1
<1>12. m[d + e] # m[s + e] \/ (e = dl /\ e = sl)
  <2> SUFFICES ASSUME m[d + e] = m[s + e] PROVE e = dl /\ e = sl
    OBVIOUS
  <2>0. m[d + e] = 0 \/ m[d + e] /= m[s + e]
    BY <1>5, <1>9, <1>10
  <2>1. m[d + e] = 0 /\ m[s + e] = 0
    BY <2>0
  <2>2. e \notin 0 .. dl - 1
    <3> SUFFICES ASSUME e \in 0 .. dl - 1 PROVE FALSE
      OBVIOUS
    <3>1. m[d + e] \in 1 .. 255
      BY <1>2
    <3> QED BY ONLY <2>1, <3>1
  <2>3. e \notin 0 .. sl - 1
    <3> SUFFICES ASSUME e \in 0 .. sl - 1 PROVE FALSE
      OBVIOUS
    <3>1. m[s + e] \in 1 .. 255
      BY <1>2
    <3> QED BY ONLY <2>1, <3>1
  <2> QED BY <1>2, <1>10, <2>2, <2>3
<1> QED BY <1>1, <1>4, <1>8, <1>9, <1>10, <1>11, <1>12 DEF Fork

(* The bytes at a fork order two texts, and their beginnings when the fork *)
(* is in them.                                                             *)
LEMMA ForkOrders ==
  ASSUME NEW m, NEW d, NEW s, NEW e, NEW n \in Nat,
         StringAt(m, d, strlen(m, d)), StringAt(m, s, strlen(m, s)), Fork(m, d, s, e)
  PROVE  /\ SignedOrders(SignedChar(m[d + e]) - SignedChar(m[s + e]),
                   Text(m, d), Text(m, s))
         /\ e < n => UnsignedOrders(m[d + e] - m[s + e],
                            AtMost(Text(m, d), n), AtMost(Text(m, s), n))
         /\ n <= e => AtMost(Text(m, d), n) = AtMost(Text(m, s), n)
<1>1. PICK t, u, dl, sl : /\ t = Text(m, d) /\ u = Text(m, s)
                          /\ dl = strlen(m, d) /\ sl = strlen(m, s)
  OBVIOUS
<1>2. /\ dl \in Nat /\ d \in Nat
      /\ t \in Seq(0 .. 255) /\ Len(t) = dl
      /\ \A x \in 0 .. dl : ByteOf(t, x) = m[d + x]
      /\ \A x \in 1 .. dl : t[x] = m[d + x - 1]
  <2>1. d \in Nat
    BY DEF StringAt
  <2>2. /\ strlen(m, d) \in Nat
        /\ Text(m, d) \in Seq(0 .. 255) /\ Len(Text(m, d)) = strlen(m, d)
        /\ \A x \in 0 .. strlen(m, d) : ByteOf(Text(m, d), x) = m[d + x]
        /\ \A x \in 1 .. strlen(m, d) : Text(m, d)[x] = m[d + x - 1]
    BY ONLY StringAt(m, d, strlen(m, d)), TextBytes
  <2> QED BY ONLY <1>1, <2>1, <2>2
<1>3. /\ sl \in Nat /\ s \in Nat
      /\ u \in Seq(0 .. 255) /\ Len(u) = sl
      /\ \A x \in 0 .. sl : ByteOf(u, x) = m[s + x]
      /\ \A x \in 1 .. sl : u[x] = m[s + x - 1]
  <2>1. s \in Nat
    BY DEF StringAt
  <2>2. /\ strlen(m, s) \in Nat
        /\ Text(m, s) \in Seq(0 .. 255) /\ Len(Text(m, s)) = strlen(m, s)
        /\ \A x \in 0 .. strlen(m, s) : ByteOf(Text(m, s), x) = m[s + x]
        /\ \A x \in 1 .. strlen(m, s) : Text(m, s)[x] = m[s + x - 1]
    BY ONLY StringAt(m, s, strlen(m, s)), TextBytes
  <2> QED BY ONLY <1>1, <2>1, <2>2
<1>4. /\ e \in 0 .. dl \cap 0 .. sl
      /\ \A x \in 0 .. e - 1 : m[d + x] = m[s + x]
      /\ m[d + e] # m[s + e] \/ (e = dl /\ e = sl)
  BY <1>1 DEF Fork
<1>5. ASSUME NEW x \in 1 .. e PROVE t[x] = u[x]
  <2>1. /\ x - 1 \in 0 .. e - 1 /\ d + x - 1 = d + (x - 1) /\ s + x - 1 = s + (x - 1)
        /\ x \in 1 .. dl /\ x \in 1 .. sl
    BY <1>2, <1>3, <1>4
  <2> QED BY ONLY <1>2, <1>3, <1>4, <2>1
<1>6. ByteOf(t, e) = m[d + e] /\ ByteOf(u, e) = m[s + e]
  BY ONLY <1>2, <1>3, <1>4
<1>7. CASE e = dl /\ e = sl
  <2>1. t = u
    BY ONLY <1>2, <1>3, <1>5, <1>7, SeqEqual
  <2>2. m[d + e] = m[s + e] /\ m[d + e] \in 0 .. 255
    <3>1. ByteOf(t, e) \in 0 .. 255
      BY ONLY <1>2, <1>4, ByteOfIs
    <3> QED BY ONLY <1>6, <2>1, <3>1
  <2>3. m[d + e] - m[s + e] = 0 /\ SignedChar(m[d + e]) - SignedChar(m[s + e]) = 0
    BY ONLY <2>2, SignsDiffer
  <2>4. SignedOrders(0, t, t)
    BY ONLY <1>2, SameOrders
  <2>5. AtMost(t, n) \in Seq(0 .. 255)
    BY ONLY n \in Nat, <1>2, AtMostIs
  <2>6. UnsignedOrders(0, AtMost(t, n), AtMost(t, n))
    BY ONLY <2>5, SameOrders
  <2> QED BY ONLY <1>1, <2>1, <2>3, <2>4, <2>6
<1>8. CASE m[d + e] # m[s + e]
  <2>1. e \in 0 .. Len(t) \cap 0 .. Len(u)
    BY <1>2, <1>3, <1>4
  <2>2. SignedOrders(SignedChar(ByteOf(t, e)) - SignedChar(ByteOf(u, e)), t, u)
    BY ONLY <1>2, <1>3, <1>5, <1>6, <1>8, <2>1, DifferenceOrders
  <2>8. SignedOrders(SignedChar(m[d + e]) - SignedChar(m[s + e]), t, u)
    BY ONLY <1>6, <2>2
  <2>3. PICK v, w : v = AtMost(t, n) /\ w = AtMost(u, n)
    OBVIOUS
  <2>4. /\ v \in Seq(0 .. 255)
        /\ Len(v) = IF n < dl THEN n ELSE dl
        /\ \A x \in 1 .. Len(v) : v[x] = t[x]
        /\ \A x \in 0 .. dl : x < n => ByteOf(v, x) = ByteOf(t, x)
    BY ONLY n \in Nat, <1>2, <2>3, AtMostIs
  <2>5. /\ w \in Seq(0 .. 255)
        /\ Len(w) = IF n < sl THEN n ELSE sl
        /\ \A x \in 1 .. Len(w) : w[x] = u[x]
        /\ \A x \in 0 .. sl : x < n => ByteOf(w, x) = ByteOf(u, x)
    BY ONLY n \in Nat, <1>3, <2>3, AtMostIs
  <2>6. CASE e < n
    <3>1. ByteOf(v, e) = m[d + e] /\ ByteOf(w, e) = m[s + e]
      BY ONLY <1>4, <1>6, <2>4, <2>5, <2>6
    <3>2. e \in 0 .. Len(v) \cap 0 .. Len(w)
      BY ONLY n \in Nat, <1>2, <1>3, <1>4, <2>4, <2>5, <2>6
    <3>3. \A x \in 1 .. e : v[x] = w[x]
      <4>1. ASSUME NEW x \in 1 .. e PROVE v[x] = w[x]
        <5>1. x \in 1 .. Len(v) /\ x \in 1 .. Len(w)
          BY ONLY x \in 1 .. e, <3>2, <2>4, <2>5, LenProperties
        <5> QED BY ONLY x \in 1 .. e, <1>5, <2>4, <2>5, <5>1
      <4> QED BY <4>1
    <3>4. UnsignedOrders(ByteOf(v, e) - ByteOf(w, e), v, w)
      BY ONLY <1>8, <2>4, <2>5, <3>1, <3>2, <3>3, DifferenceOrders
    <3>5. UnsignedOrders(m[d + e] - m[s + e], v, w)
      BY ONLY <3>1, <3>4
    <3>6. ~ (n <= e)
      BY <1>2, <1>4, <2>6
    <3> QED BY ONLY <1>1, <2>8, <2>3, <3>5, <3>6
  <2>7. CASE n <= e
    <3>1. Len(v) = n /\ Len(w) = n
      BY ONLY n \in Nat, <1>2, <1>3, <1>4, <2>4, <2>5, <2>7
    <3>2. \A x \in 1 .. n : v[x] = w[x]
      <4>1. ASSUME NEW x \in 1 .. n PROVE v[x] = w[x]
        <5>1. x \in 1 .. e
          BY ONLY n \in Nat, x \in 1 .. n, <1>2, <1>4, <2>7
        <5> QED BY ONLY x \in 1 .. n, <1>5, <2>4, <2>5, <3>1, <5>1
      <4> QED BY <4>1
    <3>3. v = w
      BY ONLY <2>4, <2>5, <3>1, <3>2, SeqEqual
    <3>4. ~ (e < n)
      BY <1>2, <1>4, <2>7
    <3> QED BY ONLY <1>1, <2>8, <2>3, <3>3, <3>4
  <2>9. e < n \/ n <= e
    BY <1>2, <1>4
  <2> QED BY ONLY <2>6, <2>7, <2>9
<1> QED BY <1>4, <1>7, <1>8

(* strcmp and strncmp order texts. *)
LEMMA StrcmpOrders ==
  ASSUME NEW m, NEW d, NEW s, NEW n \in Nat,
         IsMemory(m), Terminated(m, d), Terminated(m, s)
  PROVE  /\ SignedOrders(strcmp(m, d, s), Text(m, d), Text(m, s))
         /\ UnsignedOrders(strncmp(m, d, s, n),
                   AtMost(Text(m, d), n), AtMost(Text(m, s), n))
<1>1. PICK e, S : e = Min(S) /\ S = Stops(m, d, s)
  OBVIOUS
<1>2. StringAt(m, d, strlen(m, d)) /\ StringAt(m, s, strlen(m, s))
  BY StringIs
<1>3. /\ S \in SUBSET Nat /\ Fork(m, d, s, e)
      /\ \A x \in S : e <= x
      /\ e \in S
  BY ONLY <1>1, <1>2, IsMemory(m), StopsFork
<1>4. /\ SignedOrders(SignedChar(m[d + e]) - SignedChar(m[s + e]),
                Text(m, d), Text(m, s))
      /\ e < n => UnsignedOrders(m[d + e] - m[s + e],
                         AtMost(Text(m, d), n), AtMost(Text(m, s), n))
      /\ n <= e => AtMost(Text(m, d), n) = AtMost(Text(m, s), n)
  BY <1>2, <1>3, ForkOrders
<1>5. strcmp(m, d, s) = SignedChar(m[d + e]) - SignedChar(m[s + e])
  BY ONLY <1>1 DEF strcmp
<1> DEFINE stops == {x \in S : x < n}
<1>6. strncmp(m, d, s, n)
        = IF stops = {} THEN 0 ELSE m[d + Min(stops)] - m[s + Min(stops)]
  BY ONLY <1>1 DEF strncmp
<1>7. CASE e < n
  <2>1. e \in stops /\ \A x \in stops : e <= x
    BY ONLY <1>3, <1>7
  <2>2. stops \in SUBSET Nat
    BY <1>3
  <2>3. Min(stops) = e
    <3> HIDE DEF stops
    <3> QED BY ONLY <2>1, <2>2, MinOf
  <2>4. strncmp(m, d, s, n) = m[d + e] - m[s + e]
    <3> HIDE DEF stops
    <3> QED BY ONLY <1>6, <2>1, <2>3
  <2> QED BY ONLY <1>4, <1>5, <1>7, <2>4
<1>8. CASE ~ (e < n)
  <2>1. n <= e /\ stops = {}
    <3>1. (\A x \in S : x \in Nat) /\ e \in Nat
      BY <1>3
    <3>2. \A x \in S : ~ (x < n)
      BY ONLY n \in Nat, <1>3, <1>8, <3>1
    <3>3. n <= e
      BY ONLY n \in Nat, <1>8, <3>1
    <3>4. stops = {}
      BY ONLY <3>2
    <3> QED BY ONLY <3>3, <3>4
  <2>2. strncmp(m, d, s, n) = 0
    BY ONLY <1>6, <2>1
  <2>3. Text(m, d) \in Seq(0 .. 255)
    BY <1>2, TextBytes
  <2>4. AtMost(Text(m, d), n) \in Seq(0 .. 255)
    BY ONLY n \in Nat, <2>3, AtMostIs
  <2>5. UnsignedOrders(0, AtMost(Text(m, d), n), AtMost(Text(m, d), n))
    BY ONLY <2>4, SameOrders
  <2> QED BY ONLY <1>4, <1>5, <2>1, <2>2, <2>5
<1> QED BY <1>7, <1>8

-----------------------------------------------------------------------------
(* The places of a byte in a string, its zero included. *)
ByteAt(m, s, n, b) == {x \in 0 .. n : m[s + x] = b}
WithZero(t) == t \o <<0>>

(* A text and its zero, and where one byte of them is. *)
LEMMA StringWithZero ==
  ASSUME NEW m, NEW s, NEW b,
         StringAt(m, s, strlen(m, s)), b \in 0 .. 255
  PROVE  Occurrences(WithZero(Text(m, s)), <<b>>) = ByteAt(m, s, strlen(m, s), b)
<1>1. PICK n, u, t : n = strlen(m, s) /\ u = Text(m, s) /\ t = WithZero(u)
  OBVIOUS
<1>2. /\ n \in Nat /\ u \in Seq(0 .. 255) /\ Len(u) = n
      /\ \A x \in 0 .. n : ByteOf(u, x) = m[s + x]
  <2>1. /\ strlen(m, s) \in Nat
        /\ Text(m, s) \in Seq(0 .. 255) /\ Len(Text(m, s)) = strlen(m, s)
        /\ \A x \in 0 .. strlen(m, s) : ByteOf(Text(m, s), x) = m[s + x]
    BY TextBytes
  <2> QED BY ONLY <1>1, <2>1
<1>3. <<0>> \in Seq(0 .. 255) /\ Len(<<0>>) = 1 /\ <<0>>[1] = 0
  OBVIOUS
<1>4. t = u \o <<0>>
  BY <1>1 DEF WithZero
<1>5. /\ t \in Seq(0 .. 255) /\ Len(t) = n + 1
      /\ \A x \in 1 .. n + 1 : t[x] = IF x <= n THEN u[x] ELSE 0
  <2>1. /\ u \o <<0>> \in Seq(0 .. 255) /\ Len(u \o <<0>>) = Len(u) + Len(<<0>>)
        /\ \A x \in 1 .. Len(u) + Len(<<0>>) : (u \o <<0>>)[x] =
             IF x <= Len(u) THEN u[x] ELSE <<0>>[x - Len(u)]
    BY ONLY <1>2, <1>3, ConcatProperties
  <2>2. \A x \in 1 .. n + 1 : ~ (x <= n) => x - n = 1
    BY ONLY <1>2
  <2> QED BY ONLY <1>2, <1>3, <1>4, <2>1, <2>2
<1>6. ASSUME NEW x \in 0 .. n PROVE t[x + 1] = m[s + x]
  <2>1. CASE x < n
    <3>1. x + 1 \in 1 .. n + 1 /\ x + 1 <= n
      BY <1>2, <2>1
    <3> QED BY ONLY x \in 0 .. n, <1>2, <1>5, <2>1, <3>1 DEF ByteOf
  <2>2. CASE ~ (x < n)
    <3>1. x + 1 \in 1 .. n + 1 /\ ~ (x + 1 <= n)
      BY <1>2, <2>2
    <3> QED BY ONLY x \in 0 .. n, <1>2, <1>5, <2>2, <3>1 DEF ByteOf
  <2> QED BY <2>1, <2>2
<1>7. ASSUME NEW x \in 0 .. n
      PROVE  SubSeq(t, x + 1, x + 1) = <<b>> <=> m[s + x] = b
  <2>1. PICK v : v = SubSeq(t, x + 1, x + 1)
    OBVIOUS
  <2>2. \A y \in x + 1 .. x + 1 : t[y] \in 0 .. 255
    <3>1. \A y \in x + 1 .. x + 1 : y \in 1 .. n + 1
      BY <1>2
    <3> QED BY ONLY <1>5, <3>1, LenProperties
  <2>3. /\ v \in Seq(0 .. 255)
        /\ Len(v) = IF x + 1 <= x + 1 THEN (x + 1) - (x + 1) + 1 ELSE 0
        /\ \A y \in 1 .. (x + 1) - (x + 1) + 1 : v[y] = t[(x + 1) + y - 1]
    <3>1. x + 1 \in Int
      BY <1>2
    <3> QED BY ONLY <2>1, <2>2, <3>1, SubSeqProperties
  <2>4. Len(v) = 1 /\ v[1] = m[s + x]
    <3>1. (x + 1) - (x + 1) + 1 = 1 /\ (x + 1) + 1 - 1 = x + 1 /\ x + 1 <= x + 1
      BY <1>2
    <3>2. 1 \in 1 .. 1
      OBVIOUS
    <3> QED BY ONLY <1>6, <2>3, <3>1, <3>2, x \in 0 .. n
  <2>5. <<b>> \in Seq(0 .. 255) /\ Len(<<b>>) = 1 /\ <<b>>[1] = b
    OBVIOUS
  <2>6. ASSUME m[s + x] = b PROVE v = <<b>>
    <3>1. \A y \in 1 .. 1 : y = 1
      OBVIOUS
    <3>2. \A y \in 1 .. Len(v) : v[y] = <<b>>[y]
      BY ONLY <2>4, <2>5, <2>6, <3>1
    <3> QED BY ONLY <2>3, <2>4, <2>5, <3>2, SeqEqual
  <2> QED BY ONLY <2>1, <2>4, <2>5, <2>6
<1>8. Len(<<b>>) = 1 /\ 0 .. Len(t) - Len(<<b>>) = 0 .. n
  BY <1>2, <1>5
<1>9. Occurrences(t, <<b>>) = {x \in 0 .. n : SubSeq(t, x + 1, x + 1) = <<b>>}
  BY ONLY <1>8 DEF Occurrences
<1> QED BY ONLY <1>1, <1>7, <1>9 DEF ByteAt

(* strchr and strrchr. *)
LEMMA StrchrFinds ==
  ASSUME NEW m, NEW s, NEW c \in Int, IsMemory(m), Terminated(m, s)
  PROVE  /\ IsFirst(strchr(m, s, c), s, Occurrences(WithZero(Text(m, s)), <<c % 256>>))
         /\ IsLast(strrchr(m, s, c), s, Occurrences(WithZero(Text(m, s)), <<c % 256>>))
<1>1. StringAt(m, s, strlen(m, s))
  BY StringIs
<1>2. PICK n, t, b : n = strlen(m, s) /\ t = WithZero(Text(m, s)) /\ b = c % 256
  OBVIOUS
<1>3. n \in Nat /\ s \in Nat /\ b \in 0 .. 255
  BY <1>1, <1>2 DEF StringAt
<1>4. PICK places : places = ByteAt(m, s, n, b)
  OBVIOUS
<1>5. Occurrences(t, <<b>>) = places
  <2>1. Occurrences(WithZero(Text(m, s)), <<b>>) = ByteAt(m, s, strlen(m, s), b)
    BY <1>1, <1>3, StringWithZero
  <2> QED BY ONLY <1>2, <1>4, <2>1
<1>6. places \in SUBSET Nat /\ places \in SUBSET (0 .. n)
  BY <1>3, <1>4 DEF ByteAt
<1>7. strchr(m, s, c) = FirstAt(s, places) /\ strrchr(m, s, c) = LastAt(s, places)
  BY ONLY <1>2, <1>4 DEF strchr, strrchr, ByteAt
<1>8. IsFirst(FirstAt(s, places), s, places)
  BY <1>3, <1>6, FirstAtIs
<1>9. IsLast(LastAt(s, places), s, places)
  BY <1>3, <1>6, LastAtIs
<1> QED BY ONLY <1>2, <1>5, <1>7, <1>8, <1>9

Tries(m, d, s) ==
  LET nl == strlen(m, s)
      tries == IF nl = 0 THEN {0} ELSE 0 .. strlen(m, d) - nl
  IN {x \in tries : memcmp(m, d + x, s, nl) = 0}

(* One text is found in another where the bytes are the same. *)
LEMMA TextFound ==
  ASSUME NEW m, NEW d, NEW s, NEW x \in 0 .. strlen(m, d) - strlen(m, s),
         StringAt(m, d, strlen(m, d)), StringAt(m, s, strlen(m, s))
  PROVE  SubSeq(Text(m, d), x + 1, x + strlen(m, s)) = Text(m, s)
           <=> memcmp(m, d + x, s, strlen(m, s)) = 0
<1>1. PICK t, u, dl, sl : /\ t = Text(m, d) /\ u = Text(m, s)
                          /\ dl = strlen(m, d) /\ sl = strlen(m, s)
  OBVIOUS
<1>2. /\ dl \in Nat /\ d \in Nat
      /\ \A y \in 0 .. dl - 1 : m[d + y] \in 1 .. 255
      /\ sl \in Nat /\ s \in Nat
      /\ \A y \in 0 .. sl - 1 : m[s + y] \in 1 .. 255
  BY <1>1 DEF StringAt
<1>3. /\ t \in Seq(0 .. 255) /\ Len(t) = dl
      /\ \A y \in 1 .. dl : t[y] = m[d + y - 1]
  <2>1. /\ Text(m, d) \in Seq(0 .. 255) /\ Len(Text(m, d)) = strlen(m, d)
        /\ \A y \in 1 .. strlen(m, d) : Text(m, d)[y] = m[d + y - 1]
    BY TextBytes
  <2> QED BY ONLY <1>1, <2>1
<1>4. /\ u \in Seq(0 .. 255) /\ Len(u) = sl
      /\ \A y \in 1 .. sl : u[y] = m[s + y - 1]
  <2>1. /\ Text(m, s) \in Seq(0 .. 255) /\ Len(Text(m, s)) = strlen(m, s)
        /\ \A y \in 1 .. strlen(m, s) : Text(m, s)[y] = m[s + y - 1]
    BY TextBytes
  <2> QED BY ONLY <1>1, <2>1
<1>5. x \in Nat /\ x + sl <= dl
  BY <1>1, <1>2
<1>6. PICK v : v = SubSeq(t, x + 1, x + sl)
  OBVIOUS
<1>7. v \in Seq(0 .. 255) /\ Len(v) = sl /\ \A y \in 1 .. sl : v[y] = m[d + x + y - 1]
  <2>1. \A y \in x + 1 .. x + sl : t[y] \in 0 .. 255
    <3>1. \A y \in x + 1 .. x + sl : y \in 1 .. dl
      BY ONLY <1>2, <1>5
    <3>2. \A y \in 1 .. dl : t[y] \in 0 .. 255
      <4>1. t \in Seq(0 .. 255) /\ Len(t) = dl
        BY ONLY <1>3
      <4> QED BY ONLY <4>1, ElementOfSeq
    <3> QED BY ONLY <3>1, <3>2
  <2>2. /\ v \in Seq(0 .. 255)
        /\ Len(v) = IF x + 1 <= x + sl THEN (x + sl) - (x + 1) + 1 ELSE 0
        /\ \A y \in 1 .. (x + sl) - (x + 1) + 1 : v[y] = t[(x + 1) + y - 1]
    <3>1. x + 1 \in Int /\ x + sl \in Int
      BY <1>2, <1>5
    <3> QED BY ONLY <1>6, <2>1, <3>1, SubSeqProperties
  <2>3. (x + sl) - (x + 1) + 1 = sl /\ (x + 1 <= x + sl \/ sl = 0)
    BY ONLY <1>2, <1>5
  <2>4. ASSUME NEW y \in 1 .. sl PROVE v[y] = m[d + x + y - 1]
    <3>1. (x + 1) + y - 1 = x + y /\ x + y \in 1 .. dl /\ d + (x + y) - 1 = d + x + y - 1
      BY ONLY y \in 1 .. sl, <1>2, <1>5
    <3> QED BY ONLY y \in 1 .. sl, <1>3, <2>2, <2>3, <3>1
  <2> QED BY ONLY <2>2, <2>3, <2>4
<1>8. ASSUME NEW y \in 0 .. sl - 1
      PROVE  m[(d + x) + y] \in 0 .. 255 /\ m[s + y] \in 0 .. 255
  <2>1. x + y \in 0 .. dl - 1 /\ d + (x + y) = (d + x) + y
    BY <1>2, <1>5
  <2>2. m[d + (x + y)] \in 1 .. 255 /\ m[s + y] \in 1 .. 255
    BY ONLY y \in 0 .. sl - 1, <1>2, <2>1
  <2> QED BY ONLY <2>1, <2>2
<1>9. memcmp(m, d + x, s, sl) = 0 <=> \A y \in 0 .. sl - 1 : m[(d + x) + y] = m[s + y]
  <2>1. PICK f \in Nat : f = d + x
    BY <1>2, <1>5
  <2>2. \A y \in 0 .. sl - 1 : m[f + y] \in 0 .. 255 /\ m[s + y] \in 0 .. 255
    BY ONLY <1>8, <2>1
  <2>3. memcmp(m, f, s, sl) = 0 <=> \A y \in 0 .. sl - 1 : m[f + y] = m[s + y]
    <3>1. s \in Nat /\ sl \in Nat
      BY <1>2
    <3> QED BY ONLY f \in Nat, <2>2, <3>1, MemcmpZero
  <2> QED BY ONLY <2>1, <2>3
<1>10. ASSUME v = u PROVE \A y \in 0 .. sl - 1 : m[(d + x) + y] = m[s + y]
  <2>1. ASSUME NEW y \in 0 .. sl - 1 PROVE m[(d + x) + y] = m[s + y]
    <3>1. y + 1 \in 1 .. sl /\ d + x + (y + 1) - 1 = (d + x) + y /\ s + (y + 1) - 1 = s + y
      BY <1>2, <1>5
    <3> QED BY ONLY <1>4, <1>7, <1>10, <3>1
  <2> QED BY <2>1
<1>11. ASSUME \A y \in 0 .. sl - 1 : m[(d + x) + y] = m[s + y] PROVE v = u
  <2>1. ASSUME NEW y \in 1 .. sl PROVE v[y] = u[y]
    <3>1. y - 1 \in 0 .. sl - 1 /\ d + x + y - 1 = (d + x) + (y - 1) /\ s + y - 1 = s + (y - 1)
      BY <1>2, <1>5
    <3> QED BY ONLY y \in 1 .. sl, <1>4, <1>7, <1>11, <3>1
  <2> QED BY ONLY <1>4, <1>7, <2>1, SeqEqual
<1> QED BY ONLY <1>1, <1>6, <1>9, <1>10, <1>11

(* strstr finds the first of them. *)
LEMMA StrstrFinds ==
  ASSUME NEW m, NEW d, NEW s, IsMemory(m), Terminated(m, d), Terminated(m, s)
  PROVE  IsFirst(strstr(m, d, s), d, Occurrences(Text(m, d), Text(m, s)))
<1>1. StringAt(m, d, strlen(m, d)) /\ StringAt(m, s, strlen(m, s))
  BY StringIs
<1>2. PICK dl, sl : dl = strlen(m, d) /\ sl = strlen(m, s)
  OBVIOUS
<1>3. dl \in Nat /\ sl \in Nat /\ d \in Nat
  BY <1>1, <1>2 DEF StringAt
<1>4. strstr(m, d, s) = FirstAt(d, Tries(m, d, s))
  BY ONLY TRUE DEF strstr, Tries
<1>5. PICK found : found = Occurrences(Text(m, d), Text(m, s))
  OBVIOUS
<1>6. found = {x \in 0 .. dl - sl : memcmp(m, d + x, s, sl) = 0}
  <2>1. Len(Text(m, d)) = dl /\ Len(Text(m, s)) = sl
    BY <1>1, <1>2, TextBytes
  <2>2. \A x \in 0 .. dl - sl :
          SubSeq(Text(m, d), x + 1, x + sl) = Text(m, s) <=> memcmp(m, d + x, s, sl) = 0
    BY <1>1, <1>2, TextFound
  <2>3. found = {x \in 0 .. dl - sl : SubSeq(Text(m, d), x + 1, x + sl) = Text(m, s)}
    BY ONLY <1>5, <2>1 DEF Occurrences
  <2> QED BY ONLY <2>2, <2>3
<1>7. CASE sl # 0
  <2>1. Tries(m, d, s) = found
    BY ONLY <1>2, <1>6, <1>7 DEF Tries
  <2>2. found \in SUBSET Nat
    BY <1>3, <1>6
  <2>3. IsFirst(FirstAt(d, found), d, found)
    BY <1>3, <2>2, FirstAtIs
  <2> QED BY ONLY <1>4, <1>5, <2>1, <2>3
<1>8. CASE sl = 0
  <2>1. \A x : memcmp(m, d + x, s, 0) = 0
    <3>1. ASSUME NEW x PROVE memcmp(m, d + x, s, 0) = 0
      <4>1. {y \in 0 .. 0 - 1 : m[(d + x) + y] /= m[s + y]} = {}
        <5>1. \A y : y \notin 0 .. 0 - 1
          OBVIOUS
        <5> QED BY ONLY <5>1
      <4> QED BY <4>1 DEF memcmp
    <3> QED BY <3>1
  <2>2. Tries(m, d, s) = {0}
    BY ONLY <1>2, <1>8, <2>1 DEF Tries
  <2>3. Min({0}) = 0
    BY MinOf
  <2>4. FirstAt(d, {0}) = d
    BY ONLY <1>3, <2>3 DEF FirstAt
  <2>5. 0 \in found /\ \A x \in found : 0 <= x
    <3>1. 0 \in 0 .. dl - sl
      BY <1>3, <1>8
    <3>2. \A x \in found : x \in 0 .. dl - sl
      BY ONLY <1>6
    <3>3. memcmp(m, d + 0, s, sl) = 0
      BY ONLY <1>8, <2>1
    <3>4. 0 \in found
      BY ONLY <1>6, <3>1, <3>3
    <3> QED BY <3>2, <3>4
  <2>6. d - d = 0
    BY <1>3
  <2>7. IsFirst(d, d, found)
    BY ONLY <2>5, <2>6 DEF IsFirst
  <2> QED BY ONLY <1>4, <1>5, <2>2, <2>4, <2>7
<1> QED BY <1>7, <1>8

-----------------------------------------------------------------------------
(* memccpy stops behind the first hit. *)
LEMMA MemccpyAgrees ==
  ASSUME NEW m, NEW d \in Nat, NEW s \in Nat, NEW n \in Nat, NEW c \in Int, NEW out,
         IsMemory(m), Block(m, d, n), Block(m, s, n), Disjoint(d, s, n),
         out = memccpy(m, d, s, c, n)
  PROVE  \/ /\ Hits(m, s, c, n) = {} /\ out.result = NULL
            /\ Copied(m, out.mem, d, s, n)
         \/ \E hit \in Hits(m, s, c, n) :
              /\ \A x \in Hits(m, s, c, n) : hit <= x
              /\ out.result = d + hit + 1 /\ out.result # NULL
              /\ Copied(m, out.mem, d, s, hit + 1)
<1>2. d # 0 /\ d .. d + n - 1 \subseteq DOMAIN m /\ s .. s + n - 1 \subseteq DOMAIN m
  BY BlockIs
<1>3. out = CopiedTo(m, d, s, c, n)
  <2>1. memccpy(m, d, s, c, n) = CopiedTo(m, d, s, c, n)
    BY <1>2, MemccpyIs
  <2> QED BY ONLY out = memccpy(m, d, s, c, n), <2>1
<1>4. PICK S : S = Hits(m, s, c, n)
  OBVIOUS
<1>5. S \in SUBSET (0 .. n - 1) /\ S \in SUBSET Nat
  BY <1>4 DEF Hits
<1>6. CASE S = {}
  <2>1. out = [mem |-> Moved(m, d, s, n), result |-> NULL]
    BY ONLY <1>3, <1>4, <1>6 DEF CopiedTo
  <2>2. Copied(m, Moved(m, d, s, n), d, s, n)
    BY <1>2, MovedCopies
  <2> QED BY ONLY <1>4, <1>6, <2>1, <2>2
<1>7. CASE S # {}
  <2>1. PICK hit : hit = Min(S)
    OBVIOUS
  <2>2. hit \in S /\ \A x \in S : hit <= x
    BY <1>5, <1>7, <2>1, MinIs
  <2>3. out = [mem |-> Moved(m, d, s, hit + 1), result |-> d + hit + 1]
    BY ONLY <1>3, <1>4, <1>7, <2>1 DEF CopiedTo
  <2>4. hit \in 0 .. n - 1
    BY <1>5, <2>2
  <2>5. Copied(m, Moved(m, d, s, hit + 1), d, s, hit + 1)
    <3>1. hit + 1 \in Nat /\ d .. d + (hit + 1) - 1 \subseteq DOMAIN m
      BY <1>2, <2>4
    <3> QED BY <3>1, MovedCopies
  <2>6. d + hit + 1 # NULL
    BY <2>4 DEF NULL
  <2> QED BY ONLY <1>4, <2>2, <2>3, <2>5, <2>6
<1> QED BY <1>6, <1>7

(* memccpy returns the place behind the first hit. *)
LEMMA MemccpyFinds ==
  ASSUME NEW m, NEW d \in Nat, NEW s \in Nat, NEW n \in Nat, NEW c \in Int,
         IsMemory(m), Block(m, d, n), Block(m, s, n), Disjoint(d, s, n)
  PROVE  /\ Copied(m, memccpy(m, d, s, c, n).mem, d, s,
                   IF memccpy(m, d, s, c, n).result /= NULL
                   THEN memccpy(m, d, s, c, n).result - d ELSE n)
         /\ c \in -128 .. 127 =>
              IsFirst(memccpy(m, d, s, c, n).result, d + 1, ByteAt(m, s, n - 1, c % 256))
<1>1. \A x \in 0 .. n - 1 : m[s + x] \in 0 .. 255
  BY BlockIs
<1>2. PICK S, out : S = Hits(m, s, c, n) /\ out = memccpy(m, d, s, c, n)
  OBVIOUS
<1>3. \/ /\ S = {} /\ out.result = NULL
         /\ Copied(m, out.mem, d, s, n)
      \/ \E hit \in S :
           /\ \A x \in S : hit <= x
           /\ out.result = d + hit + 1 /\ out.result # NULL
           /\ Copied(m, out.mem, d, s, hit + 1)
  BY <1>2, MemccpyAgrees
<1>4. S \in SUBSET Nat
  BY <1>2 DEF Hits
<1>5. c \in -128 .. 127 => S = ByteAt(m, s, n - 1, c % 256)
  <2> SUFFICES ASSUME c \in -128 .. 127 PROVE S = ByteAt(m, s, n - 1, c % 256)
    OBVIOUS
  <2>3. c % 256 = IF c < 0 THEN c + 256 ELSE c
    BY ONLY c \in -128 .. 127
  <2>1. ASSUME NEW b \in 0 .. 255 PROVE SignedChar(b) = c <=> b = c % 256
    BY ONLY <2>3, c \in -128 .. 127, b \in 0 .. 255 DEF SignedChar
  <2>2. \A x \in 0 .. n - 1 : SignedChar(m[s + x]) = c <=> m[s + x] = c % 256
    BY ONLY <1>1, <2>1
  <2> QED BY ONLY <1>2, <2>2 DEF Hits, ByteAt
<1>6. ASSUME S = {}, out.result = NULL, Copied(m, out.mem, d, s, n)
      PROVE  /\ Copied(m, out.mem, d, s, IF out.result /= NULL THEN out.result - d ELSE n)
             /\ c \in -128 .. 127 => IsFirst(out.result, d + 1, ByteAt(m, s, n - 1, c % 256))
  BY ONLY <1>5, <1>6 DEF IsFirst
<1>7. ASSUME NEW hit \in S, \A x \in S : hit <= x,
             out.result = d + hit + 1, out.result # NULL,
             Copied(m, out.mem, d, s, hit + 1)
      PROVE  /\ Copied(m, out.mem, d, s, IF out.result /= NULL THEN out.result - d ELSE n)
             /\ c \in -128 .. 127 =>
                  IsFirst(out.result, d + 1, ByteAt(m, s, n - 1, c % 256))
  <2>1. out.result - d = hit + 1 /\ out.result - (d + 1) = hit
    BY <1>4, <1>7
  <2>2. Copied(m, out.mem, d, s, IF out.result /= NULL THEN out.result - d ELSE n)
    BY ONLY <1>7, <2>1
  <2>3. S # {} /\ out.result - (d + 1) \in S /\ \A x \in S : out.result - (d + 1) <= x
    BY ONLY hit \in S, <1>7, <2>1
  <2>4. IsFirst(out.result, d + 1, S)
    BY ONLY <2>3 DEF IsFirst
  <2> QED BY ONLY <1>5, <2>2, <2>4
<1>8. /\ Copied(m, out.mem, d, s, IF out.result /= NULL THEN out.result - d ELSE n)
      /\ c \in -128 .. 127 => IsFirst(out.result, d + 1, ByteAt(m, s, n - 1, c % 256))
  BY <1>3, <1>6, <1>7
<1> QED BY ONLY <1>2, <1>8

(* strncpy is memccpy up to a zero. *)
LEMMA StrncpyCopies ==
  ASSUME NEW m, NEW d \in Nat, NEW s \in Nat, NEW n \in Nat,
         IsMemory(m), Block(m, d, n), Block(m, s, n), Disjoint(d, s, n)
  PROVE  Copied(m, strncpy(m, d, s, n), d, s,
                Min({n} \cup {x \in 1 .. n : m[s + x - 1] = 0}))
<1>1. \A x \in 0 .. n - 1 : m[s + x] \in 0 .. 255
  BY BlockIs
<1>2. PICK S, T, out : /\ S = Hits(m, s, 0, n) /\ out = memccpy(m, d, s, 0, n)
                       /\ T = {n} \cup {x \in 1 .. n : m[s + x - 1] = 0}
  OBVIOUS
<1>3. \/ S = {} /\ Copied(m, out.mem, d, s, n)
      \/ \E hit \in S :
           /\ \A x \in S : hit <= x
           /\ Copied(m, out.mem, d, s, hit + 1)
  BY <1>2, MemccpyAgrees
<1>4. T \in SUBSET Nat /\ n \in T
  BY <1>2
<1>5. ASSUME NEW x \in 1 .. n PROVE m[s + x - 1] = 0 <=> x - 1 \in S
  <2>1. x - 1 \in 0 .. n - 1 /\ s + x - 1 = s + (x - 1)
    OBVIOUS
  <2>2. \A b \in 0 .. 255 : SignedChar(b) = 0 <=> b = 0
    BY DEF SignedChar
  <2>3. SignedChar(m[s + (x - 1)]) = 0 <=> m[s + (x - 1)] = 0
    BY ONLY <1>1, <2>1, <2>2
  <2> QED BY ONLY <1>2, <2>1, <2>3 DEF Hits
<1>6. CASE S = {} /\ Copied(m, out.mem, d, s, n)
  <2>1. \A x \in T : x = n
    BY ONLY <1>2, <1>5, <1>6
  <2>2. Min(T) = n
    BY <1>4, <2>1, MinOf
  <2> QED BY ONLY <1>2, <1>6, <2>2 DEF strncpy
<1>7. ASSUME NEW hit \in S, \A x \in S : hit <= x, Copied(m, out.mem, d, s, hit + 1)
      PROVE  Copied(m, out.mem, d, s, Min(T))
  <2>1. hit \in 0 .. n - 1
    BY <1>2 DEF Hits
  <2>2. hit + 1 \in 1 .. n /\ (hit + 1) - 1 = hit
    BY <2>1
  <2>3. hit + 1 \in T
    BY ONLY hit \in S, <1>2, <1>5, <2>2
  <2>4. ASSUME NEW x \in T PROVE hit + 1 <= x
    <3>1. CASE x = n
      BY <2>1, <3>1
    <3>2. CASE x # n
      <4>1. x \in 1 .. n /\ x - 1 \in S
        BY ONLY x \in T, <1>2, <1>5, <3>2
      <4>2. hit <= x - 1
        BY <1>7, <4>1
      <4> QED BY <2>1, <4>1, <4>2
    <3> QED BY <3>1, <3>2
  <2>5. Min(T) = hit + 1
    BY <1>4, <2>3, <2>4, MinOf
  <2> QED BY <1>7, <2>5
<1>8. Copied(m, out.mem, d, s, Min(T))
  BY ONLY <1>2, <1>3, <1>6, <1>7 DEF strncpy
<1> QED BY ONLY <1>2, <1>8 DEF strncpy

(* strcpy is memcpy of a text and its zero. *)
LEMMA StrcpyCopies ==
  ASSUME NEW m, NEW d \in Nat, NEW s \in Nat,
         IsMemory(m), Terminated(m, s), Block(m, d, strlen(m, s) + 1),
         Disjoint(d, s, strlen(m, s) + 1)
  PROVE  Copied(m, strcpy(m, d, s), d, s, strlen(m, s) + 1)
<1>2. StringAt(m, s, strlen(m, s))
  BY StringIs
<1>3. PICK n : n = strlen(m, s) + 1
  OBVIOUS
<1>4. n \in Nat /\ s .. s + n - 1 \subseteq DOMAIN m
  BY <1>2, <1>3 DEF StringAt
<1>5. Block(m, d, n) /\ Disjoint(d, s, n)
  BY <1>3
<1>6. d .. d + n - 1 \subseteq DOMAIN m
  BY <1>4, <1>5, BlockIs
<1>7. CopyForward(m, d, s, n) = Moved(m, d, s, n)
  <2>1. d <= s \/ s + n <= d
    BY <1>4, <1>5 DEF Disjoint
  <2> QED BY <1>4, <1>6, <2>1, CopyForwardIs
<1>8. Copied(m, Moved(m, d, s, n), d, s, n)
  BY <1>4, <1>6, MovedCopies
<1> QED BY ONLY <1>3, <1>7, <1>8 DEF strcpy

(* memcpy and memmove copy where they are defined. *)
LEMMA MemmoveCopies ==
  ASSUME NEW m, NEW d \in Nat, NEW s \in Nat, NEW n \in Nat,
         IsMemory(m), Block(m, d, n), Block(m, s, n)
  PROVE  /\ Copied(m, memmove(m, d, s, n), d, s, n)
         /\ Disjoint(d, s, n) => Copied(m, memcpy(m, d, s, n), d, s, n)
<1>2. d .. d + n - 1 \subseteq DOMAIN m /\ s .. s + n - 1 \subseteq DOMAIN m
  BY BlockIs
<1>3. Copied(m, Moved(m, d, s, n), d, s, n)
  BY <1>2, MovedCopies
<1>4. /\ memmove(m, d, s, n) = Moved(m, d, s, n)
      /\ Disjoint(d, s, n) => memcpy(m, d, s, n) = Moved(m, d, s, n)
  BY <1>2, MemmoveMoves
<1> QED BY ONLY <1>3, <1>4

-----------------------------------------------------------------------------
(* A word of four bytes and what dividing it by the weights gives. *)
WordOf(B, x3, x2, x1, x0) == ((x3 * B + x2) * B + x1) * B + x0

(* Dividing a word by the weights gives its bytes. *)
LEMMA Digits ==
  ASSUME NEW B \in Nat \ {0}, NEW x3 \in 0 .. B - 1, NEW x2 \in 0 .. B - 1,
         NEW x1 \in 0 .. B - 1, NEW x0 \in 0 .. B - 1,
         NEW w, w = WordOf(B, x3, x2, x1, x0)
  PROVE  /\ w \in Nat
         /\ (w \div 1) % B = x0 /\ w % B = x0
         /\ (w \div B) % B = x1
         /\ (w \div (B * B)) % B = x2
         /\ w \div (B * B * B) = x3 /\ (w \div (B * B * B)) % B = x3
         /\ w % (B * B) = x1 * B + x0
<1>1. PICK C, D : C = B * B /\ D = B * B * B
  OBVIOUS
<1>2. C \in Nat \ {0} /\ D \in Nat \ {0} /\ D = C * B
  <2>1. B * B \in Nat /\ B * B * B \in Nat /\ B * B > 0
    OBVIOUS
  <2>2. B * B * B > 0
    BY <2>1
  <2> QED BY <1>1, <2>1, <2>2
<1>3. x1 * B + x0 \in 0 .. C - 1
  <2>1. x1 * B <= (B - 1) * B
    OBVIOUS
  <2>2. (B - 1) * B = B * B - B
    OBVIOUS
  <2>3. x1 * B \in Nat
    OBVIOUS
  <2> QED BY <1>1, <2>1, <2>2, <2>3
<1>4. (x2 * B + x1) * B + x0 \in 0 .. D - 1
  <2>1. x2 * C <= (B - 1) * C /\ x2 * C \in Nat
    BY <1>2
  <2>2. (B - 1) * C = D - C
    BY <1>2
  <2>3. (x2 * B + x1) * B + x0 = x2 * C + (x1 * B + x0)
    BY <1>1
  <2> QED BY <1>2, <1>3, <2>1, <2>2, <2>3
<1>5. (x3 * B + x2) * B + x1 \in Nat /\ x3 * B + x2 \in Nat /\ x3 \in Nat
  OBVIOUS
<1>6. w = ((x3 * B + x2) * B + x1) * B + x0
  BY DEF WordOf
<1>7. w = (x3 * B + x2) * C + (x1 * B + x0)
  BY <1>1, <1>6
<1>8. w = x3 * D + ((x2 * B + x1) * B + x0)
  BY <1>1, <1>6
<1>9. w \div B = (x3 * B + x2) * B + x1 /\ w % B = x0
  BY ONLY B \in Nat \ {0}, x0 \in 0 .. B - 1, <1>5, <1>6, Divides
<1>10. w \div C = x3 * B + x2 /\ w % C = x1 * B + x0
  BY ONLY <1>2, <1>3, <1>5, <1>7, Divides
<1>11. w \div D = x3
  BY ONLY <1>2, <1>4, <1>5, <1>8, Divides
<1>12. (w \div B) % B = x1
  <2>1. PICK y : y = w \div B
    OBVIOUS
  <2>2. y = (x3 * B + x2) * B + x1
    BY <1>9, <2>1
  <2>3. y % B = x1
    BY ONLY B \in Nat \ {0}, x1 \in 0 .. B - 1, <1>5, <2>2, Divides
  <2> QED BY <2>1, <2>3
<1>13. (w \div C) % B = x2
  <2>1. PICK y : y = w \div C
    OBVIOUS
  <2>2. y = x3 * B + x2
    BY <1>10, <2>1
  <2>3. y % B = x2
    BY ONLY B \in Nat \ {0}, x2 \in 0 .. B - 1, <1>5, <2>2, Divides
  <2> QED BY <2>1, <2>3
<1>14. x3 % B = x3
  OBVIOUS
<1>15. w \in Nat
  BY <1>5, <1>6
<1>16. w \div 1 = w
  BY ONLY <1>15
<1> QED BY ONLY <1>1, <1>9, <1>10, <1>11, <1>12, <1>13, <1>14, <1>15, <1>16

(* Every word has its four bytes. *)
LEMMA HasDigits ==
  ASSUME NEW B \in Nat \ {0}, NEW w \in 0 .. B * (B * B * B) - 1
  PROVE  \E x3, x2, x1, x0 \in 0 .. B - 1 : w = WordOf(B, x3, x2, x1, x0)
<1>1. \A v \in Nat : \E f \in Nat, e \in 0 .. B - 1 : v = f * B + e
  <2> SUFFICES ASSUME NEW v \in Nat PROVE \E f \in Nat, e \in 0 .. B - 1 : v = f * B + e
    OBVIOUS
  <2> DEFINE S == {e \in Nat : \E f \in Nat : v = f * B + e}
  <2>1. PICK e \in S : \A y \in S : e <= y
    <3>1. v = 0 * B + v
      OBVIOUS
    <3>2. v \in S
      BY <3>1
    <3>3. S \in SUBSET Nat
      OBVIOUS
    <3> HIDE DEF S
    <3> QED BY <3>2, <3>3, LeastNatural
  <2>2. PICK f \in Nat : v = f * B + e
    OBVIOUS
  <2>3. e < B
    <3> SUFFICES ASSUME e >= B PROVE FALSE
      OBVIOUS
    <3>1. e - B \in Nat /\ v = (f + 1) * B + (e - B) /\ f + 1 \in Nat
      BY <2>2
    <3>2. e - B \in S
      BY <3>1
    <3>3. e <= e - B
      <4> HIDE DEF S
      <4> QED BY <2>1, <3>2
    <3> QED BY <3>1, <3>3
  <2> QED BY <2>2, <2>3
<1>2. PICK v \in Nat, x0 \in 0 .. B - 1 : w = v * B + x0
  <2>1. w \in Nat
    OBVIOUS
  <2> QED BY ONLY <1>1, <2>1
<1>3. PICK u \in Nat, x1 \in 0 .. B - 1 : v = u * B + x1
  BY <1>1
<1>4. PICK x3 \in Nat, x2 \in 0 .. B - 1 : u = x3 * B + x2
  BY <1>1
<1>5. w = WordOf(B, x3, x2, x1, x0)
  BY <1>2, <1>3, <1>4 DEF WordOf
<1>6. x3 < B
  <2> SUFFICES ASSUME x3 >= B PROVE FALSE
    OBVIOUS
  <2>1. u >= B * B
    <3>1. x3 * B >= B * B
      OBVIOUS
    <3> QED BY <1>4, <3>1
  <2>2. v >= B * B * B
    <3>1. u * B >= (B * B) * B
      BY <2>1
    <3> QED BY <1>3, <3>1
  <2>3. w >= B * B * B * B
    <3>1. v * B >= (B * B * B) * B
      BY <2>2
    <3> QED BY <1>2, <3>1
  <2> QED BY <2>3
<1> QED BY <1>5, <1>6

(* htonl turns the four bytes round and htons the last two. *)
LEMMA WordTurns ==
  ASSUME NEW w \in Words
  PROVE  WordAgrees(w, [htonl |-> htonl(w, ByteSize),
                        htons |-> htons(w % Weight(ByteSize)[3], ByteSize)])
<1>1. PICK B \in Nat \ {0} : B = ByteSize
  BY CallsAssumption
<1>2. PICK one : one = Weight(B)
  OBVIOUS
<1>3. one[1] = 1 /\ one[2] = B /\ one[3] = B * B /\ one[4] = B * B * B
  BY <1>2 DEF Weight
<1>4. w \in 0 .. B * (B * B * B) - 1
  BY <1>1, <1>2, <1>3, CallsAssumption
<1>5. PICK x3 \in 0 .. B - 1, x2 \in 0 .. B - 1, x1 \in 0 .. B - 1, x0 \in 0 .. B - 1 :
        w = WordOf(B, x3, x2, x1, x0)
  BY <1>4, HasDigits
<1>6. /\ w \in Nat
      /\ (w \div 1) % B = x0 /\ w % B = x0
      /\ (w \div B) % B = x1
      /\ (w \div (B * B)) % B = x2
      /\ w \div (B * B * B) = x3 /\ (w \div (B * B * B)) % B = x3
      /\ w % (B * B) = x1 * B + x0
  BY <1>5, Digits
<1>7. PICK long : long = htonl(w, B)
  OBVIOUS
<1>8. long = x3 + x2 * B + x1 * (B * B) + x0 * (B * B * B)
  <2>1. htonl(w, B) = (w \div (B * B * B)) + ((w \div (B * B)) % B) * B
                        + ((w \div B) % B) * (B * B) + (w % B) * (B * B * B)
    BY <1>2, <1>3 DEF htonl
  <2> QED BY ONLY <1>6, <1>7, <2>1
<1>9. long = WordOf(B, x0, x1, x2, x3)
  BY ONLY <1>8, B \in Nat \ {0}, x3 \in 0 .. B - 1, x2 \in 0 .. B - 1, x1 \in 0 .. B - 1,
          x0 \in 0 .. B - 1 DEF WordOf
<1>10. /\ (long \div 1) % B = x3
       /\ (long \div B) % B = x2
       /\ (long \div (B * B)) % B = x1
       /\ (long \div (B * B * B)) % B = x0
  BY <1>9, Digits
<1>11. \A n \in 1 .. 4 : (long \div one[n]) % B = (w \div one[5 - n]) % B
  <2>1. \A n \in 1 .. 4 : n = 1 \/ n = 2 \/ n = 3 \/ n = 4
    OBVIOUS
  <2>2. 5 - 1 = 4 /\ 5 - 2 = 3 /\ 5 - 3 = 2 /\ 5 - 4 = 1
    OBVIOUS
  <2> QED BY ONLY <1>3, <1>6, <1>10, <2>1, <2>2
<1>12. PICK short, back : short = htons(w % one[3], B) /\ back = htons(short, B)
  OBVIOUS
<1>13. ASSUME NEW y0 \in 0 .. B - 1, NEW y1 \in 0 .. B - 1
       PROVE  htons(y1 * B + y0, B) = y0 * B + y1
  <2>1. (y1 * B + y0) \div B = y1 /\ (y1 * B + y0) % B = y0
    BY Divides
  <2>2. y1 % B = y1
    OBVIOUS
  <2>3. htons(y1 * B + y0, B) = y1 + y0 * B
    BY ONLY <2>1, <2>2 DEF htons
  <2> QED BY <2>3
<1>14. short = x0 * B + x1
  <2>1. htons(x1 * B + x0, B) = x0 * B + x1
    BY <1>13
  <2> QED BY ONLY <1>3, <1>6, <1>12, <2>1
<1>15. back = w % one[3]
  <2>1. htons(x0 * B + x1, B) = x1 * B + x0
    BY <1>13
  <2> QED BY ONLY <1>3, <1>6, <1>12, <1>14, <2>1
<1> QED BY ONLY <1>1, <1>2, <1>7, <1>11, <1>12, <1>15 DEF WordAgrees

-----------------------------------------------------------------------------
(* The functions that copy do what they are for where they are defined.    *)
LEMMA CopiesAgree ==
  ASSUME NEW c \in ByteCalls, Defined(c)
  PROVE  /\ c.fn = "memcpy" => BytesAgree(c, [m |-> memcpy(c.m, c.d, c.s, c.n), value |-> c.d])
         /\ c.fn = "memmove" => BytesAgree(c, [m |-> memmove(c.m, c.d, c.s, c.n), value |-> c.d])
         /\ c.fn = "strcpy" => BytesAgree(c, [m |-> strcpy(c.m, c.d, c.s), value |-> c.d])
         /\ c.fn = "strncpy" => BytesAgree(c, [m |-> strncpy(c.m, c.d, c.s, c.n), value |-> c.d])
<1>1. IsMemory(c.m) /\ c.d \in Nat /\ c.s \in Nat /\ c.n \in Nat
  BY CallsAssumption
<1>2. CASE c.fn = "memcpy"
  <2>1. Block(c.m, c.d, c.n) /\ Block(c.m, c.s, c.n) /\ Disjoint(c.d, c.s, c.n)
    BY <1>2 DEF Defined, Block2
  <2>2. Copied(c.m, memcpy(c.m, c.d, c.s, c.n), c.d, c.s, c.n)
    BY <1>1, <2>1, MemmoveCopies
  <2>3. ToCopy(c, [m |-> memcpy(c.m, c.d, c.s, c.n), value |-> c.d]) = c.n
    BY <1>2 DEF ToCopy
  <2> QED BY <1>2, <2>2, <2>3 DEF BytesAgree
<1>3. CASE c.fn = "memmove"
  <2>1. Block(c.m, c.d, c.n) /\ Block(c.m, c.s, c.n)
    BY <1>3 DEF Defined, Block2
  <2>2. Copied(c.m, memmove(c.m, c.d, c.s, c.n), c.d, c.s, c.n)
    BY <1>1, <2>1, MemmoveCopies
  <2>3. ToCopy(c, [m |-> memmove(c.m, c.d, c.s, c.n), value |-> c.d]) = c.n
    BY <1>3 DEF ToCopy
  <2> QED BY <1>3, <2>2, <2>3 DEF BytesAgree
<1>4. CASE c.fn = "strcpy"
  <2>1. /\ Terminated(c.m, c.s) /\ Block(c.m, c.d, strlen(c.m, c.s) + 1)
        /\ Disjoint(c.d, c.s, strlen(c.m, c.s) + 1)
    BY <1>4 DEF Defined
  <2>2. Copied(c.m, strcpy(c.m, c.d, c.s), c.d, c.s, strlen(c.m, c.s) + 1)
    BY <1>1, <2>1, StrcpyCopies
  <2>3. ToCopy(c, [m |-> strcpy(c.m, c.d, c.s), value |-> c.d]) = strlen(c.m, c.s) + 1
    BY <1>4 DEF ToCopy
  <2> QED BY <1>4, <2>2, <2>3 DEF BytesAgree
<1>5. CASE c.fn = "strncpy"
  <2>1. Block(c.m, c.d, c.n) /\ Block(c.m, c.s, c.n) /\ Disjoint(c.d, c.s, c.n)
    BY <1>5 DEF Defined, Block2
  <2>2. Copied(c.m, strncpy(c.m, c.d, c.s, c.n), c.d, c.s,
               Min({c.n} \cup {x \in 1 .. c.n : c.m[c.s + x - 1] = 0}))
    BY <1>1, <2>1, StrncpyCopies
  <2>3. ToCopy(c, [m |-> strncpy(c.m, c.d, c.s, c.n), value |-> c.d])
          = Min({c.n} \cup {x \in 1 .. c.n : c.m[c.s + x - 1] = 0})
    BY <1>5 DEF ToCopy
  <2> QED BY <1>5, <2>2, <2>3 DEF BytesAgree
<1> QED BY <1>2, <1>3, <1>4, <1>5

(* The other functions that write do what they are for. *)
LEMMA WritesAgree ==
  ASSUME NEW c \in ByteCalls, Defined(c)
  PROVE  /\ c.fn = "memset" => BytesAgree(c, [m |-> memset(c.m, c.s, c.c, c.n), value |-> c.s])
         /\ c.fn = "memccpy" =>
              LET out == memccpy(c.m, c.d, c.s, c.c, c.n)
              IN BytesAgree(c, [m |-> out.mem, value |-> out.result])
<1>1. IsMemory(c.m) /\ c.d \in Nat /\ c.s \in Nat /\ c.n \in Nat /\ c.c \in Int
  BY CallsAssumption
<1>2. CASE c.fn = "memset"
  BY <1>2 DEF BytesAgree, memset
<1>3. CASE c.fn = "memccpy"
  <2>1. Block(c.m, c.d, c.n) /\ Block(c.m, c.s, c.n) /\ Disjoint(c.d, c.s, c.n)
    BY <1>3 DEF Defined, Block2
  <2>2. PICK done : done = memccpy(c.m, c.d, c.s, c.c, c.n)
    OBVIOUS
  <2>3. /\ Copied(c.m, done.mem, c.d, c.s,
                  IF done.result /= NULL THEN done.result - c.d ELSE c.n)
        /\ c.c \in -128 .. 127 =>
             IsFirst(done.result, c.d + 1, ByteAt(c.m, c.s, c.n - 1, c.c % 256))
    <3>1. Copied(c.m, memccpy(c.m, c.d, c.s, c.c, c.n).mem, c.d, c.s,
                 IF memccpy(c.m, c.d, c.s, c.c, c.n).result /= NULL
                 THEN memccpy(c.m, c.d, c.s, c.c, c.n).result - c.d ELSE c.n)
      BY <1>1, <2>1, MemccpyFinds
    <3>2. c.c \in -128 .. 127 =>
            IsFirst(memccpy(c.m, c.d, c.s, c.c, c.n).result, c.d + 1,
                    ByteAt(c.m, c.s, c.n - 1, c.c % 256))
      <4>1. PICK d \in Nat, s \in Nat, n \in Nat, b \in Int :
              d = c.d /\ s = c.s /\ n = c.n /\ b = c.c
        BY <1>1
      <4>2. IsMemory(c.m) /\ Block(c.m, d, n) /\ Block(c.m, s, n) /\ Disjoint(d, s, n)
        BY ONLY <1>1, <2>1, <4>1
      <4>3. b \in -128 .. 127 =>
              IsFirst(memccpy(c.m, d, s, b, n).result, d + 1, ByteAt(c.m, s, n - 1, b % 256))
        BY <4>2, MemccpyFinds
      <4> QED BY ONLY <4>1, <4>3
    <3> QED BY ONLY <2>2, <3>1, <3>2
  <2>4. PICK out : out = [m |-> done.mem, value |-> done.result]
    OBVIOUS
  <2>5. out.m = done.mem /\ out.value = done.result
    BY <2>4
  <2>6. ToCopy(c, out) = IF done.result /= NULL THEN done.result - c.d ELSE c.n
    BY ONLY <1>3, <2>5 DEF ToCopy
  <2>7. BytesAgree(c, out)
    BY ONLY <1>3, <2>3, <2>5, <2>6 DEF BytesAgree, ByteAt
  <2> QED BY ONLY <1>3, <2>2, <2>4, <2>7
<1> QED BY <1>2, <1>3

(* What is read agrees, in a memory that stays as it was. *)
LEMMA ComparisonsAgree ==
  ASSUME NEW c \in ByteCalls, Defined(c)
  PROVE  /\ c.fn = "memcmp" => BytesAgree(c, [m |-> c.m, value |-> memcmp(c.m, c.d, c.s, c.n)])
         /\ c.fn = "strcmp" => BytesAgree(c, [m |-> c.m, value |-> strcmp(c.m, c.d, c.s)])
         /\ c.fn = "strncmp" => BytesAgree(c, [m |-> c.m, value |-> strncmp(c.m, c.d, c.s, c.n)])
<1>1. IsMemory(c.m) /\ c.d \in Nat /\ c.s \in Nat /\ c.n \in Nat
  BY CallsAssumption
<1>2. CASE c.fn = "memcmp"
  <2>1. Block(c.m, c.d, c.n) /\ Block(c.m, c.s, c.n)
    BY <1>2 DEF Defined, Block2
  <2>2. UnsignedOrders(memcmp(c.m, c.d, c.s, c.n), Bytes(c.m, c.d, c.n), Bytes(c.m, c.s, c.n))
    BY ONLY <1>1, <2>1, MemcmpOrders
  <2> QED BY ONLY <1>2, <2>2 DEF BytesAgree, UnsignedOrders, Bytes
<1>3. CASE c.fn \in {"strcmp", "strncmp"}
  <2>1. Terminated(c.m, c.d) /\ Terminated(c.m, c.s)
    BY <1>3 DEF Defined
  <2>2. /\ SignedOrders(strcmp(c.m, c.d, c.s), Text(c.m, c.d), Text(c.m, c.s))
        /\ UnsignedOrders(strncmp(c.m, c.d, c.s, c.n),
                          AtMost(Text(c.m, c.d), c.n), AtMost(Text(c.m, c.s), c.n))
    BY ONLY <1>1, <2>1, StrcmpOrders
  <2>3. CASE c.fn = "strcmp"
    BY ONLY <2>2, <2>3 DEF BytesAgree, SignedOrders
  <2>4. CASE c.fn = "strncmp"
    BY ONLY <2>2, <2>4 DEF BytesAgree, UnsignedOrders
  <2> QED BY <1>3, <2>3, <2>4
<1> QED BY <1>2, <1>3

(* The searches agree. *)
LEMMA SearchesAgree ==
  ASSUME NEW c \in ByteCalls, Defined(c)
  PROVE  /\ c.fn = "strstr" => BytesAgree(c, [m |-> c.m, value |-> strstr(c.m, c.d, c.s)])
         /\ c.fn = "memchr" => BytesAgree(c, [m |-> c.m, value |-> memchr(c.m, c.s, c.c, c.n)])
         /\ c.fn = "strchr" => BytesAgree(c, [m |-> c.m, value |-> strchr(c.m, c.s, c.c)])
         /\ c.fn = "strrchr" => BytesAgree(c, [m |-> c.m, value |-> strrchr(c.m, c.s, c.c)])
         /\ c.fn = "strlen" => BytesAgree(c, [m |-> c.m, value |-> strlen(c.m, c.s)])
<1>1. IsMemory(c.m) /\ c.d \in Nat /\ c.s \in Nat /\ c.n \in Nat /\ c.c \in Int
  BY CallsAssumption
<1>2. CASE c.fn = "strstr"
  <2>1. Terminated(c.m, c.d) /\ Terminated(c.m, c.s)
    BY <1>2 DEF Defined
  <2>2. IsFirst(strstr(c.m, c.d, c.s), c.d, Occurrences(Text(c.m, c.d), Text(c.m, c.s)))
    BY ONLY <1>1, <2>1, StrstrFinds
  <2> QED BY ONLY <1>2, <2>2 DEF BytesAgree
<1>3. CASE c.fn = "memchr"
  <2>1. PICK places : places = {x \in 0 .. c.n - 1 : c.m[c.s + x] = c.c}
    OBVIOUS
  <2>2. places \in SUBSET Nat
    BY <2>1
  <2>3. IsFirst(FirstAt(c.s, places), c.s, places)
    BY ONLY <1>1, <2>2, FirstAtIs
  <2>4. memchr(c.m, c.s, c.c, c.n) = FirstAt(c.s, places)
    BY ONLY <2>1 DEF memchr
  <2>5. IsFirst(memchr(c.m, c.s, c.c, c.n), c.s, {x \in 0 .. c.n - 1 : c.m[c.s + x] = c.c})
    BY ONLY <2>1, <2>3, <2>4
  <2> QED BY ONLY <1>3, <2>5 DEF BytesAgree
<1>4. CASE c.fn \in {"strchr", "strrchr"}
  <2>1. Terminated(c.m, c.s)
    BY <1>4 DEF Defined
  <2>2. /\ IsFirst(strchr(c.m, c.s, c.c), c.s,
                   Occurrences(WithZero(Text(c.m, c.s)), <<c.c % 256>>))
        /\ IsLast(strrchr(c.m, c.s, c.c), c.s,
                  Occurrences(WithZero(Text(c.m, c.s)), <<c.c % 256>>))
    BY ONLY <1>1, <2>1, StrchrFinds
  <2>3. CASE c.fn = "strchr"
    BY ONLY <2>2, <2>3 DEF BytesAgree, WithZero
  <2>4. CASE c.fn = "strrchr"
    BY ONLY <2>2, <2>4 DEF BytesAgree, WithZero
  <2> QED BY <1>4, <2>3, <2>4
<1>5. CASE c.fn = "strlen"
  <2>1. CASE c.s = NULL
    <3>1. strlen(c.m, c.s) = 0
      BY <2>1 DEF strlen
    <3> QED BY ONLY <1>5, <2>1, <3>1 DEF BytesAgree
  <2>2. CASE c.s # NULL
    <3>1. Terminated(c.m, c.s)
      BY <1>5, <2>2 DEF Defined
    <3>2. Len(Text(c.m, c.s)) = strlen(c.m, c.s)
      BY <1>1, <3>1, StringIs, TextIs
    <3> QED BY ONLY <1>5, <2>2, <3>2 DEF BytesAgree
  <2> QED BY <2>1, <2>2
<1> QED BY <1>2, <1>3, <1>4, <1>5

(* All the functions on bytes. *)
LEMMA BytesHandled ==
  ASSUME HandlesBytes, call.arg \in ByteCalls, Defined(call.arg)
  PROVE  BytesAgree(call.arg, result'[1])
<1>1. PICK c \in ByteCalls : c = call.arg /\ Defined(c)
  OBVIOUS
<1>2. ASSUME NEW m, NEW value, Writes(m, value) PROVE result'[1] = [m |-> m, value |-> value]
  BY <1>2 DEF Writes, Returns
<1> SUFFICES BytesAgree(c, result'[1])
  BY <1>1
<1>3. CASE c.fn = "memcpy" /\ Writes(memcpy(c.m, c.d, c.s, c.n), c.d)
  <2>1. result'[1] = [m |-> memcpy(c.m, c.d, c.s, c.n), value |-> c.d]
    BY ONLY <1>3, <1>2
  <2>2. BytesAgree(c, [m |-> memcpy(c.m, c.d, c.s, c.n), value |-> c.d])
    BY <1>1, <1>3, CopiesAgree
  <2> QED BY ONLY <2>1, <2>2
<1>4. CASE c.fn = "memmove" /\ Writes(memmove(c.m, c.d, c.s, c.n), c.d)
  <2>1. result'[1] = [m |-> memmove(c.m, c.d, c.s, c.n), value |-> c.d]
    BY ONLY <1>4, <1>2
  <2>2. BytesAgree(c, [m |-> memmove(c.m, c.d, c.s, c.n), value |-> c.d])
    BY <1>1, <1>4, CopiesAgree
  <2> QED BY ONLY <2>1, <2>2
<1>5. CASE c.fn = "strcpy" /\ Writes(strcpy(c.m, c.d, c.s), c.d)
  <2>1. result'[1] = [m |-> strcpy(c.m, c.d, c.s), value |-> c.d]
    BY ONLY <1>5, <1>2
  <2>2. BytesAgree(c, [m |-> strcpy(c.m, c.d, c.s), value |-> c.d])
    BY <1>1, <1>5, CopiesAgree
  <2> QED BY ONLY <2>1, <2>2
<1>6. CASE c.fn = "strncpy" /\ Writes(strncpy(c.m, c.d, c.s, c.n), c.d)
  <2>1. result'[1] = [m |-> strncpy(c.m, c.d, c.s, c.n), value |-> c.d]
    BY ONLY <1>6, <1>2
  <2>2. BytesAgree(c, [m |-> strncpy(c.m, c.d, c.s, c.n), value |-> c.d])
    BY <1>1, <1>6, CopiesAgree
  <2> QED BY ONLY <2>1, <2>2
<1>7. CASE c.fn = "memset" /\ Writes(memset(c.m, c.s, c.c, c.n), c.s)
  <2>1. result'[1] = [m |-> memset(c.m, c.s, c.c, c.n), value |-> c.s]
    BY ONLY <1>7, <1>2
  <2>2. BytesAgree(c, [m |-> memset(c.m, c.s, c.c, c.n), value |-> c.s])
    BY <1>1, <1>7, WritesAgree
  <2> QED BY ONLY <2>1, <2>2
<1>8. CASE c.fn = "memccpy" /\ Writes(memccpy(c.m, c.d, c.s, c.c, c.n).mem,
                                     memccpy(c.m, c.d, c.s, c.c, c.n).result)
  <2>1. result'[1] = [m |-> memccpy(c.m, c.d, c.s, c.c, c.n).mem,
                                                value |-> memccpy(c.m, c.d, c.s, c.c, c.n).result]
    BY ONLY <1>8, <1>2
  <2>2. BytesAgree(c, [m |-> memccpy(c.m, c.d, c.s, c.c, c.n).mem,
                                                value |-> memccpy(c.m, c.d, c.s, c.c, c.n).result])
    BY <1>1, <1>8, WritesAgree
  <2> QED BY ONLY <2>1, <2>2
<1>9. CASE c.fn = "memcmp" /\ Writes(c.m, memcmp(c.m, c.d, c.s, c.n))
  <2>1. result'[1] = [m |-> c.m, value |-> memcmp(c.m, c.d, c.s, c.n)]
    BY ONLY <1>9, <1>2
  <2>2. BytesAgree(c, [m |-> c.m, value |-> memcmp(c.m, c.d, c.s, c.n)])
    BY <1>1, <1>9, ComparisonsAgree
  <2> QED BY ONLY <2>1, <2>2
<1>10. CASE c.fn = "strcmp" /\ Writes(c.m, strcmp(c.m, c.d, c.s))
  <2>1. result'[1] = [m |-> c.m, value |-> strcmp(c.m, c.d, c.s)]
    BY ONLY <1>10, <1>2
  <2>2. BytesAgree(c, [m |-> c.m, value |-> strcmp(c.m, c.d, c.s)])
    BY <1>1, <1>10, ComparisonsAgree
  <2> QED BY ONLY <2>1, <2>2
<1>11. CASE c.fn = "strncmp" /\ Writes(c.m, strncmp(c.m, c.d, c.s, c.n))
  <2>1. result'[1] = [m |-> c.m, value |-> strncmp(c.m, c.d, c.s, c.n)]
    BY ONLY <1>11, <1>2
  <2>2. BytesAgree(c, [m |-> c.m, value |-> strncmp(c.m, c.d, c.s, c.n)])
    BY <1>1, <1>11, ComparisonsAgree
  <2> QED BY ONLY <2>1, <2>2
<1>12. CASE c.fn = "strstr" /\ Writes(c.m, strstr(c.m, c.d, c.s))
  <2>1. result'[1] = [m |-> c.m, value |-> strstr(c.m, c.d, c.s)]
    BY ONLY <1>12, <1>2
  <2>2. BytesAgree(c, [m |-> c.m, value |-> strstr(c.m, c.d, c.s)])
    BY <1>1, <1>12, SearchesAgree
  <2> QED BY ONLY <2>1, <2>2
<1>13. CASE c.fn = "memchr" /\ Writes(c.m, memchr(c.m, c.s, c.c, c.n))
  <2>1. result'[1] = [m |-> c.m, value |-> memchr(c.m, c.s, c.c, c.n)]
    BY ONLY <1>13, <1>2
  <2>2. BytesAgree(c, [m |-> c.m, value |-> memchr(c.m, c.s, c.c, c.n)])
    BY <1>1, <1>13, SearchesAgree
  <2> QED BY ONLY <2>1, <2>2
<1>14. CASE c.fn = "strchr" /\ Writes(c.m, strchr(c.m, c.s, c.c))
  <2>1. result'[1] = [m |-> c.m, value |-> strchr(c.m, c.s, c.c)]
    BY ONLY <1>14, <1>2
  <2>2. BytesAgree(c, [m |-> c.m, value |-> strchr(c.m, c.s, c.c)])
    BY <1>1, <1>14, SearchesAgree
  <2> QED BY ONLY <2>1, <2>2
<1>15. CASE c.fn = "strrchr" /\ Writes(c.m, strrchr(c.m, c.s, c.c))
  <2>1. result'[1] = [m |-> c.m, value |-> strrchr(c.m, c.s, c.c)]
    BY ONLY <1>15, <1>2
  <2>2. BytesAgree(c, [m |-> c.m, value |-> strrchr(c.m, c.s, c.c)])
    BY <1>1, <1>15, SearchesAgree
  <2> QED BY ONLY <2>1, <2>2
<1>16. CASE c.fn = "strlen" /\ Writes(c.m, strlen(c.m, c.s))
  <2>1. result'[1] = [m |-> c.m, value |-> strlen(c.m, c.s)]
    BY ONLY <1>16, <1>2
  <2>2. BytesAgree(c, [m |-> c.m, value |-> strlen(c.m, c.s)])
    BY <1>1, <1>16, SearchesAgree
  <2> QED BY ONLY <2>1, <2>2
<1> QED BY <1>1, <1>3, <1>4, <1>5, <1>6, <1>7, <1>8, <1>9, <1>10,
          <1>11, <1>12, <1>13, <1>14, <1>15, <1>16 DEF HandlesBytes

-----------------------------------------------------------------------------
(* What the code's directives give where there is no bound: formats inside *)
(* formats in full, and the weeks of %U and %W counted.                     *)
Pieces(f, tm) ==
  [n \in 1 .. Len(f) |->
     IF f[n] = "%" THEN << >>
     ELSE IF n > 1 /\ f[n - 1] = "%" THEN Simple(f[n], tm) ELSE <<f[n]>>]
Meaning(c, tm) ==
  CASE c = "U" -> i2a(Cardinality(DaysUpTo(tm, 0)))
    [] c = "W" -> i2a(Cardinality(DaysUpTo(tm, 1)))
    [] c \in DOMAIN Composite -> Sequences_!FlattenSeq(Pieces(Composite[c], tm))
    [] OTHER -> Simple(c, tm)
ItemMeaning(item, tm) ==
  IF Len(item) = 1 THEN item
  ELSE IF item = <<"%", "%">> THEN <<"%">> ELSE Meaning(item[Len(item)], tm)

(* The characters of a result. *)
Letters(c) == UNION {{c.items[x][y] : y \in 1 .. Len(c.items[x])} : x \in 1 .. Len(c.items)}
Marks == {"%", "\n", "\t", SPACE, ":", "/", "-", NUL,
   "b", "a", "d", "k", "M", "S", "Z", "Y", "I", "p", "H", "m", "y"}
Spelled == UNION {Letters(c) : c \in TimeCalls}
Literals == Spelled \cup Marks
Tables == {"sweekdays", "weekdays", "smonths", "months", "AMPM", "ampm", timezone}
Glyphs == Literals \cup ({"digit"} \X Int) \cup (Tables \X (Int \cup BOOLEAN) \X Nat)

(* Punctuation and the letters of formats are characters. *)
LEMMA MarkIs == \A y \in {"%", "\n", "\t", SPACE, ":", "/", "-", NUL,
   "b", "a", "d", "k", "M", "S", "Z", "Y", "I", "p", "H", "m", "y"} : y \in Glyphs
<1>1. Marks \subseteq Glyphs
  BY ONLY TRUE DEF Glyphs, Literals
<1> QED BY <1>1 DEF Marks

(* A digit is a character. *)
LEMMA DigitIs == \A y \in Int : <<"digit", y>> \in Glyphs
<1>1. \A y \in Int : <<"digit", y>> \in {"digit"} \X Int
  OBVIOUS
<1> QED BY ONLY <1>1 DEF Glyphs

(* A name is a text. *)
LEMMA NameIs ==
  ASSUME NEW t \in Tables, NEW e \in Int \cup BOOLEAN, NEW n \in Nat
  PROVE  Name(t, e, n) \in Seq(Glyphs)
<1>1. \A x \in 1 .. n : <<t, e, x>> \in Glyphs
  BY DEF Glyphs
<1> QED BY <1>1 DEF Name

(* A number is a text. *)
LEMMA NumberIs ==
  ASSUME NEW x \in Int
  PROVE  i2a(x) \in Seq(Glyphs) /\ i2a_blank(x) \in Seq(Glyphs)
<1>1. <<"digit", x \div 10>> \in Glyphs /\ <<"digit", x % 10>> \in Glyphs /\ SPACE \in Glyphs
  <2>1. x \div 10 \in Int /\ x % 10 \in Int
    OBVIOUS
  <2>2. \A y \in Int : <<"digit", y>> \in Glyphs
    BY DigitIs
  <2>3. SPACE \in Glyphs
    BY MarkIs
  <2> QED BY <2>1, <2>2, <2>3
<1>2. PICK u, v \in Glyphs : u = <<"digit", x \div 10>> /\ v = <<"digit", x % 10>>
  BY <1>1
<1>3. i2a(x) = <<u, v>> /\ i2a_blank(x) \in {<<u, v>>, <<SPACE, v>>}
  BY <1>2 DEF i2a, i2a_blank
<1>4. \A z \in Glyphs : <<z, v>> \in Seq(Glyphs)
  OBVIOUS
<1> QED BY <1>1, <1>2, <1>3, <1>4

(* The parts of a date. *)
LEMMA DateIs ==
  ASSUME NEW tm, IsTime(tm)
  PROVE  /\ tm.yday \in 0 .. 365 /\ tm.wday \in 0 .. 6 /\ tm.mon \in 0 .. 11
         /\ tm.mday \in 0 .. 99 /\ tm.hour \in 0 .. 23 /\ tm.min \in 0 .. 99 /\ tm.sec \in 0 .. 99
         /\ tm.year \in 0 .. 8099
BY DEF IsTime

(* Every directive stands for characters. *)
LEMMA SimpleIs ==
  ASSUME NEW tm, IsTime(tm), NEW c
  PROVE  Simple(c, tm) \in Seq(Glyphs)
<1>1. "\n" \in Glyphs /\ "\t" \in Glyphs /\ <<"digit", 0>> \in Glyphs
  <2>1. \A y \in Int : <<"digit", y>> \in Glyphs
    BY DigitIs
  <2>2. "\n" \in Glyphs /\ "\t" \in Glyphs
    BY MarkIs
  <2> QED BY <2>1, <2>2
<1>2. <<"\n">> \in Seq(Glyphs) /\ <<"\t">> \in Seq(Glyphs) /\ << >> \in Seq(Glyphs)
      /\ Seconds \in Seq(Glyphs)
  BY <1>1 DEF Seconds
<1>3. PICK T : T = Seq(Glyphs)
  OBVIOUS
<1>4. PICK wd \in 0 .. 6, mo \in 0 .. 11, yd \in Nat, md \in Int :
        wd = tm.wday /\ mo = tm.mon /\ yd = tm.yday /\ md = tm.mday
  <2>1. tm.wday \in 0 .. 6 /\ tm.mon \in 0 .. 11
    BY DateIs
  <2>2. tm.yday \in Nat /\ tm.mday \in Int
    <3>1. tm.yday \in 0 .. 365 /\ tm.mday \in 0 .. 99
      BY DateIs
    <3> QED BY ONLY <3>1
  <2> QED BY ONLY <2>1, <2>2
<1>11. PICK ye \in Int, ho \in Int : ye = tm.year /\ ho = tm.hour
  <2>1. PICK y \in 0 .. 8099 : y = tm.year
    BY DateIs
  <2>2. PICK h \in 0 .. 23 : h = tm.hour
    BY DateIs
  <2>3. y \in Int /\ h \in Int
    OBVIOUS
  <2> QED BY ONLY <2>1, <2>2, <2>3
<1>12. PICK mi \in Int, se \in Int : mi = tm.min /\ se = tm.sec
  <2>1. tm.min \in 0 .. 99 /\ tm.sec \in 0 .. 99
    BY DateIs
  <2> QED BY ONLY <2>1
<1>5. /\ Name("sweekdays", wd, sweekdays[wd]) \in T
      /\ Name("smonths", mo, smonths[mo]) \in T
      /\ Name("AMPM", ho > 12, 2) \in T
      /\ Name("ampm", ho > 12, 2) \in T
      /\ Name(timezone, 0, 18) \in T
  <2>1. sweekdays[wd] \in Nat /\ smonths[mo] \in Nat
    BY DEF sweekdays, smonths
  <2>2. (ho > 12) \in Int \cup BOOLEAN /\ wd \in Int \cup BOOLEAN /\ mo \in Int \cup BOOLEAN
        /\ 0 \in Int \cup BOOLEAN
    OBVIOUS
  <2>3. timezone \in Tables
    BY DEF Tables
  <2> QED BY ONLY <1>3, <2>1, <2>2, <2>3, 2 \in Nat, 18 \in Nat, NameIs DEF Tables
<1>6. /\ Name("weekdays", wd, weekdays[wd + 1]) \in T
      /\ Name("months", mo, months[mo + 1]) \in T
  <2>1. weekdays[wd + 1] \in Nat
    <3>1. wd \in {0, 1, 2, 3, 4, 5, 6}
      OBVIOUS
    <3> QED BY <3>1 DEF weekdays
  <2>2. months[mo + 1] \in Nat
    <3>1. mo \in {0, 1, 2, 3, 4, 5, 6, 7, 8, 9, 10, 11}
      OBVIOUS
    <3> QED BY <3>1 DEF months
  <2>3. wd \in Int \cup BOOLEAN /\ mo \in Int \cup BOOLEAN
    OBVIOUS
  <2> QED BY ONLY <1>3, <2>1, <2>2, <2>3, NameIs DEF Tables
<1>7. \A x \in Int : i2a(x) \in T /\ i2a_blank(x) \in T
  BY <1>3, NumberIs
<1>8. /\ i2a((ye \div 100) + 19) \in T /\ i2a(md) \in T /\ i2a_blank(md) \in T
      /\ i2a(ho) \in T /\ i2a(ho % 12) \in T /\ i2a(yd) \in T /\ i2a_blank(ho) \in T
      /\ i2a_blank(ho % 12) \in T /\ i2a(mo + 1) \in T /\ i2a(mi) \in T /\ i2a(se) \in T
      /\ i2a(IF wd = 0 THEN 7 ELSE wd) \in T /\ i2a(wd) \in T
      /\ i2a((yd - wd + 7) \div 7) \in T /\ i2a((yd - ((wd + 6) % 7) + 7) \div 7) \in T
      /\ i2a(ye % 100) \in T
  <2>1. /\ (ye \div 100) + 19 \in Int /\ ho % 12 \in Int /\ mo + 1 \in Int
        /\ (IF wd = 0 THEN 7 ELSE wd) \in Int /\ wd \in Int /\ yd \in Int
        /\ (yd - wd + 7) \div 7 \in Int /\ (yd - ((wd + 6) % 7) + 7) \div 7 \in Int
        /\ ye % 100 \in Int
    OBVIOUS
  <2>2. md \in Int /\ ho \in Int /\ mi \in Int /\ se \in Int
    OBVIOUS
  <2> QED BY ONLY <1>7, <2>1, <2>2
<1>9. i2a((ye \div 100) + 19) \o i2a(ye % 100) \in T
  BY <1>3, <1>8, ConcatProperties
<1>10. Simple(c, tm) \in T
  BY ONLY <1>2, <1>3, <1>4, <1>5, <1>6, <1>8, <1>9, <1>11, <1>12
     DEF Simple, WeekOfSundays, WeekOfMondays
<1> QED BY ONLY <1>3, <1>10

(* FlattenSeq is one text behind the other. *)
IsJoin(g, G, seqs, n) ==
  /\ g \in [0 .. n -> Seq(G)] /\ g[0] = << >>
  /\ \A x \in 1 .. n : g[x] = g[x - 1] \o seqs[x]

(* FlattenSeq computes it. *)
LEMMA FlattenIs ==
  ASSUME NEW G, NEW seqs \in Seq(Seq(G)), NEW n, n = Len(seqs)
  PROVE  \E g : IsJoin(g, G, seqs, n) /\ Sequences_!FlattenSeq(seqs) = g[n]
<1>1. n \in Nat /\ \A x \in 1 .. n : seqs[x] \in Seq(G)
  BY LenProperties
<1>2. PICK F : F = [z \in Seq(G) \X (1 .. n) |-> z[1] \o seqs[z[2]]]
  OBVIOUS
<1>3. F \in [Seq(G) \X (1 .. n) -> Seq(G)] /\ \A t \in Seq(G), x \in 1 .. n : F[<<t, x>>] = t \o seqs[x]
  <2>1. \A t \in Seq(G), x \in 1 .. n : t \o seqs[x] \in Seq(G)
    BY <1>1, ConcatProperties
  <2> QED BY ONLY <1>2, <2>1
<1>4. PICK g : IsRun(g, Seq(G), n, << >>, F)
  <2>1. << >> \in Seq(G)
    OBVIOUS
  <2> QED BY <1>1, <1>3, <2>1, RunExists
<1>5. IsJoin(g, G, seqs, n)
  <2>1. \A x \in 1 .. n : x - 1 \in 0 .. n
    BY <1>1
  <2> QED BY ONLY <1>3, <1>4, <2>1 DEF IsRun, IsJoin
<1>6. CASE n = 0
  <2>1. seqs = << >>
    BY <1>6, EmptySeq
  <2> QED BY <1>5, <1>6, <2>1 DEF IsJoin, Sequences_!FlattenSeq
<1>7. CASE n # 0
  <2> DEFINE Step(h) == [x \in 1 .. n |-> IF x = 1 THEN seqs[x] ELSE h[x - 1] \o seqs[x]]
             flatten == CHOOSE h : h = Step(h)
             J == [x \in 1 .. n |-> g[x]]
  <2>1. Sequences_!FlattenSeq(seqs) = flatten[n]
    BY <1>7 DEF Sequences_!FlattenSeq
  <2>2. \A x \in 1 .. n : x # 1 => x - 1 \in 1 .. n
    BY <1>1
  <2>3. 1 \in 1 .. n => g[1] = seqs[1]
    <3> SUFFICES ASSUME 1 \in 1 .. n PROVE g[1] = seqs[1]
      OBVIOUS
    <3>1. g[1] = g[0] \o seqs[1] /\ g[0] = << >>
      <4>1. 1 - 1 = 0
        OBVIOUS
      <4> QED BY <1>5, <4>1 DEF IsJoin
    <3> QED BY <1>1, <3>1, ConcatEmptySeq
  <2>4. J = Step(J)
    BY ONLY <1>5, <2>2, <2>3 DEF IsJoin
  <2>5. flatten = Step(flatten)
    BY <2>4
  <2>6. PICK h : h = [x \in 0 .. n |-> IF x = 0 THEN << >> ELSE flatten[x]]
    OBVIOUS
  <2> HIDE DEF flatten
  <2>7. \A x \in 1 .. n : flatten[x] = IF x = 1 THEN seqs[x] ELSE flatten[x - 1] \o seqs[x]
    BY <2>5
  <2>8. h[0] = << >> /\ \A x \in 1 .. n : h[x] = h[x - 1] \o seqs[x]
    <3>1. h[0] = << >> /\ \A x \in 1 .. n : h[x] = flatten[x] /\ x # 0 /\ x - 1 \in 0 .. n
      BY <1>1, <2>6
    <3>2. ASSUME NEW x \in 1 .. n PROVE h[x] = h[x - 1] \o seqs[x]
      <4>1. CASE x = 1
        <5>1. h[x] = seqs[x] /\ h[x - 1] = << >>
          BY <2>7, <3>1, <4>1
        <5> QED BY <1>1, <5>1, ConcatEmptySeq
      <4>2. CASE x # 1
        BY ONLY <2>2, <2>7, <3>1, <4>2, x \in 1 .. n
      <4> QED BY <4>1, <4>2
    <3> QED BY <3>1, <3>2
  <2>9. \A x \in 0 .. n : h[x] = g[x]
    <3>1. g[0] = h[0] /\ \A x \in 1 .. n : h[x - 1] = g[x - 1] => h[x] = g[x]
      BY ONLY <1>5, <2>8 DEF IsJoin
    <3> QED BY ONLY <1>1, <3>1, SameRun
  <2>10. n \in 0 .. n /\ h[n] = flatten[n]
    BY <1>1, <1>7, <2>6
  <2> QED BY <1>5, <2>1, <2>9, <2>10
<1> QED BY <1>6, <1>7

States == [text : Seq(Glyphs), mode : {"text", "percent", "modified"}, full : BOOLEAN]
NoText == [text |-> << >>, mode |-> "text", full |-> FALSE]

(* What was read of a format, n characters of it. *)
InnerRun(g, format, max, tm) ==
  /\ g \in [0 .. Len(format) -> States] /\ g[0] = NoText
  /\ \A x \in 1 .. Len(format) :
       g[x] = Read(g[x - 1], format[x], max, Put(g[x - 1].text, max, Simple(format[x], tm)))
OuterRun(g, format, max, tm) ==
  /\ g \in [0 .. Len(format) -> States] /\ g[0] = NoText
  /\ \A x \in 1 .. Len(format) :
       g[x] = Read(g[x - 1], format[x], max, Substituted(g[x - 1].text, max, format[x], tm))
InnerText(format, max, tm) ==
  LET Directive(text, c) == Put(text, max, Simple(c, tm)) IN Expand(format, max, Directive)
OuterText(format, max, tm) ==
  LET Directive(text, c) == Substituted(text, max, c, tm) IN Expand(format, max, Directive)

(* The parts of what was read. *)
LEMMA StateIs ==
  ASSUME NEW s \in States
  PROVE  s.text \in Seq(Glyphs) /\ s.mode \in {"text", "percent", "modified"} /\ s.full \in BOOLEAN
BY DEF States

(* Reading a character gives such a state again. *)
LEMMA ReadTyped ==
  ASSUME NEW s \in States, NEW c \in Glyphs, NEW max \in Nat, NEW d \in Seq(Glyphs)
  PROVE  Read(s, c, max, d) \in States
<1>1. PICK text \in Seq(Glyphs), mode \in {"text", "percent", "modified"}, full \in BOOLEAN :
        s = [text |-> text, mode |-> mode, full |-> full]
  BY DEF States
<1>2. Append(text, c) \in Seq(Glyphs) /\ Len(Append(text, c)) \in Nat /\ Len(d) \in Nat
  OBVIOUS
<1>3. \A t \in Seq(Glyphs) : Len(t) \in Nat => (Len(t) >= max) \in BOOLEAN
  OBVIOUS
<1> QED BY <1>1, <1>2, <1>3 DEF Read, States

(* So is the state to begin with. *)
LEMMA NoTextTyped == NoText \in States
<1>1. << >> \in Seq(Glyphs)
  OBVIOUS
<1> QED BY <1>1 DEF NoText, States

(* What is put behind a text is a text. *)
LEMMA PutTyped ==
  ASSUME NEW text \in Seq(Glyphs), NEW max \in Nat, NEW piece \in Seq(Glyphs)
  PROVE  Put(text, max, piece) \in Seq(Glyphs)
<1>1. PICK room \in Int : room = max - Len(text)
  BY LenProperties
<1>2. PICK n \in Int : n = (IF Len(piece) < room THEN Len(piece) ELSE room) /\ n <= Len(piece)
  <2>1. Len(piece) \in Int
    BY LenProperties
  <2> QED BY <2>1
<1>3. SubSeq(piece, 1, n) \in Seq(Glyphs)
  <2>1. \A x \in 1 .. n : piece[x] \in Glyphs
    BY <1>2, LenProperties
  <2> QED BY <2>1, SubSeqProperties
<1>4. Put(text, max, piece) = text \o SubSeq(piece, 1, n)
  BY ONLY <1>1, <1>2 DEF Put
<1> QED BY <1>3, <1>4, ConcatProperties

(* A format inside a format is read character by character. *)
LEMMA InnerRunExists ==
  ASSUME NEW format \in Seq(Glyphs), NEW max \in Nat, NEW tm, IsTime(tm)
  PROVE  \E g : /\ InnerRun(g, format, max, tm)
                /\ InnerText(format, max, tm) = g[Len(format)].text
<1>1. PICK n \in Nat : n = Len(format) /\ \A x \in 1 .. n : format[x] \in Glyphs
  OBVIOUS
<1> DEFINE Next_(s, x) == Read(s, format[x], max, Put(s.text, max, Simple(format[x], tm)))
           Step(h) == [x \in 0 .. n |-> IF x = 0 THEN NoText ELSE Next_(h[x - 1], x)]
           state == CHOOSE h : h = Step(h)
<1>2. PICK F : F = [z \in States \X (1 .. n) |-> Next_(z[1], z[2])]
  OBVIOUS
<1>3. \A s \in States, x \in 1 .. n : Next_(s, x) \in States
  <2> TAKE s \in States, x \in 1 .. n
  <2>1. s.text \in Seq(Glyphs) /\ format[x] \in Glyphs
    BY <1>1, StateIs
  <2>2. Simple(format[x], tm) \in Seq(Glyphs)
    BY SimpleIs
  <2>3. Put(s.text, max, Simple(format[x], tm)) \in Seq(Glyphs)
    BY <2>1, <2>2, PutTyped
  <2> QED BY <2>1, <2>3, ReadTyped
<1>4. \A s \in States, x \in 1 .. n : F[<<s, x>>] = Next_(s, x)
  BY ONLY <1>2
<1>5. InnerText(format, max, tm) = state[n].text
  BY ONLY <1>1 DEF InnerText, Expand, NoText
<1> HIDE DEF Next_
<1>6. F \in [States \X (1 .. n) -> States]
  BY ONLY <1>2, <1>3
<1>7. PICK g : IsRun(g, States, n, NoText, F)
  BY <1>6, NoTextTyped, RunExists
<1>8. \A x \in 1 .. n : x # 0 /\ x - 1 \in 0 .. n
  OBVIOUS
<1>9. g[0] = NoText /\ \A x \in 1 .. n : g[x] = Next_(g[x - 1], x)
  BY ONLY <1>4, <1>7, <1>8 DEF IsRun
<1>10. g = Step(g)
  <2>1. \A x \in 0 .. n : x = 0 \/ x \in 1 .. n
    OBVIOUS
  <2> QED BY ONLY <1>7, <1>9, <2>1 DEF IsRun
<1>11. state = Step(state)
  BY ONLY <1>10
<1> HIDE DEF state
<1>12. state[0] = NoText /\ \A x \in 1 .. n : state[x] = Next_(state[x - 1], x)
  <2>1. \A x \in 0 .. n : state[x] = IF x = 0 THEN NoText ELSE Next_(state[x - 1], x)
    BY ONLY <1>11
  <2>2. 0 \in 0 .. n /\ \A x \in 1 .. n : x \in 0 .. n
    OBVIOUS
  <2> QED BY ONLY <1>8, <2>1, <2>2
<1>13. \A x \in 0 .. n : state[x] = g[x]
  <2>1. state[0] = g[0] /\ \A x \in 1 .. n : state[x - 1] = g[x - 1] => state[x] = g[x]
    BY ONLY <1>9, <1>12
  <2> QED BY ONLY <2>1, n \in Nat, SameRun
<1>14. InnerRun(g, format, max, tm)
  BY ONLY <1>1, <1>7, <1>9 DEF InnerRun, IsRun, Next_
<1>15. n \in 0 .. n
  OBVIOUS
<1> QED BY ONLY <1>1, <1>5, <1>13, <1>14, <1>15

(* out is text with the beginning of w behind it, as much as there is room  *)
(* for; the last character of a buffer that is full is overwritten later.   *)
IsPut(text, w, out, max) ==
  /\ out \in Seq(Glyphs)
  /\ IF Len(text) + Len(w) < max THEN out = text \o w
     ELSE Len(out) = max /\ \A x \in 1 .. max - 1 : out[x] = (text \o w)[x]

(* What was read so far is the beginning of m. *)
Tracks(s, m, max) ==
  /\ s.full <=> Len(m) >= max
  /\ IF s.full THEN Len(s.text) = max /\ \A x \in 1 .. max - 1 : s.text[x] = m[x]
     ELSE s.text = m

(* Put does that. *)
LEMMA PutIs ==
  ASSUME NEW text \in Seq(Glyphs), NEW w \in Seq(Glyphs), NEW max \in Nat, Len(text) < max
  PROVE  IsPut(text, w, Put(text, max, w), max)
<1>1. PICK lt \in Nat, lp \in Nat : lt = Len(text) /\ lp = Len(w)
  BY LenProperties
<1>2. PICK room \in Nat : room = max - lt
  BY <1>1
<1>3. PICK n \in 0 .. lp : n = (IF lp < room THEN lp ELSE room)
  OBVIOUS
<1>4. PICK b : b = SubSeq(w, 1, n)
  OBVIOUS
<1>5. b \in Seq(Glyphs) /\ Len(b) = n /\ \A x \in 1 .. n : b[x] = w[x]
  <2>1. \A x \in 1 .. n : w[x] \in Glyphs
    BY <1>1, LenProperties
  <2> QED BY <1>4, <2>1, SubSeqProperties
<1>6. Put(text, max, w) = text \o b
  BY ONLY <1>1, <1>2, <1>3, <1>4 DEF Put
<1>7. /\ text \o b \in Seq(Glyphs) /\ Len(text \o b) = lt + n
      /\ \A x \in 1 .. lt + n : (text \o b)[x] = IF x <= lt THEN text[x] ELSE b[x - lt]
  BY <1>1, <1>5, ConcatProperties
<1>8. \A x \in 1 .. lt + lp : (text \o w)[x] = IF x <= lt THEN text[x] ELSE w[x - lt]
  BY <1>1, ConcatProperties
<1>9. CASE lt + lp < max
  <2>1. n = lp
    BY <1>2, <1>3, <1>9
  <2>2. b = w
    BY <1>1, <1>5, <2>1, SeqEqual
  <2> QED BY ONLY <1>1, <1>6, <1>7, <1>9, <2>2 DEF IsPut
<1>10. CASE ~ (lt + lp < max)
  <2>1. n = room /\ lt + n = max
    BY <1>1, <1>2, <1>3, <1>10
  <2>2. \A x \in 1 .. max : (text \o b)[x] = (text \o w)[x]
    <3> TAKE x \in 1 .. max
    <3>1. x \in 1 .. lt + n /\ x \in 1 .. lt + lp
      BY <1>10, <2>1
    <3>2. CASE x <= lt
      BY ONLY <1>7, <1>8, <3>1, <3>2
    <3>3. CASE ~ (x <= lt)
      <4>1. x - lt \in 1 .. n
        BY <2>1, <3>3
      <4> QED BY ONLY <1>5, <1>7, <1>8, <3>1, <3>3, <4>1
    <3> QED BY <3>2, <3>3
  <2>3. \A x \in 1 .. max - 1 : x \in 1 .. max
    OBVIOUS
  <2> QED BY ONLY <1>1, <1>6, <1>7, <1>10, <2>1, <2>2, <2>3 DEF IsPut
<1> QED BY <1>9, <1>10

(* So does a character that is appended. *)
LEMMA AppendIs ==
  ASSUME NEW text \in Seq(Glyphs), NEW c \in Glyphs, NEW max \in Nat, Len(text) < max
  PROVE  IsPut(text, <<c>>, Append(text, c), max)
<1>1. PICK lt \in Nat : lt = Len(text)
  BY LenProperties
<1>2. Append(text, c) = text \o <<c>> /\ <<c>> \in Seq(Glyphs) /\ Len(<<c>>) = 1
      /\ Append(text, c) \in Seq(Glyphs) /\ Len(Append(text, c)) = lt + 1
  BY <1>1
<1>3. lt + 1 < max \/ lt + 1 = max
  BY <1>1
<1> QED BY ONLY <1>1, <1>2, <1>3 DEF IsPut

(* A buffer that is full stays as it is. *)
LEMMA FullStays ==
  ASSUME NEW s \in States, NEW m \in Seq(Glyphs), NEW w \in Seq(Glyphs), NEW max \in Nat,
         Tracks(s, m, max), s.full
  PROVE  Tracks(s, m \o w, max)
<1>1. PICK lm \in Nat, lp \in Nat : lm = Len(m) /\ lp = Len(w)
  BY LenProperties
<1>2. /\ Len(m \o w) = lm + lp
      /\ \A x \in 1 .. lm + lp : (m \o w)[x] = IF x <= lm THEN m[x] ELSE w[x - lm]
  BY <1>1, ConcatProperties
<1>3. lm >= max /\ Len(s.text) = max /\ \A x \in 1 .. max - 1 : s.text[x] = m[x]
  BY ONLY <1>1, Tracks(s, m, max), s.full DEF Tracks
<1>4. lm + lp >= max /\ \A x \in 1 .. max - 1 : x \in 1 .. lm + lp /\ x <= lm
  BY <1>3
<1> QED BY ONLY <1>1, <1>2, <1>3, <1>4, s.full DEF Tracks

(* What is put behind it is put behind what it is the beginning of. *)
LEMMA PutTracks ==
  ASSUME NEW s \in States, NEW m \in Seq(Glyphs), NEW w \in Seq(Glyphs), NEW max \in Nat,
         Tracks(s, m, max), ~ s.full, NEW out, IsPut(s.text, w, out, max),
         NEW t, t = [text |-> out, mode |-> "text", full |-> Len(out) >= max]
  PROVE  Tracks(t, m \o w, max)
<1>1. PICK lm \in Nat, lp \in Nat : lm = Len(m) /\ lp = Len(w)
  BY LenProperties
<1>2. Len(m \o w) = lm + lp
  BY <1>1, ConcatProperties
<1>3. s.text = m /\ lm < max
  BY ONLY <1>1, Tracks(s, m, max), ~ s.full, lm \in Nat, max \in Nat DEF Tracks
<1>4. CASE lm + lp < max
  <2>1. out = m \o w
    BY ONLY <1>1, <1>3, <1>4, IsPut(s.text, w, out, max) DEF IsPut
  <2>2. ~ (lm + lp >= max)
    BY <1>4
  <2> QED BY ONLY <1>2, <2>1, <2>2, t = [text |-> out, mode |-> "text", full |-> Len(out) >= max]
          DEF Tracks
<1>5. CASE ~ (lm + lp < max)
  <2>1. Len(out) = max /\ \A x \in 1 .. max - 1 : out[x] = (m \o w)[x]
    BY ONLY <1>1, <1>3, <1>5, IsPut(s.text, w, out, max) DEF IsPut
  <2>2. lm + lp >= max /\ max >= max
    BY <1>5
  <2> QED BY ONLY <1>2, <2>1, <2>2, t = [text |-> out, mode |-> "text", full |-> Len(out) >= max]
          DEF Tracks
<1> QED BY <1>4, <1>5

(* The end is marked. *)
LEMMA TerminateIs ==
  ASSUME NEW s \in States, NEW m \in Seq(Glyphs), NEW max \in Nat \ {0}, Tracks(s, m, max),
         NEW n, n = IF Len(m) < max THEN Len(m) ELSE max - 1
  PROVE  /\ Terminate(s.text, max) = SubSeq(m, 1, n) \o <<NUL>>
         /\ Len(s.text) = IF Len(m) < max THEN Len(m) ELSE max
         /\ Terminate(s.text, max) \in Seq(Glyphs)
<1>1. PICK lm \in Nat, u \in Seq(Glyphs), lu \in Nat : lm = Len(m) /\ u = s.text /\ lu = Len(u)
  BY StateIs, LenProperties
<1>2. NUL \in Glyphs
  BY MarkIs
<1>3. n \in 0 .. lm /\ n < max
  BY <1>1
<1>4. PICK b : b = SubSeq(m, 1, n)
  OBVIOUS
<1>5. b \in Seq(Glyphs) /\ Len(b) = n /\ \A x \in 1 .. n : b[x] = m[x]
  <2>1. \A x \in 1 .. n : m[x] \in Glyphs
    BY <1>1, <1>3, LenProperties
  <2> QED BY <1>3, <1>4, <2>1, SubSeqProperties
<1>6. b \o <<NUL>> = Append(b, NUL) /\ Append(b, NUL) \in Seq(Glyphs) /\ Len(Append(b, NUL)) = n + 1
      /\ \A x \in 1 .. n : Append(b, NUL)[x] = b[x]
      /\ Append(b, NUL)[n + 1] = NUL
  BY <1>2, <1>5
<1>7. CASE ~ s.full
  <2>1. u = m /\ ~ (lm >= max)
    BY ONLY <1>1, <1>7, Tracks(s, m, max) DEF Tracks
  <2>2. n = lm /\ lm < max
    BY <1>1, <2>1
  <2>3. b = m
    BY <1>1, <1>5, <2>2, SeqEqual
  <2> QED BY ONLY <1>1, <1>4, <1>6, <2>1, <2>2, <2>3 DEF Terminate
<1>8. CASE s.full
  <2>1. lm >= max /\ lu = max /\ \A x \in 1 .. max - 1 : u[x] = m[x]
    BY ONLY <1>1, <1>8, Tracks(s, m, max) DEF Tracks
  <2>2. n = max - 1 /\ ~ (lm < max) /\ lu \in 1 .. lu /\ lu >= max /\ n + 1 = lu
    BY <1>1, <2>1
  <2>3. PICK v : v = [u EXCEPT ![lu] = NUL]
    OBVIOUS
  <2>4. v \in Seq(Glyphs) /\ Len(v) = lu
        /\ \A x \in 1 .. lu : v[x] = IF x = lu THEN NUL ELSE u[x]
    BY <1>1, <1>2, <2>2, <2>3, ExceptSeq
  <2>5. \A x \in 1 .. n + 1 : v[x] = Append(b, NUL)[x]
    <3> TAKE x \in 1 .. n + 1
    <3>1. x \in 1 .. lu /\ (x = lu \/ (x # lu /\ x \in 1 .. n /\ x \in 1 .. max - 1))
      BY <1>3, <2>2
    <3> QED BY <1>5, <1>6, <2>1, <2>2, <2>4, <3>1
  <2>6. v = Append(b, NUL)
    BY <1>6, <2>2, <2>4, <2>5, SeqEqual
  <2>7. Terminate(s.text, max) = v
    BY ONLY <1>1, <2>1, <2>2, <2>3 DEF Terminate
  <2> QED BY ONLY <1>1, <1>4, <1>6, <2>1, <2>2, <2>4, <2>6, <2>7
<1> QED BY <1>7, <1>8

(* Nothing is read when the buffer is full. *)
LEMMA ReadFull ==
  ASSUME NEW s, s.full, NEW c, NEW max, NEW d
  PROVE  Read(s, c, max, d) = s
BY DEF Read

(* A % is read. *)
LEMMA ReadPercent ==
  ASSUME NEW s \in States, ~ s.full, s.mode = "text", NEW max, NEW d, NEW m,
         Tracks(s, m, max), NEW t, t = Read(s, "%", max, d)
  PROVE  Tracks(t, m, max) /\ ~ t.full /\ t.mode = "percent"
<1>1. t = [s EXCEPT !.mode = "percent"]
  BY ONLY ~ s.full, s.mode = "text", t = Read(s, "%", max, d) DEF Read
<1>2. t.text = s.text /\ t.full = s.full /\ t.mode = "percent"
  BY ONLY <1>1, s \in States DEF States
<1> QED BY ONLY <1>2, Tracks(s, m, max), ~ s.full DEF Tracks

(* An O or an E behind it is read. *)
LEMMA ReadModifier ==
  ASSUME NEW s \in States, ~ s.full, s.mode = "percent", NEW c \in {"O", "E"}, NEW max, NEW d, NEW m,
         Tracks(s, m, max), NEW t, t = Read(s, c, max, d)
  PROVE  Tracks(t, m, max) /\ ~ t.full /\ t.mode = "modified"
<1>1. t = [s EXCEPT !.mode = "modified"]
  BY ONLY ~ s.full, s.mode = "percent", c \in {"O", "E"}, t = Read(s, c, max, d) DEF Read
<1>2. t.text = s.text /\ t.full = s.full /\ t.mode = "modified"
  BY ONLY <1>1, s \in States DEF States
<1> QED BY ONLY <1>2, Tracks(s, m, max), ~ s.full DEF Tracks

(* A character of the text is read. *)
LEMMA ReadCharacter ==
  ASSUME NEW s \in States, ~ s.full, NEW c \in Glyphs, NEW max \in Nat, NEW d, NEW m \in Seq(Glyphs),
         (s.mode = "text" /\ c # "%") \/ (s.mode = "percent" /\ c = "%"),
         Tracks(s, m, max), NEW t, t = Read(s, c, max, d)
  PROVE  Tracks(t, m \o <<c>>, max) /\ t.mode = "text"
<1>1. PICK out : out = Append(s.text, c)
  OBVIOUS
<1>2. t = [text |-> out, mode |-> "text", full |-> Len(out) >= max]
  BY ONLY <1>1, ~ s.full, t = Read(s, c, max, d),
     (s.mode = "text" /\ c # "%") \/ (s.mode = "percent" /\ c = "%") DEF Read
<1>3. s.text \in Seq(Glyphs) /\ Len(s.text) < max
  <2>1. s.text = m /\ ~ (Len(m) >= max)
    BY ONLY Tracks(s, m, max), ~ s.full DEF Tracks
  <2> QED BY <2>1, LenProperties
<1>4. IsPut(s.text, <<c>>, out, max)
  BY <1>1, <1>3, AppendIs
<1>5. <<c>> \in Seq(Glyphs)
  OBVIOUS
<1>6. Tracks(t, m \o <<c>>, max)
  BY <1>2, <1>4, <1>5, PutTracks
<1> QED BY <1>2, <1>6

(* The character of a directive is read. *)
LEMMA ReadDirective ==
  ASSUME NEW s \in States, ~ s.full, NEW c, NEW max \in Nat, NEW d, NEW m \in Seq(Glyphs),
         (s.mode = "percent" /\ c # "%") \/ s.mode = "modified", c \notin {"O", "E"},
         Tracks(s, m, max), NEW w \in Seq(Glyphs), IsPut(s.text, w, d, max),
         NEW t, t = Read(s, c, max, d)
  PROVE  Tracks(t, m \o w, max) /\ t.mode = "text"
<1>1. t = [text |-> d, mode |-> "text", full |-> Len(d) >= max]
  BY ONLY ~ s.full, t = Read(s, c, max, d), c \notin {"O", "E"},
     (s.mode = "percent" /\ c # "%") \/ s.mode = "modified" DEF Read
<1>2. Tracks(t, m \o w, max)
  BY <1>1, PutTracks
<1> QED BY <1>1, <1>2

(* The text of what is not full is short. *)
LEMMA RoomLeft ==
  ASSUME NEW s \in States, ~ s.full, NEW max \in Nat, NEW m \in Seq(Glyphs), Tracks(s, m, max)
  PROVE  s.text \in Seq(Glyphs) /\ s.text = m /\ Len(s.text) < max
<1>1. s.text = m /\ ~ (Len(m) >= max)
  BY ONLY Tracks(s, m, max), ~ s.full DEF Tracks
<1> QED BY <1>1, LenProperties

(* Nothing was read to begin with. *)
LEMMA NothingRead ==
  ASSUME NEW max \in Nat \ {0}
  PROVE  Tracks(NoText, << >>, max) /\ NoText.mode = "text"
<1>1. ~ (Len(<< >>) >= max) /\ NoText.full = FALSE /\ NoText.text = << >> /\ NoText.mode = "text"
  BY DEF NoText
<1> QED BY <1>1 DEF Tracks

(* A format in which every % is followed by a directive. *)
IsPlain(f) ==
  /\ f \in Seq(Glyphs)
  /\ \A x \in 1 .. Len(f) :
       f[x] = "%" => x + 1 \in 1 .. Len(f) /\ f[x + 1] \notin {"%", "O", "E"}

(* The pieces of a format are texts. *)
LEMMA PiecesTyped ==
  ASSUME NEW f \in Seq(Glyphs), NEW tm, IsTime(tm)
  PROVE  /\ Pieces(f, tm) \in Seq(Seq(Glyphs)) /\ Len(Pieces(f, tm)) = Len(f)
         /\ \A x \in 1 .. Len(f) :
              Pieces(f, tm)[x] = IF f[x] = "%" THEN << >>
                                 ELSE IF x > 1 /\ f[x - 1] = "%" THEN Simple(f[x], tm) ELSE <<f[x]>>
<1>1. PICK n \in Nat : n = Len(f) /\ \A x \in 1 .. n : f[x] \in Glyphs
  BY LenProperties
<1>2. ASSUME NEW x \in 1 .. n
      PROVE  (IF f[x] = "%" THEN << >>
              ELSE IF x > 1 /\ f[x - 1] = "%" THEN Simple(f[x], tm) ELSE <<f[x]>>) \in Seq(Glyphs)
  <2>1. << >> \in Seq(Glyphs) /\ <<f[x]>> \in Seq(Glyphs)
    BY <1>1
  <2>2. Simple(f[x], tm) \in Seq(Glyphs)
    BY SimpleIs
  <2> QED BY ONLY <2>1, <2>2
<1>3. PICK T : T = Seq(Glyphs)
  OBVIOUS
<1>4. PICK P : P = Pieces(f, tm)
  OBVIOUS
<1>5. P = [x \in 1 .. n |-> IF f[x] = "%" THEN << >>
              ELSE IF x > 1 /\ f[x - 1] = "%" THEN Simple(f[x], tm) ELSE <<f[x]>>]
  BY ONLY <1>1, <1>4 DEF Pieces
<1>6. P \in [1 .. n -> T]
  BY ONLY <1>2, <1>3, <1>5
<1>7. P \in Seq(T) /\ Len(P) = n
  BY ONLY <1>6, n \in Nat
<1> QED BY ONLY <1>1, <1>3, <1>4, <1>5, <1>7

(* A format without formats inside it is read as its pieces. *)
LEMMA InnerIs ==
  ASSUME NEW f, IsPlain(f), NEW tm, IsTime(tm), NEW max \in Nat \ {0}
  PROVE  \E s \in States, m \in Seq(Glyphs) :
           /\ m = Sequences_!FlattenSeq(Pieces(f, tm)) /\ Tracks(s, m, max)
           /\ InnerText(f, max, tm) = s.text
<1>1. PICK n \in Nat : n = Len(f) /\ f \in Seq(Glyphs) /\ \A x \in 1 .. n : f[x] \in Glyphs
  BY LenProperties DEF IsPlain
<1>2. PICK g : InnerRun(g, f, max, tm) /\ InnerText(f, max, tm) = g[n].text
  BY <1>1, InnerRunExists
<1>3. PICK P : P = Pieces(f, tm)
  OBVIOUS
<1>4. /\ P \in Seq(Seq(Glyphs)) /\ Len(P) = n
      /\ \A x \in 1 .. n : P[x] = IF f[x] = "%" THEN << >>
                                  ELSE IF x > 1 /\ f[x - 1] = "%" THEN Simple(f[x], tm) ELSE <<f[x]>>
  BY <1>1, <1>3, PiecesTyped
<1>5. PICK J : IsJoin(J, Glyphs, P, n) /\ Sequences_!FlattenSeq(P) = J[n]
  BY <1>4, FlattenIs
<1> DEFINE mode(x) == IF x > 0 /\ f[x] = "%" THEN "percent" ELSE "text"
           So == {x \in 0 .. n : Tracks(g[x], J[x], max) /\ (~ g[x].full => g[x].mode = mode(x))}
<1>6. 0 \in So
  <2>1. g[0] = NoText /\ J[0] = << >> /\ mode(0) = "text" /\ 0 \in 0 .. n
    BY <1>1, <1>2, <1>5 DEF InnerRun, IsJoin
  <2> QED BY <2>1, NothingRead
<1>7. ASSUME NEW x \in 1 .. n, x - 1 \in So PROVE x \in So
  <2>1. PICK y \in 0 .. n : y = x - 1 /\ x = y + 1 /\ x > 0 /\ (y > 0 => x > 1) /\ (x > 1 => y > 0)
    OBVIOUS
  <2>2. PICK s \in States : s = g[y]
    BY <1>1, <1>2, <2>1 DEF InnerRun
  <2>3. PICK t : t = g[x]
    OBVIOUS
  <2>4. PICK c \in Glyphs : c = f[x]
    BY <1>1
  <2>5. PICK d : d = Put(s.text, max, Simple(c, tm))
    OBVIOUS
  <2>6. t = Read(s, c, max, d)
    BY ONLY <1>1, <1>2, <2>1, <2>2, <2>3, <2>4, <2>5, x \in 1 .. n DEF InnerRun
  <2>7. PICK m \in Seq(Glyphs), w \in Seq(Glyphs) : m = J[y] /\ w = P[x]
    <3>1. J[y] \in Seq(Glyphs)
      BY ONLY <1>5, y \in 0 .. n DEF IsJoin
    <3>2. P[x] \in Seq(Glyphs)
      BY <1>4, ElementOfSeq
    <3> QED BY <3>1, <3>2
  <2>8. J[x] = m \o w
    BY ONLY <1>5, <2>1, <2>7, x \in 1 .. n DEF IsJoin
  <2>9. Tracks(s, m, max) /\ (~ s.full => s.mode = mode(y))
    BY <1>7, <2>1, <2>2, <2>7
  <2>10. w = IF c = "%" THEN << >>
            ELSE IF y > 0 /\ f[y] = "%" THEN Simple(c, tm) ELSE <<c>>
    BY ONLY <1>4, <2>1, <2>4, <2>7, x \in 1 .. n
  <2>11. y > 0 /\ f[y] = "%" => c \notin {"%", "O", "E"}
    <3> SUFFICES ASSUME y > 0, f[y] = "%" PROVE c \notin {"%", "O", "E"}
      OBVIOUS
    <3>1. y \in 1 .. Len(f)
      BY <1>1
    <3>2. f[y + 1] \notin {"%", "O", "E"}
      BY ONLY <3>1, f[y] = "%", IsPlain(f) DEF IsPlain
    <3> QED BY ONLY <2>1, <2>4, <3>2
  <2>12. Tracks(t, m \o w, max) /\ (~ t.full => t.mode = mode(x))
    <3>1. CASE s.full
      <4>1. t = s
        BY <2>6, <3>1, ReadFull
      <4> QED BY <2>9, <3>1, <4>1, FullStays
    <3>2. CASE ~ s.full /\ y > 0 /\ f[y] = "%"
      <4>1. s.mode = "percent" /\ w = Simple(c, tm) /\ mode(x) = "text"
        BY <2>4, <2>9, <2>10, <2>11, <3>2
      <4>2. s.text \in Seq(Glyphs) /\ Len(s.text) < max
        BY <2>9, <3>2, RoomLeft
      <4>3. IsPut(s.text, w, d, max)
        BY <2>5, <4>1, <4>2, PutIs
      <4> QED BY <2>6, <2>9, <2>11, <3>2, <4>1, <4>3, ReadDirective
    <3>3. CASE ~ s.full /\ ~ (y > 0 /\ f[y] = "%") /\ c = "%"
      <4>1. s.mode = "text" /\ w = << >> /\ mode(x) = "percent"
        BY <2>1, <2>4, <2>9, <2>10, <3>3
      <4>2. m \o w = m
        BY <4>1, ConcatEmptySeq
      <4> QED BY <2>6, <2>9, <3>3, <4>1, <4>2, ReadPercent
    <3>4. CASE ~ s.full /\ ~ (y > 0 /\ f[y] = "%") /\ c # "%"
      <4>1. s.mode = "text" /\ w = <<c>> /\ mode(x) = "text"
        BY <2>1, <2>4, <2>9, <2>10, <3>4
      <4>2. (s.mode = "text" /\ c # "%") \/ (s.mode = "percent" /\ c = "%")
        BY ONLY <3>4, <4>1
      <4>3. Tracks(t, m \o <<c>>, max) /\ t.mode = "text"
        BY ONLY <2>6, <2>9, <3>4, <4>2, s \in States, c \in Glyphs, m \in Seq(Glyphs), max \in Nat,
           ReadCharacter
      <4> QED BY ONLY <4>1, <4>3
    <3> QED BY <3>1, <3>2, <3>3, <3>4
  <2>13. x \in 0 .. n
    OBVIOUS
  <2>14. Tracks(g[x], J[x], max) /\ (~ g[x].full => g[x].mode = mode(x))
    BY ONLY <2>2, <2>3, <2>8, <2>12
  <2> QED BY ONLY <2>13, <2>14
<1>8. n \in So
  <2>1. n \in 0 .. n
    OBVIOUS
  <2> HIDE DEF So
  <2> QED BY <1>6, <1>7, <2>1, UpTo
<1>9. g[n] \in States /\ J[n] \in Seq(Glyphs) /\ Tracks(g[n], J[n], max)
  <2>1. n \in 0 .. n
    OBVIOUS
  <2> QED BY ONLY <1>1, <1>2, <1>5, <1>8, <2>1 DEF InnerRun, IsJoin
<1> QED BY ONLY <1>2, <1>3, <1>5, <1>9

(* The space is none of the characters of directives. *)
LEMMA SpaceIs == SPACE \notin {"%", "O", "E"}
BY DEF SPACE

(* The formats that directives stand for. *)
LEMMA CompositeIs ==
  ASSUME NEW c \in DOMAIN Composite
  PROVE  IsPlain(Composite[c]) /\ c \notin {"U", "W"}
<1>1. c \in {"c", "r", "R", "x", "X", "D", "F", "T"}
  BY DEF Composite
<1>2. \A y \in {"%", "\n", "\t", SPACE, ":", "/", "-", NUL,
                 "b", "a", "d", "k", "M", "S", "Z", "Y", "I", "p", "H", "m", "y"} : y \in Glyphs
  BY MarkIs
<1>3. CASE c = "c"
  <2>1. Composite[c] = <<"%", "b", SPACE, "%", "a", SPACE, "%", "d", SPACE, "%", "k", ":", "%", "M", ":", "%", "S", SPACE, "%", "Z", SPACE, "%", "Y">>
    BY <1>3 DEF Composite
  <2>2. Composite[c] \in Seq(Glyphs) /\ Len(Composite[c]) = 23
    BY ONLY <1>2, <2>1
  <2>3. \A x \in 1 .. 23 : Composite[c][x] = "%" =>
          x + 1 \in 1 .. 23 /\ Composite[c][x + 1] \notin {"%", "O", "E"}
    BY ONLY <2>1, SpaceIs
  <2> QED BY ONLY <1>3, <2>2, <2>3 DEF IsPlain
<1>4. CASE c = "r"
  <2>1. Composite[c] = <<"%", "I", ":", "%", "M", ":", "%", "S", SPACE, "%", "p">>
    BY <1>4 DEF Composite
  <2>2. Composite[c] \in Seq(Glyphs) /\ Len(Composite[c]) = 11
    BY ONLY <1>2, <2>1
  <2>3. \A x \in 1 .. 11 : Composite[c][x] = "%" =>
          x + 1 \in 1 .. 11 /\ Composite[c][x + 1] \notin {"%", "O", "E"}
    BY ONLY <2>1, SpaceIs
  <2> QED BY ONLY <1>4, <2>2, <2>3 DEF IsPlain
<1>5. CASE c = "R"
  <2>1. Composite[c] = <<"%", "H", ":", "%", "M">>
    BY <1>5 DEF Composite
  <2>2. Composite[c] \in Seq(Glyphs) /\ Len(Composite[c]) = 5
    BY ONLY <1>2, <2>1
  <2>3. \A x \in 1 .. 5 : Composite[c][x] = "%" =>
          x + 1 \in 1 .. 5 /\ Composite[c][x + 1] \notin {"%", "O", "E"}
    BY ONLY <2>1, SpaceIs
  <2> QED BY ONLY <1>5, <2>2, <2>3 DEF IsPlain
<1>6. CASE c = "x"
  <2>1. Composite[c] = <<"%", "b", SPACE, "%", "a", SPACE, "%", "d">>
    BY <1>6 DEF Composite
  <2>2. Composite[c] \in Seq(Glyphs) /\ Len(Composite[c]) = 8
    BY ONLY <1>2, <2>1
  <2>3. \A x \in 1 .. 8 : Composite[c][x] = "%" =>
          x + 1 \in 1 .. 8 /\ Composite[c][x + 1] \notin {"%", "O", "E"}
    BY ONLY <2>1, SpaceIs
  <2> QED BY ONLY <1>6, <2>2, <2>3 DEF IsPlain
<1>7. CASE c = "X"
  <2>1. Composite[c] = <<"%", "k", ":", "%", "M", ":", "%", "S">>
    BY <1>7 DEF Composite
  <2>2. Composite[c] \in Seq(Glyphs) /\ Len(Composite[c]) = 8
    BY ONLY <1>2, <2>1
  <2>3. \A x \in 1 .. 8 : Composite[c][x] = "%" =>
          x + 1 \in 1 .. 8 /\ Composite[c][x + 1] \notin {"%", "O", "E"}
    BY ONLY <2>1, SpaceIs
  <2> QED BY ONLY <1>7, <2>2, <2>3 DEF IsPlain
<1>8. CASE c = "D"
  <2>1. Composite[c] = <<"%", "m", "/", "%", "d", "/", "%", "y">>
    BY <1>8 DEF Composite
  <2>2. Composite[c] \in Seq(Glyphs) /\ Len(Composite[c]) = 8
    BY ONLY <1>2, <2>1
  <2>3. \A x \in 1 .. 8 : Composite[c][x] = "%" =>
          x + 1 \in 1 .. 8 /\ Composite[c][x + 1] \notin {"%", "O", "E"}
    BY ONLY <2>1, SpaceIs
  <2> QED BY ONLY <1>8, <2>2, <2>3 DEF IsPlain
<1>9. CASE c = "F"
  <2>1. Composite[c] = <<"%", "Y", "-", "%", "m", "-", "%", "d">>
    BY <1>9 DEF Composite
  <2>2. Composite[c] \in Seq(Glyphs) /\ Len(Composite[c]) = 8
    BY ONLY <1>2, <2>1
  <2>3. \A x \in 1 .. 8 : Composite[c][x] = "%" =>
          x + 1 \in 1 .. 8 /\ Composite[c][x + 1] \notin {"%", "O", "E"}
    BY ONLY <2>1, SpaceIs
  <2> QED BY ONLY <1>9, <2>2, <2>3 DEF IsPlain
<1>10. CASE c = "T"
  <2>1. Composite[c] = <<"%", "H", ":", "%", "M", ":", "%", "S">>
    BY <1>10 DEF Composite
  <2>2. Composite[c] \in Seq(Glyphs) /\ Len(Composite[c]) = 8
    BY ONLY <1>2, <2>1
  <2>3. \A x \in 1 .. 8 : Composite[c][x] = "%" =>
          x + 1 \in 1 .. 8 /\ Composite[c][x + 1] \notin {"%", "O", "E"}
    BY ONLY <2>1, SpaceIs
  <2> QED BY ONLY <1>10, <2>2, <2>3 DEF IsPlain
<1> QED BY ONLY <1>1, <1>3, <1>4, <1>5, <1>6, <1>7, <1>8, <1>9, <1>10

(* A format inside a format is put behind the text as what it means. *)
LEMMA NestedIs ==
  ASSUME NEW text \in Seq(Glyphs), NEW max \in Nat, Len(text) < max,
         NEW c \in DOMAIN Composite, NEW tm, IsTime(tm),
         NEW w, w = Sequences_!FlattenSeq(Pieces(Composite[c], tm))
  PROVE  w \in Seq(Glyphs) /\ IsPut(text, w, Nested(text, max, c, tm), max)
<1>1. PICK lt \in Nat, room \in Nat \ {0} : lt = Len(text) /\ room = max - lt
  <2>1. Len(text) \in Nat /\ max - Len(text) \in Nat \ {0}
    BY LenProperties
  <2> QED BY <2>1
<1>2. PICK f : f = Composite[c] /\ IsPlain(f)
  BY CompositeIs
<1>3. PICK s \in States : w \in Seq(Glyphs) /\ Tracks(s, w, room) /\ InnerText(f, room, tm) = s.text
  <2>1. \E s \in States, m \in Seq(Glyphs) :
           /\ m = Sequences_!FlattenSeq(Pieces(f, tm)) /\ Tracks(s, m, room)
           /\ InnerText(f, room, tm) = s.text
    BY <1>2, InnerIs
  <2> QED BY ONLY <1>2, <2>1, w = Sequences_!FlattenSeq(Pieces(Composite[c], tm))
<1>4. PICK lw \in Nat : lw = Len(w)
  BY <1>3, LenProperties
<1>5. PICK n \in 0 .. lw : n = IF lw < room THEN lw ELSE room - 1
  <2>1. (IF lw < room THEN lw ELSE room - 1) \in 0 .. lw
    BY ONLY lw \in Nat, room \in Nat \ {0}
  <2> QED BY ONLY <2>1
<1>6. PICK cells : cells = Terminate(s.text, room)
  OBVIOUS
<1>7. PICK length \in 0 .. n + 1 : length = IF lw < room THEN lw ELSE room
  BY <1>5
<1>8. /\ cells = SubSeq(w, 1, n) \o <<NUL>> /\ cells \in Seq(Glyphs)
      /\ Len(s.text) = length
  <2>1. Tracks(s, w, room) /\ w \in Seq(Glyphs) /\ n = IF Len(w) < room THEN Len(w) ELSE room - 1
    BY ONLY <1>3, <1>4, <1>5
  <2>2. /\ Terminate(s.text, room) = SubSeq(w, 1, n) \o <<NUL>>
        /\ Len(s.text) = IF Len(w) < room THEN Len(w) ELSE room
        /\ Terminate(s.text, room) \in Seq(Glyphs)
    BY ONLY <2>1, s \in States, room \in Nat \ {0}, TerminateIs
  <2> QED BY ONLY <1>4, <1>6, <1>7, <2>2
<1>9. PICK z : z = SubSeq(cells, 1, length)
  OBVIOUS
<1>10. Nested(text, max, c, tm) = text \o z
  <2>1. PICK inner : inner = Inner(f, room, tm)
    OBVIOUS
  <2>2. inner = [cells |-> Terminate(InnerText(f, room, tm), room), length |-> Len(InnerText(f, room, tm))]
    BY ONLY <2>1 DEF Inner, InnerText
  <2>3. inner.cells = cells /\ inner.length = length
    BY ONLY <1>3, <1>6, <1>8, <2>2
  <2>4. Nested(text, max, c, tm) = text \o SubSeq(inner.cells, 1, inner.length)
    BY ONLY <1>1, <1>2, <2>1 DEF Nested
  <2> QED BY ONLY <1>9, <2>3, <2>4
<1>11. PICK b : b = SubSeq(w, 1, n)
  OBVIOUS
<1>12. b \in Seq(Glyphs) /\ Len(b) = n /\ \A x \in 1 .. n : b[x] = w[x]
  <2>1. \A x \in 1 .. n : w[x] \in Glyphs
    BY <1>3, <1>4, LenProperties
  <2> QED BY <1>11, <2>1, SubSeqProperties
<1>13. Len(cells) = n + 1 /\ \A x \in 1 .. n : cells[x] = w[x]
  <2>1. NUL \in Glyphs
    BY MarkIs
  <2>2. cells = Append(b, NUL)
    BY <1>8, <1>11, <1>12, <2>1
  <2> QED BY <1>12, <2>1, <2>2
<1>14. z \in Seq(Glyphs) /\ Len(z) = length /\ \A x \in 1 .. length : z[x] = cells[x]
  <2>1. \A x \in 1 .. length : cells[x] \in Glyphs
    BY <1>7, <1>8, <1>13, LenProperties
  <2> QED BY <1>9, <2>1, SubSeqProperties
<1>15. /\ text \o z \in Seq(Glyphs) /\ Len(text \o z) = lt + length
       /\ \A x \in 1 .. lt + length : (text \o z)[x] = IF x <= lt THEN text[x] ELSE z[x - lt]
  BY <1>1, <1>14, ConcatProperties
<1>16. \A x \in 1 .. lt + lw : (text \o w)[x] = IF x <= lt THEN text[x] ELSE w[x - lt]
  BY <1>1, <1>3, <1>4, ConcatProperties
<1>17. CASE lw < room
  <2>1. n = lw /\ length = lw /\ lt + lw < max
    BY <1>1, <1>5, <1>7, <1>17
  <2>2. z = w
    BY <1>3, <1>4, <1>13, <1>14, <2>1, SeqEqual
  <2> QED BY ONLY <1>1, <1>3, <1>4, <1>10, <1>15, <2>1, <2>2 DEF IsPut
<1>18. CASE ~ (lw < room)
  <2>1. length = room /\ n = room - 1 /\ lt + length = max /\ ~ (lt + lw < max)
    BY <1>1, <1>5, <1>7, <1>18
  <2>2. ASSUME NEW x \in 1 .. max - 1 PROVE (text \o z)[x] = (text \o w)[x]
    <3>1. x \in 1 .. lt + length /\ x \in 1 .. lt + lw
      BY <2>1
    <3>2. CASE x <= lt
      BY ONLY <1>15, <1>16, <3>1, <3>2
    <3>3. CASE ~ (x <= lt)
      <4>1. x - lt \in 1 .. n /\ x - lt \in 1 .. length
        BY <1>1, <2>1, <3>3
      <4> QED BY ONLY <1>13, <1>14, <1>15, <1>16, <3>1, <3>3, <4>1
    <3> QED BY <3>2, <3>3
  <2> QED BY ONLY <1>1, <1>3, <1>4, <1>10, <1>15, <2>1, <2>2 DEF IsPut
<1> QED BY <1>3, <1>17, <1>18

(* Every seventh day back from day y - e of the year. *)
LEMMA EverySeventh ==
  ASSUME NEW y \in Nat, NEW e \in 0 .. 6, NEW D, D = {d \in 0 .. y : (e - (y - d)) % 7 = 0}
  PROVE  Cardinality(D) = (y - e + 7) \div 7
<1>1. PICK n \in Nat : n = (y - e + 7) \div 7 /\ 7 * n <= y - e + 7 /\ y - e + 7 < 7 * n + 7
  <2>1. /\ (y - e + 7) \div 7 \in Nat
        /\ 7 * ((y - e + 7) \div 7) <= y - e + 7 /\ y - e + 7 < 7 * ((y - e + 7) \div 7) + 7
    OBVIOUS
  <2> QED BY <2>1
<1>2. PICK g : g = [t \in 1 .. n |-> y - e - 7 * (t - 1)]
  OBVIOUS
<1>3. \A t \in 1 .. n : g[t] \in D
  <2> TAKE t \in 1 .. n
  <2>1. g[t] = y - e - 7 * (t - 1)
    BY ONLY <1>2
  <2>2. 7 * (t - 1) >= 0 /\ 7 * (t - 1) <= y - e
    BY <1>1
  <2>3. PICK u \in Int : u = t - 1
    OBVIOUS
  <2>4. PICK z \in 0 .. y : z = y - e - 7 * u
    BY <2>2, <2>3
  <2>5. e - (y - z) = (0 - u) * 7
    BY <2>4
  <2>6. (e - (y - z)) % 7 = 0
    BY <2>5
  <2> QED BY ONLY <2>1, <2>3, <2>4, <2>6, D = {d \in 0 .. y : (e - (y - d)) % 7 = 0}
<1>4. \A s, t \in 1 .. n : g[s] = g[t] => s = t
  BY <1>2
<1>5. \A d \in D : \E t \in 1 .. n : g[t] = d
  <2> TAKE d \in D
  <2>1. d \in 0 .. y /\ (e - (y - d)) % 7 = 0
    OBVIOUS
  <2>2. PICK u \in Int : y - d - e = 7 * u
    <3>1. e - (y - d) = 7 * ((e - (y - d)) \div 7)
      BY <2>1
    <3>2. PICK v \in Int : v = (e - (y - d)) \div 7
      BY <2>1
    <3>3. y - d - e = 7 * (0 - v)
      BY <2>1, <3>1, <3>2
    <3> QED BY <3>3
  <2>3. u >= 0 /\ 7 * u <= y - e
    BY <2>1, <2>2
  <2>4. u + 1 \in 1 .. n
    BY <1>1, <2>3
  <2>5. g[u + 1] = d
    BY <1>2, <2>1, <2>2, <2>4
  <2> QED BY <2>4, <2>5
<1>6. g \in Bijection(1 .. n, D)
  <2>1. g \in [1 .. n -> D]
    BY ONLY <1>2, <1>3
  <2> QED BY <2>1, <1>4, <1>5, Fun_IsBij
<1>7. ExistsBijection(1 .. n, D)
  BY <1>6 DEF ExistsBijection
<1> QED BY <1>1, <1>7, FS_CountingElements

(* The weeks of the year so far are counted by their first days. *)
LEMMA WeeksAre ==
  ASSUME NEW tm, IsTime(tm)
  PROVE  /\ Cardinality(DaysUpTo(tm, 0)) = WeekOfSundays(tm)
         /\ Cardinality(DaysUpTo(tm, 1)) = WeekOfMondays(tm)
<1>1. PICK y \in Nat, w \in 0 .. 6 : y = tm.yday /\ w = tm.wday
  <2>1. PICK u \in 0 .. 365, w \in 0 .. 6 : u = tm.yday /\ w = tm.wday
    BY DateIs
  <2>2. u \in Nat
    OBVIOUS
  <2> QED BY ONLY <2>1, <2>2, w \in 0 .. 6
<1>2. PICK e \in 0 .. 6 : e = (w + 6) % 7
  OBVIOUS
<1>3. Cardinality({d \in 0 .. y : (w - (y - d)) % 7 = 0}) = (y - w + 7) \div 7
  BY EverySeventh
<1>4. Cardinality({d \in 0 .. y : (e - (y - d)) % 7 = 0}) = (y - e + 7) \div 7
  BY EverySeventh
<1>5. \A d \in 0 .. y : (w - (y - d)) % 7 = 1 <=> (e - (y - d)) % 7 = 0
  BY <1>2
<1>6. {d \in 0 .. y : (w - (y - d)) % 7 = 1} = {d \in 0 .. y : (e - (y - d)) % 7 = 0}
  BY ONLY <1>5
<1> QED BY ONLY <1>1, <1>2, <1>3, <1>4, <1>6 DEF DaysUpTo, WeekOfSundays, WeekOfMondays

(* A directive is put behind the text as what it means. *)
LEMMA SubstitutedIs ==
  ASSUME NEW text \in Seq(Glyphs), NEW max \in Nat, Len(text) < max,
         NEW c, NEW tm, IsTime(tm), NEW w, w = Meaning(c, tm)
  PROVE  w \in Seq(Glyphs) /\ IsPut(text, w, Substituted(text, max, c, tm), max)
<1>1. CASE c \in DOMAIN Composite
  <2>1. c # "U" /\ c # "W"
    BY <1>1, CompositeIs
  <2>2. w = Sequences_!FlattenSeq(Pieces(Composite[c], tm))
    BY ONLY <1>1, <2>1, w = Meaning(c, tm) DEF Meaning
  <2>3. Substituted(text, max, c, tm) = Nested(text, max, c, tm)
    BY ONLY <1>1 DEF Substituted
  <2> QED BY <1>1, <2>2, <2>3, NestedIs
<1>2. CASE c \notin DOMAIN Composite
  <2>1. w = Simple(c, tm)
    <3>1. CASE c = "U"
      <4>1. w = i2a(WeekOfSundays(tm))
        <5>1. w = i2a(Cardinality(DaysUpTo(tm, 0)))
          BY ONLY <1>2, <3>1, w = Meaning(c, tm) DEF Meaning
        <5>2. Cardinality(DaysUpTo(tm, 0)) = WeekOfSundays(tm)
          BY WeeksAre
        <5> QED BY ONLY <5>1, <5>2
      <4> QED BY ONLY <3>1, <4>1 DEF Simple
    <3>2. CASE c = "W"
      <4>1. w = i2a(WeekOfMondays(tm))
        <5>1. w = i2a(Cardinality(DaysUpTo(tm, 1)))
          BY ONLY <1>2, <3>2, w = Meaning(c, tm) DEF Meaning
        <5>2. Cardinality(DaysUpTo(tm, 1)) = WeekOfMondays(tm)
          BY WeeksAre
        <5> QED BY ONLY <5>1, <5>2
      <4> QED BY ONLY <3>2, <4>1 DEF Simple
    <3>3. CASE c # "U" /\ c # "W"
      BY ONLY <1>2, <3>3, w = Meaning(c, tm) DEF Meaning
    <3> QED BY <3>1, <3>2, <3>3
  <2>2. Substituted(text, max, c, tm) = Put(text, max, w)
    BY ONLY <1>2, <2>1 DEF Substituted
  <2>3. w \in Seq(Glyphs)
    BY <2>1, SimpleIs
  <2> QED BY <2>2, <2>3, PutIs
<1> QED BY <1>1, <1>2

(* A format is read character by character. *)
LEMMA OuterRunExists ==
  ASSUME NEW format \in Seq(Glyphs), NEW max \in Nat \ {0}, NEW tm, IsTime(tm)
  PROVE  \E g : /\ OuterRun(g, format, max, tm)
                /\ OuterText(format, max, tm) = g[Len(format)].text
<1>1. PICK n \in Nat : n = Len(format) /\ \A x \in 1 .. n : format[x] \in Glyphs
  OBVIOUS
<1> DEFINE Next_(s, x) == Read(s, format[x], max, Substituted(s.text, max, format[x], tm))
           Step(h) == [x \in 0 .. n |-> IF x = 0 THEN NoText ELSE Next_(h[x - 1], x)]
           state == CHOOSE h : h = Step(h)
           Live == {s \in States : s.full \/ Len(s.text) < max}
<1>2. PICK F : F = [z \in Live \X (1 .. n) |-> Next_(z[1], z[2])]
  OBVIOUS
<1>3. \A s \in Live, x \in 1 .. n : Next_(s, x) \in Live
  <2> TAKE s \in Live, x \in 1 .. n
  <2>1. PICK c \in Glyphs : c = format[x]
    BY <1>1
  <2>2. PICK d : d = Substituted(s.text, max, c, tm)
    OBVIOUS
  <2>3. CASE s.full
    BY <2>3, ReadFull
  <2>4. CASE ~ s.full
    <3>1. PICK text \in Seq(Glyphs), mode \in {"text", "percent", "modified"} :
            s = [text |-> text, mode |-> mode, full |-> FALSE] /\ Len(text) < max
      <4>1. s \in States /\ Len(s.text) < max
        BY <2>4
      <4> QED BY ONLY <2>4, <4>1 DEF States
    <3>2. d \in Seq(Glyphs)
      <4>1. IsPut(text, Meaning(c, tm), Substituted(text, max, c, tm), max)
        BY <3>1, SubstitutedIs
      <4>2. d = Substituted(text, max, c, tm)
        BY ONLY <2>2, <3>1
      <4> QED BY ONLY <4>1, <4>2 DEF IsPut
    <3>3. PICK t \in States : t = Read(s, c, max, d)
      BY <3>2, ReadTyped
    <3>4. t.full \/ Len(t.text) < max
      <4>1. PICK e \in {Append(text, c), d} :
              t \in {[s EXCEPT !.mode = "percent"], [s EXCEPT !.mode = "modified"],
                     [text |-> e, mode |-> "text", full |-> Len(e) >= max]}
        BY ONLY <2>4, <3>1, <3>3 DEF Read
      <4>2. Len(e) \in Nat
        BY <3>2, LenProperties, AppendProperties
      <4>3. Len(e) >= max \/ Len(e) < max
        BY <4>2
      <4>4. CASE t \in {[s EXCEPT !.mode = "percent"], [s EXCEPT !.mode = "modified"]}
        <5>1. t.text = text
          BY ONLY <3>1, <4>4
        <5> QED BY ONLY <3>1, <5>1
      <4>5. CASE t = [text |-> e, mode |-> "text", full |-> Len(e) >= max]
        BY ONLY <4>3, <4>5
      <4> QED BY ONLY <4>1, <4>4, <4>5
    <3> QED BY ONLY <2>1, <2>2, <3>3, <3>4
  <2> QED BY <2>3, <2>4
<1>4. \A s \in Live, x \in 1 .. n : F[<<s, x>>] = Next_(s, x)
  BY ONLY <1>2
<1>5. OuterText(format, max, tm) = state[n].text
  BY ONLY <1>1 DEF OuterText, Expand, NoText
<1> HIDE DEF Next_
<1>6. F \in [Live \X (1 .. n) -> Live]
  BY ONLY <1>2, <1>3
<1>7. NoText \in Live
  <2>1. Len(NoText.text) < max
    BY DEF NoText
  <2> QED BY <2>1, NoTextTyped
<1>8. PICK g : IsRun(g, Live, n, NoText, F)
  <2> HIDE DEF Live
  <2> QED BY <1>6, <1>7, RunExists
<1>9. \A x \in 1 .. n : x # 0 /\ x - 1 \in 0 .. n
  OBVIOUS
<1>10. g[0] = NoText /\ \A x \in 1 .. n : g[x] = Next_(g[x - 1], x)
  <2> HIDE DEF Live
  <2> QED BY ONLY <1>4, <1>8, <1>9 DEF IsRun
<1>11. g = Step(g)
  <2>1. \A x \in 0 .. n : x = 0 \/ x \in 1 .. n
    OBVIOUS
  <2> HIDE DEF Live
  <2> QED BY ONLY <1>8, <1>10, <2>1 DEF IsRun
<1>12. state = Step(state)
  BY ONLY <1>11
<1> HIDE DEF state
<1>13. state[0] = NoText /\ \A x \in 1 .. n : state[x] = Next_(state[x - 1], x)
  <2>1. \A x \in 0 .. n : state[x] = IF x = 0 THEN NoText ELSE Next_(state[x - 1], x)
    BY ONLY <1>12
  <2>2. 0 \in 0 .. n /\ \A x \in 1 .. n : x \in 0 .. n
    OBVIOUS
  <2> QED BY ONLY <1>9, <2>1, <2>2
<1>14. \A x \in 0 .. n : state[x] = g[x]
  <2>1. state[0] = g[0] /\ \A x \in 1 .. n : state[x - 1] = g[x - 1] => state[x] = g[x]
    BY ONLY <1>10, <1>13
  <2> QED BY ONLY <2>1, n \in Nat, SameRun
<1>15. OuterRun(g, format, max, tm)
  <2>1. g \in [0 .. n -> States]
    BY ONLY <1>8 DEF IsRun
  <2> QED BY ONLY <1>1, <1>10, <2>1 DEF OuterRun, Next_
<1>16. n \in 0 .. n
  OBVIOUS
<1> QED BY ONLY <1>1, <1>5, <1>14, <1>15, <1>16

(* What an item means are characters. *)
LEMMA ItemTyped ==
  ASSUME NEW item \in Seq(Glyphs), NEW tm, IsTime(tm)
  PROVE  ItemMeaning(item, tm) \in Seq(Glyphs)
<1>1. \A c : Meaning(c, tm) \in Seq(Glyphs)
  <2>1. << >> \in Seq(Glyphs) /\ Len(<< >>) < 1
    OBVIOUS
  <2> QED BY <2>1, SubstitutedIs
<1>2. <<"%">> \in Seq(Glyphs)
  BY MarkIs
<1> QED BY ONLY <1>1, <1>2, item \in Seq(Glyphs) DEF ItemMeaning

(* The states before and after one character. *)
LEMMA OuterStep ==
  ASSUME NEW format \in Seq(Glyphs), NEW max, NEW tm, NEW g, OuterRun(g, format, max, tm),
         NEW x \in Nat, x < Len(format)
  PROVE  /\ g[x] \in States /\ g[x + 1] \in States /\ format[x + 1] \in Glyphs
         /\ g[x + 1] = Read(g[x], format[x + 1], max, Substituted(g[x].text, max, format[x + 1], tm))
<1>1. PICK n \in Nat : n = Len(format)
  BY LenProperties
<1>2. x \in 0 .. n /\ x + 1 \in 1 .. n /\ x + 1 \in 0 .. n /\ (x + 1) - 1 = x
  BY <1>1
<1>3. format[x + 1] \in Glyphs
  BY <1>1, <1>2
<1> QED BY ONLY <1>1, <1>2, <1>3, OuterRun(g, format, max, tm) DEF OuterRun

(* The items there are, and what they mean. *)
LEMMA ItemIs ==
  ASSUME NEW item \in Seq(Glyphs), IsItem(item), NEW tm, NEW w, w = ItemMeaning(item, tm)
  PROVE  \/ \E c \in Glyphs : item = <<c>> /\ c # "%" /\ w = <<c>>
         \/ item = <<"%", "%">> /\ w = <<"%">>
         \/ \E c \in Glyphs : item = <<"%", c>> /\ c \notin {"%", "O", "E"} /\ w = Meaning(c, tm)
         \/ \E b \in {"O", "E"}, c \in Glyphs :
              item = <<"%", b, c>> /\ c \notin {"O", "E"} /\ w = Meaning(c, tm)
<1>1. CASE Len(item) = 1 /\ item[1] # "%"
  <2>1. PICK c \in Glyphs : c = item[1] /\ item = <<c>>
    BY ONLY <1>1, item \in Seq(Glyphs)
  <2>2. w = item
    BY ONLY <1>1, w = ItemMeaning(item, tm) DEF ItemMeaning
  <2> QED BY ONLY <1>1, <2>1, <2>2
<1>2. CASE Len(item) = 2 /\ item[1] = "%" /\ item[2] \notin {"O", "E"}
  <2>1. PICK c \in Glyphs : c = item[2] /\ item = <<"%", c>>
    BY ONLY <1>2, item \in Seq(Glyphs)
  <2>2. CASE c = "%"
    <3>1. item = <<"%", "%">>
      BY ONLY <2>1, <2>2
    <3>2. w = <<"%">>
      BY ONLY <1>2, <3>1, w = ItemMeaning(item, tm) DEF ItemMeaning
    <3> QED BY ONLY <3>1, <3>2
  <2>3. CASE c # "%"
    <3>1. item # <<"%", "%">> /\ Len(item) # 1 /\ item[Len(item)] = c
      BY ONLY <1>2, <2>1, <2>3
    <3>2. w = Meaning(c, tm)
      BY ONLY <3>1, w = ItemMeaning(item, tm) DEF ItemMeaning
    <3> QED BY ONLY <1>2, <2>1, <2>3, <3>2
  <2> QED BY <2>2, <2>3
<1>3. CASE /\ Len(item) = 3 /\ item[1] = "%"
           /\ item[2] \in {"O", "E"} /\ item[3] \notin {"O", "E"}
  <2>1. PICK b, c \in Glyphs : b = item[2] /\ c = item[3] /\ item = <<"%", b, c>>
    BY ONLY <1>3, item \in Seq(Glyphs)
  <2>2. item # <<"%", "%">> /\ Len(item) # 1 /\ item[Len(item)] = c
    BY ONLY <1>3, <2>1
  <2>3. w = Meaning(c, tm)
    BY ONLY <2>2, w = ItemMeaning(item, tm) DEF ItemMeaning
  <2> QED BY ONLY <1>3, <2>1, <2>3
<1> QED BY ONLY <1>1, <1>2, <1>3, IsItem(item) DEF IsItem

(* A character, a % and what stands behind it are read, or nothing is when  *)
(* the buffer is full.                                                      *)
LEMMA CharacterRead ==
  ASSUME NEW s \in States, NEW max \in Nat, NEW m \in Seq(Glyphs), Tracks(s, m, max), NEW c \in Glyphs,
         s.full \/ (s.mode = "text" /\ c # "%") \/ (s.mode = "percent" /\ c = "%"),
         NEW d, NEW t, t = Read(s, c, max, d)
  PROVE  Tracks(t, m \o <<c>>, max) /\ (t.full \/ t.mode = "text")
<1>1. CASE s.full
  <2>1. t = s /\ <<c>> \in Seq(Glyphs)
    BY <1>1, ReadFull
  <2> QED BY <1>1, <2>1, FullStays
<1>2. CASE ~ s.full
  BY <1>2, ReadCharacter
<1> QED BY <1>1, <1>2

(* A %, or nothing. *)
LEMMA PercentRead ==
  ASSUME NEW s \in States, NEW max, NEW m, Tracks(s, m, max), s.full \/ s.mode = "text",
         NEW d, NEW t, t = Read(s, "%", max, d)
  PROVE  Tracks(t, m, max) /\ (t.full \/ t.mode = "percent")
<1>1. CASE s.full
  BY <1>1, ReadFull
<1>2. CASE ~ s.full
  BY <1>2, ReadPercent
<1> QED BY <1>1, <1>2

(* An O or an E, or nothing. *)
LEMMA ModifierRead ==
  ASSUME NEW s \in States, NEW max, NEW m, Tracks(s, m, max), s.full \/ s.mode = "percent",
         NEW c \in {"O", "E"}, NEW d, NEW t, t = Read(s, c, max, d)
  PROVE  Tracks(t, m, max) /\ (t.full \/ t.mode = "modified")
<1>1. CASE s.full
  BY <1>1, ReadFull
<1>2. CASE ~ s.full
  BY <1>2, ReadModifier
<1> QED BY <1>1, <1>2

(* The character of a directive, or nothing. *)
LEMMA DirectiveRead ==
  ASSUME NEW s \in States, NEW max \in Nat, NEW m \in Seq(Glyphs), Tracks(s, m, max), NEW c \in Glyphs,
         s.full \/ (s.mode = "percent" /\ c # "%") \/ s.mode = "modified", c \notin {"O", "E"},
         NEW tm, IsTime(tm), NEW t, t = Read(s, c, max, Substituted(s.text, max, c, tm))
  PROVE  Tracks(t, m \o Meaning(c, tm), max) /\ (t.full \/ t.mode = "text")
<1>1. PICK w \in Seq(Glyphs) : w = Meaning(c, tm)
  <2>1. << >> \in Seq(Glyphs) /\ Len(<< >>) < 1
    OBVIOUS
  <2> QED BY <2>1, SubstitutedIs
<1>2. CASE s.full
  BY <1>1, <1>2, ReadFull, FullStays
<1>3. CASE ~ s.full
  <2>1. s.text \in Seq(Glyphs) /\ Len(s.text) < max
    BY <1>3, RoomLeft
  <2>2. IsPut(s.text, w, Substituted(s.text, max, c, tm), max)
    BY <1>1, <2>1, SubstitutedIs
  <2>3. Tracks(t, m \o w, max) /\ t.mode = "text"
    <3>1. (s.mode = "percent" /\ c # "%") \/ s.mode = "modified"
      BY <1>3
    <3>2. PICK d : d = Substituted(s.text, max, c, tm)
      OBVIOUS
    <3>3. IsPut(s.text, w, d, max) /\ t = Read(s, c, max, d)
      BY ONLY <2>2, <3>2, t = Read(s, c, max, Substituted(s.text, max, c, tm))
    <3>4. c \notin {"O", "E"} /\ Tracks(s, m, max)
      OBVIOUS
    <3>5. t = [text |-> d, mode |-> "text", full |-> Len(d) >= max]
      BY ONLY <1>3, <3>1, <3>3, <3>4 DEF Read
    <3>6. Tracks(t, m \o w, max)
      BY ONLY <1>3, <3>3, <3>4, <3>5, s \in States, m \in Seq(Glyphs), w \in Seq(Glyphs), max \in Nat,
         PutTracks
    <3> QED BY ONLY <3>5, <3>6
  <2> QED BY ONLY <1>1, <2>3
<1> QED BY <1>2, <1>3

(* An item stands in a format behind the first characters of it. *)
Stands(item, format, at) ==
  at + Len(item) <= Len(format) /\ \A x \in 1 .. Len(item) : format[at + x] = item[x]

(* No item is open after the first characters, which mean m. *)
Between(g, at, m, max) ==
  Tracks(g[at], m, max) /\ (g[at].full \/ g[at].mode = "text")

(* An item is read as what it means. *)
LEMMA ItemRead ==
  ASSUME NEW format \in Seq(Glyphs), NEW max \in Nat \ {0}, NEW tm, IsTime(tm),
         NEW g, OuterRun(g, format, max, tm),
         NEW item \in Seq(Glyphs), IsItem(item),
         NEW at \in Nat, Stands(item, format, at),
         NEW m \in Seq(Glyphs), Between(g, at, m, max)
  PROVE  Between(g, at + Len(item), m \o ItemMeaning(item, tm), max)
<1>1. PICK t, w : t = g[at + Len(item)] /\ w = ItemMeaning(item, tm)
  OBVIOUS
<1>2. PICK n \in 1 .. 3 : n = Len(item)
  BY DEF IsItem
<1>3. ASSUME NEW x \in 0 .. n - 1, NEW s, s = g[at + x], NEW u, u = g[at + x + 1],
             NEW c, c = item[x + 1]
      PROVE  s \in States /\ u \in States /\ c \in Glyphs
             /\ u = Read(s, c, max, Substituted(s.text, max, c, tm))
  <2>1. PICK y \in Nat : y = at + x
    OBVIOUS
  <2>2. y < Len(format) /\ x + 1 \in 1 .. Len(item) /\ at + (x + 1) = y + 1 /\ at + x + 1 = y + 1
    BY <1>2, <2>1, LenProperties DEF Stands
  <2>3. g[y] \in States /\ g[y + 1] \in States /\ format[y + 1] \in Glyphs
        /\ g[y + 1] = Read(g[y], format[y + 1], max, Substituted(g[y].text, max, format[y + 1], tm))
    BY <2>2, OuterStep
  <2>4. format[y + 1] = c
    BY ONLY <1>3, <2>2, Stands(item, format, at) DEF Stands
  <2>5. s = g[y] /\ u = g[y + 1]
    BY ONLY <1>3, <2>1, <2>2
  <2> QED BY ONLY <2>3, <2>4, <2>5
<1>4. PICK e, f, h, v : e = g[at] /\ f = g[at + 1] /\ h = g[at + 2] /\ v = g[at + 3]
  OBVIOUS
<1>5. Tracks(e, m, max) /\ (e.full \/ e.mode = "text")
  BY ONLY <1>4, Between(g, at, m, max) DEF Between
<1>6. /\ e \in States /\ f \in States /\ item[1] \in Glyphs
      /\ f = Read(e, item[1], max, Substituted(e.text, max, item[1], tm))
  <2>1. 0 \in 0 .. n - 1 /\ at + 0 = at /\ at + 0 + 1 = at + 1 /\ 0 + 1 = 1
    OBVIOUS
  <2>2. /\ g[at + 0] \in States /\ g[at + 0 + 1] \in States /\ item[0 + 1] \in Glyphs
        /\ g[at + 0 + 1] = Read(g[at + 0], item[0 + 1], max, Substituted(g[at + 0].text, max, item[0 + 1], tm))
    BY ONLY <1>3, <2>1
  <2> QED BY ONLY <1>4, <2>1, <2>2
<1>7. n >= 2 => /\ h \in States
                /\ h = Read(f, item[2], max, Substituted(f.text, max, item[2], tm))
  <2> SUFFICES ASSUME n >= 2
               PROVE  h \in States /\ h = Read(f, item[2], max, Substituted(f.text, max, item[2], tm))
    OBVIOUS
  <2>1. 1 \in 0 .. n - 1 /\ at + 1 + 1 = at + 2 /\ 1 + 1 = 2
    OBVIOUS
  <2>2. g[at + 1 + 1] \in States
        /\ g[at + 1 + 1] = Read(g[at + 1], item[1 + 1], max, Substituted(g[at + 1].text, max, item[1 + 1], tm))
    BY ONLY <1>3, <2>1
  <2> QED BY ONLY <1>4, <2>1, <2>2
<1>8. n = 3 => v = Read(h, item[3], max, Substituted(h.text, max, item[3], tm))
  <2> SUFFICES ASSUME n = 3
               PROVE  v = Read(h, item[3], max, Substituted(h.text, max, item[3], tm))
    OBVIOUS
  <2>1. 2 \in 0 .. n - 1 /\ at + 2 + 1 = at + 3 /\ 2 + 1 = 3
    OBVIOUS
  <2>2. g[at + 2 + 1] = Read(g[at + 2], item[2 + 1], max, Substituted(g[at + 2].text, max, item[2 + 1], tm))
    BY ONLY <1>3, <2>1
  <2> QED BY ONLY <1>4, <2>1, <2>2
<1>9. (n = 1 => t = f) /\ (n = 2 => t = h) /\ (n = 3 => t = v)
  BY ONLY <1>1, <1>2, <1>4, n \in 1 .. 3
<1>10. ASSUME NEW c \in Glyphs, item = <<c>> /\ c # "%" /\ w = <<c>>
       PROVE  Tracks(t, m \o w, max) /\ (t.full \/ t.mode = "text")
  <2>1. n = 1 /\ item[1] = c /\ t = f
    BY ONLY <1>2, <1>9, <1>10
  <2>2. f = Read(e, c, max, Substituted(e.text, max, c, tm))
    BY ONLY <1>6, <2>1
  <2>3. Tracks(f, m \o <<c>>, max) /\ (f.full \/ f.mode = "text")
    BY ONLY <1>5, <1>6, <1>10, <2>2, max \in Nat \ {0}, m \in Seq(Glyphs), CharacterRead
  <2> QED BY ONLY <1>10, <2>1, <2>3
<1>11. ASSUME item = <<"%", "%">> /\ w = <<"%">>
       PROVE  Tracks(t, m \o w, max) /\ (t.full \/ t.mode = "text")
  <2>1. n = 2 /\ item[1] = "%" /\ item[2] = "%" /\ t = h
    BY ONLY <1>2, <1>9, <1>11
  <2>2. f = Read(e, "%", max, Substituted(e.text, max, "%", tm)) /\ "%" \in Glyphs
    BY ONLY <1>6, <2>1
  <2>3. Tracks(f, m, max) /\ (f.full \/ f.mode = "percent")
    BY ONLY <1>5, <1>6, <2>2, PercentRead
  <2>4. h = Read(f, "%", max, Substituted(f.text, max, "%", tm))
    BY ONLY <1>7, <2>1
  <2>5. Tracks(h, m \o <<"%">>, max) /\ (h.full \/ h.mode = "text")
    BY ONLY <1>6, <2>2, <2>3, <2>4, max \in Nat \ {0}, m \in Seq(Glyphs), CharacterRead
  <2> QED BY ONLY <1>1, <1>11, <2>1, <2>5
<1>12. ASSUME NEW c \in Glyphs, item = <<"%", c>> /\ c \notin {"%", "O", "E"} /\ w = Meaning(c, tm)
       PROVE  Tracks(t, m \o w, max) /\ (t.full \/ t.mode = "text")
  <2>1. n = 2 /\ item[1] = "%" /\ item[2] = c /\ t = h
    BY ONLY <1>2, <1>9, <1>12
  <2>2. f = Read(e, "%", max, Substituted(e.text, max, "%", tm))
    BY ONLY <1>6, <2>1
  <2>3. Tracks(f, m, max) /\ (f.full \/ f.mode = "percent")
    BY ONLY <1>5, <1>6, <2>2, PercentRead
  <2>4. h = Read(f, c, max, Substituted(f.text, max, c, tm))
    BY ONLY <1>7, <2>1
  <2>5. Tracks(h, m \o Meaning(c, tm), max) /\ (h.full \/ h.mode = "text")
    BY ONLY <1>6, <1>12, <2>3, <2>4, max \in Nat \ {0}, m \in Seq(Glyphs), IsTime(tm), DirectiveRead
  <2> QED BY ONLY <1>12, <2>1, <2>5
<1>13. ASSUME NEW b \in {"O", "E"}, NEW c \in Glyphs,
              item = <<"%", b, c>> /\ c \notin {"O", "E"} /\ w = Meaning(c, tm)
       PROVE  Tracks(t, m \o w, max) /\ (t.full \/ t.mode = "text")
  <2>1. n = 3 /\ item[1] = "%" /\ item[2] = b /\ item[3] = c /\ t = v
    BY ONLY <1>2, <1>9, <1>13
  <2>2. f = Read(e, "%", max, Substituted(e.text, max, "%", tm))
    BY ONLY <1>6, <2>1
  <2>3. Tracks(f, m, max) /\ (f.full \/ f.mode = "percent")
    BY ONLY <1>5, <1>6, <2>2, PercentRead
  <2>4. h \in States /\ h = Read(f, b, max, Substituted(f.text, max, b, tm))
    BY ONLY <1>7, <2>1
  <2>5. Tracks(h, m, max) /\ (h.full \/ h.mode = "modified")
    BY ONLY <1>6, <2>3, <2>4, b \in {"O", "E"}, ModifierRead
  <2>6. v = Read(h, c, max, Substituted(h.text, max, c, tm))
    BY ONLY <1>8, <2>1
  <2>7. Tracks(v, m \o Meaning(c, tm), max) /\ (v.full \/ v.mode = "text")
    BY ONLY <1>13, <2>4, <2>5, <2>6, max \in Nat \ {0}, m \in Seq(Glyphs), IsTime(tm), DirectiveRead
  <2> QED BY ONLY <1>13, <2>1, <2>7
<1> DEFINE One == \E c \in Glyphs : item = <<c>> /\ c # "%" /\ w = <<c>>
           Two == \E c \in Glyphs : item = <<"%", c>> /\ c \notin {"%", "O", "E"} /\ w = Meaning(c, tm)
           Three == \E b \in {"O", "E"}, c \in Glyphs :
                      item = <<"%", b, c>> /\ c \notin {"O", "E"} /\ w = Meaning(c, tm)
<1>14. One \/ (item = <<"%", "%">> /\ w = <<"%">>) \/ Two \/ Three
  BY ONLY <1>1, item \in Seq(Glyphs), IsItem(item), ItemIs
<1>15. (One \/ Two \/ Three) => Tracks(t, m \o w, max) /\ (t.full \/ t.mode = "text")
  BY ONLY <1>10, <1>12, <1>13
<1> HIDE DEF One, Two, Three
<1>16. Tracks(t, m \o w, max) /\ (t.full \/ t.mode = "text")
  BY ONLY <1>11, <1>14, <1>15
<1> QED BY ONLY <1>1, <1>16 DEF Between

(* What was joined so far is the beginning of it all. *)
Begins(v, u) == Len(u) <= Len(v) /\ \A y \in 1 .. Len(u) : v[y] = u[y]

(* The beginning of two sequences in a row is the first of them. *)
LEMMA JoinPrefix ==
  ASSUME NEW G, NEW seqs \in Seq(Seq(G)), NEW n, n = Len(seqs), NEW g, IsJoin(g, G, seqs, n)
  PROVE  \A x \in 0 .. n : Begins(g[n], g[x])
<1>1. n \in Nat /\ \A x \in 1 .. n : seqs[x] \in Seq(G)
  BY LenProperties
<1> DEFINE So == {z \in 0 .. n : Begins(g[n], g[n - z])}
<1>2. 0 \in So
  <2>1. n - 0 = n /\ 0 \in 0 .. n /\ n \in 0 .. n
    BY <1>1
  <2>2. g[n] \in Seq(G)
    BY ONLY <2>1, IsJoin(g, G, seqs, n) DEF IsJoin
  <2>3. Len(g[n]) <= Len(g[n])
    BY <2>2, LenProperties
  <2> QED BY ONLY <2>1, <2>3 DEF Begins
<1>3. ASSUME NEW z \in 1 .. n, z - 1 \in So PROVE z \in So
  <2>1. PICK x \in 1 .. n, y \in 0 .. n : x = n - (z - 1) /\ y = n - z /\ x - 1 = y
    <3>1. n - (z - 1) \in 1 .. n /\ n - z \in 0 .. n /\ (n - (z - 1)) - 1 = n - z
      BY <1>1
    <3> QED BY ONLY <3>1
  <2>2. PICK u, v, w \in Seq(G) : u = g[y] /\ v = g[x] /\ w = seqs[x] /\ v = u \o w
    <3>1. g[y] \in Seq(G) /\ g[x] \in Seq(G) /\ g[x] = g[y] \o seqs[x]
      <4>1. x \in 0 .. n
        OBVIOUS
      <4> QED BY ONLY <2>1, <4>1, IsJoin(g, G, seqs, n), x \in 1 .. n, y \in 0 .. n DEF IsJoin
    <3> QED BY ONLY <1>1, <3>1, x \in 1 .. n
  <2>3. PICK lu, lw \in Nat : lu = Len(u) /\ lw = Len(w)
    BY LenProperties
  <2>4. Len(v) = lu + lw /\ \A e \in 1 .. lu : e \in 1 .. lu + lw /\ v[e] = u[e]
    <3>1. /\ Len(u \o w) = lu + lw
          /\ \A e \in 1 .. lu + lw : (u \o w)[e] = IF e <= lu THEN u[e] ELSE w[e - lu]
      BY ONLY <2>3, u \in Seq(G), w \in Seq(G), ConcatProperties
    <3>2. \A e \in 1 .. lu : e \in 1 .. lu + lw /\ e <= lu
      OBVIOUS
    <3> QED BY ONLY <2>2, <3>1, <3>2
  <2>5. Begins(g[n], g[x])
    BY ONLY <1>3, <2>1
  <2>6. PICK f : f = g[n]
    OBVIOUS
  <2>7. lu + lw <= Len(f) /\ \A e \in 1 .. lu + lw : f[e] = v[e]
    BY ONLY <2>2, <2>4, <2>5, <2>6 DEF Begins
  <2>8. Len(f) \in Nat
    <3>1. f \in Seq(G)
      <4>1. n \in 0 .. n
        BY <1>1
      <4> QED BY ONLY <2>6, <4>1, IsJoin(g, G, seqs, n) DEF IsJoin
    <3> QED BY <3>1, LenProperties
  <2>9. lu <= Len(f) /\ \A e \in 1 .. lu : f[e] = u[e]
    BY ONLY <2>4, <2>7, <2>8, lu \in Nat, lw \in Nat
  <2>10. Begins(g[n], g[n - z])
    BY ONLY <2>1, <2>2, <2>3, <2>6, <2>9 DEF Begins
  <2>11. z \in 0 .. n
    OBVIOUS
  <2> QED BY ONLY <2>10, <2>11
<1>4. \A z \in 0 .. n : z \in So
  <2> HIDE DEF So
  <2> QED BY ONLY <1>1, <1>2, <1>3, UpTo
<1>5. ASSUME NEW x \in 0 .. n PROVE Begins(g[n], g[x])
  <2>1. PICK z \in 0 .. n : z = n - x /\ n - z = x
    <3>1. n - x \in 0 .. n /\ n - (n - x) = x
      BY <1>1
    <3> QED BY ONLY <3>1
  <2>2. Begins(g[n], g[n - z])
    BY ONLY <1>4
  <2> QED BY ONLY <2>1, <2>2
<1> QED BY ONLY <1>5

(* A format is read as what its items mean. *)
LEMMA FormatRead ==
  ASSUME NEW items \in Seq(Seq(Glyphs)), \A x \in 1 .. Len(items) : IsItem(items[x]),
         NEW tm, IsTime(tm), NEW max \in Nat \ {0}
  PROVE  \E s \in States, m \in Seq(Glyphs) :
           /\ m = Sequences_!FlattenSeq([n \in 1 .. Len(items) |-> ItemMeaning(items[n], tm)])
           /\ Tracks(s, m, max) /\ OuterText(Format(items), max, tm) = s.text
<1>1. PICK n \in Nat : n = Len(items) /\ \A x \in 1 .. n : items[x] \in Seq(Glyphs)
  BY LenProperties
<1>2. PICK H : IsJoin(H, Glyphs, items, n) /\ Sequences_!FlattenSeq(items) = H[n]
  BY <1>1, FlattenIs
<1>3. PICK f \in Seq(Glyphs) : f = H[n] /\ f = Format(items)
  <2>1. n \in 0 .. n
    OBVIOUS
  <2> QED BY ONLY <1>2, <2>1 DEF IsJoin, Format
<1>4. PICK M : M = [x \in 1 .. n |-> ItemMeaning(items[x], tm)]
  OBVIOUS
<1>5. M \in Seq(Seq(Glyphs)) /\ Len(M) = n
  <2>1. \A x \in 1 .. n : ItemMeaning(items[x], tm) \in Seq(Glyphs)
    BY <1>1, ItemTyped
  <2>2. PICK T : T = Seq(Glyphs)
    OBVIOUS
  <2>3. M \in [1 .. n -> T]
    BY ONLY <1>4, <2>1, <2>2
  <2>4. M \in Seq(T) /\ Len(M) = n
    BY ONLY <2>3, n \in Nat
  <2> QED BY ONLY <2>2, <2>4
<1>6. PICK J : IsJoin(J, Glyphs, M, n) /\ Sequences_!FlattenSeq(M) = J[n]
  BY <1>5, FlattenIs
<1>7. PICK g : OuterRun(g, f, max, tm) /\ OuterText(f, max, tm) = g[Len(f)].text
  BY OuterRunExists
<1> DEFINE So == {x \in 0 .. n : Between(g, Len(H[x]), J[x], max)}
<1>8. 0 \in So
  <2>1. Len(H[0]) = 0 /\ J[0] = << >>
    BY ONLY <1>2, <1>6, Len(<< >>) = 0 DEF IsJoin
  <2>2. g[0] = NoText
    BY ONLY <1>7 DEF OuterRun
  <2>3. 0 \in 0 .. n
    OBVIOUS
  <2>4. Tracks(NoText, << >>, max) /\ NoText.mode = "text"
    BY NothingRead
  <2>5. Between(g, 0, << >>, max)
    BY ONLY <2>2, <2>4 DEF Between
  <2> QED BY ONLY <2>1, <2>3, <2>5
<1>9. ASSUME NEW x \in 1 .. n, x - 1 \in So PROVE x \in So
  <2>1. PICK y \in 0 .. n : y = x - 1
    OBVIOUS
  <2>2. x \in 0 .. n
    OBVIOUS
  <2>3. PICK item \in Seq(Glyphs) : item = items[x] /\ IsItem(item)
    BY ONLY <1>1, x \in 1 .. n, \A z \in 1 .. Len(items) : IsItem(items[z])
  <2>4. PICK u, v, m \in Seq(Glyphs) : u = H[y] /\ v = H[x] /\ m = J[y] /\ v = u \o item
    BY ONLY <1>2, <1>6, <2>1, <2>2, <2>3, x \in 1 .. n, y \in 0 .. n DEF IsJoin
  <2>5. PICK at, size \in Nat : at = Len(u) /\ size = Len(item)
    BY LenProperties
  <2>6. Len(v) = at + size /\ \A z \in 1 .. size : v[at + z] = item[z]
    <3>1. Len(v) = at + size
          /\ \A e \in 1 .. at + size : v[e] = IF e <= at THEN u[e] ELSE item[e - at]
      BY ONLY <2>4, <2>5, u \in Seq(Glyphs), item \in Seq(Glyphs), ConcatProperties
    <3>2. \A z \in 1 .. size : at + z \in 1 .. at + size /\ ~ (at + z <= at) /\ (at + z) - at = z
      OBVIOUS
    <3> QED BY ONLY <3>1, <3>2
  <2>7. Len(v) <= Len(f) /\ \A z \in 1 .. Len(v) : f[z] = v[z]
    <3>1. \A z \in 0 .. n : Begins(H[n], H[z])
      BY ONLY <1>1, <1>2, items \in Seq(Seq(Glyphs)), JoinPrefix
    <3> QED BY ONLY <1>3, <2>2, <2>4, <3>1 DEF Begins
  <2>8. \A z \in 1 .. size : f[at + z] = item[z]
    <3>1. \A z \in 1 .. size : at + z \in 1 .. at + size
      OBVIOUS
    <3> QED BY ONLY <2>6, <2>7, <3>1
  <2>9. Between(g, at, m, max)
    BY ONLY <1>9, <2>1, <2>4, <2>5
  <2>10. Between(g, at + Len(item), m \o ItemMeaning(item, tm), max)
    <3>1. Stands(item, f, at)
      BY ONLY <2>5, <2>6, <2>7, <2>8 DEF Stands
    <3>2. IsItem(item) /\ OuterRun(g, f, max, tm)
      BY ONLY <1>7, <2>3
    <3> QED BY ONLY <2>9, <3>1, <3>2, f \in Seq(Glyphs), max \in Nat \ {0}, IsTime(tm),
          item \in Seq(Glyphs), at \in Nat, m \in Seq(Glyphs), ItemRead
  <2>11. J[x] = m \o ItemMeaning(item, tm)
    BY ONLY <1>4, <1>6, <2>1, <2>3, <2>4, x \in 1 .. n DEF IsJoin
  <2>12. Len(H[x]) = at + Len(item)
    BY ONLY <2>4, <2>5, <2>6
  <2> QED BY ONLY <2>2, <2>10, <2>11, <2>12
<1>10. n \in So
  <2>1. n \in 0 .. n
    OBVIOUS
  <2> HIDE DEF So
  <2> QED BY ONLY <1>8, <1>9, <2>1, n \in Nat, UpTo
<1>11. PICK s \in States, m \in Seq(Glyphs) : s = g[Len(f)] /\ m = J[n]
  <2>1. n \in 0 .. n /\ Len(f) \in 0 .. Len(f)
    BY LenProperties
  <2> QED BY ONLY <1>6, <1>7, <2>1 DEF IsJoin, OuterRun
<1>12. Tracks(s, m, max)
  BY ONLY <1>3, <1>10, <1>11 DEF Between
<1>13. m = Sequences_!FlattenSeq([x \in 1 .. Len(items) |-> ItemMeaning(items[x], tm)])
  BY ONLY <1>1, <1>4, <1>6, <1>11
<1>14. OuterText(Format(items), max, tm) = s.text
  BY ONLY <1>3, <1>7, <1>11
<1> QED BY ONLY <1>12, <1>13, <1>14, s \in States, m \in Seq(Glyphs)

-----------------------------------------------------------------------------
(* Where the code agrees with the standard. *)

(* Two digits of a number below 100. *)
LEMMA DigitsAre ==
  ASSUME NEW x \in 0 .. 99
  PROVE  InDigits(x, 2) = i2a(x) /\ BlankPadded(x) = i2a_blank(x)
<1>1. PICK u, v : u = <<"digit", x \div 10>> /\ v = <<"digit", x % 10>>
  OBVIOUS
<1>2. InDigits(x, 2) = <<u, v>>
  <2>1. PICK f : f = InDigits(x, 2)
    OBVIOUS
  <2>2. f = [y \in 1 .. 2 |-> <<"digit", (x \div Units[2 - y + 1]) % 10>>]
    BY ONLY <2>1 DEF InDigits
  <2>3. f[1] = <<"digit", (x \div Units[2]) % 10>> /\ f[2] = <<"digit", (x \div Units[1]) % 10>>
    <3>1. 1 \in 1 .. 2 /\ 2 \in 1 .. 2 /\ 2 - 1 + 1 = 2 /\ 2 - 2 + 1 = 1
      OBVIOUS
    <3> QED BY ONLY <2>2, <3>1
  <2>4. (x \div Units[2]) % 10 = x \div 10 /\ (x \div Units[1]) % 10 = x % 10
    <3>1. Units[2] = 10 /\ Units[1] = 1
      BY DEF Units
    <3>2. (x \div 10) % 10 = x \div 10 /\ (x \div 1) % 10 = x % 10
      OBVIOUS
    <3> QED BY ONLY <3>1, <3>2
  <2>5. f[1] = u /\ f[2] = v
    BY ONLY <1>1, <2>3, <2>4
  <2> QED BY ONLY <2>1, <2>2, <2>5
<1>3. i2a(x) = <<u, v>>
  BY ONLY <1>1 DEF i2a
<1>4. BlankPadded(x) = IF x < 10 THEN <<SPACE, v>> ELSE <<u, v>>
  BY ONLY <1>2 DEF BlankPadded
<1>5. i2a_blank(x) = IF x < 10 THEN <<SPACE, v>> ELSE <<u, v>>
  BY ONLY <1>1, <1>3 DEF i2a_blank
<1> QED BY ONLY <1>2, <1>3, <1>4, <1>5

(* Four digits are two times two. *)
LEMMA YearIs ==
  ASSUME NEW tm, IsTime(tm)
  PROVE  /\ InDigits(Year(tm), 4) = i2a((tm.year \div 100) + 19) \o i2a(tm.year % 100)
         /\ InDigits(Year(tm) \div 100, 2) = i2a((tm.year \div 100) + 19)
         /\ InDigits(Year(tm) % 100, 2) = i2a(tm.year % 100)
<1>0. PICK Y, c, d : Y = Year(tm) /\ c = (tm.year \div 100) + 19 /\ d = tm.year % 100
  OBVIOUS
<1> SUFFICES /\ InDigits(Y, 4) = i2a(c) \o i2a(d)
             /\ InDigits(Y \div 100, 2) = i2a(c) /\ InDigits(Y % 100, 2) = i2a(d)
  BY <1>0, Zenon
<1>1. c \in 0 .. 99 /\ d \in 0 .. 99 /\ Y = 100 * c + d /\ Y \in Nat
  <2>1. PICK y \in 0 .. 8099 : y = tm.year
    BY DateIs
  <2>2. Y = 1900 + y /\ c = (y \div 100) + 19 /\ d = y % 100
    BY ONLY <1>0, <2>1 DEF Year
  <2> QED BY ONLY <2>2, y \in 0 .. 8099
<1>2. Y \div 100 = c /\ Y % 100 = d
  BY ONLY <1>1
<1>3. PICK c1, c0, d1, d0 : c1 = c \div 10 /\ c0 = c % 10 /\ d1 = d \div 10 /\ d0 = d % 10
  OBVIOUS
<1>4. /\ c1 \in 0 .. 9 /\ c0 \in 0 .. 9 /\ d1 \in 0 .. 9 /\ d0 \in 0 .. 9
      /\ c = 10 * c1 + c0 /\ d = 10 * d1 + d0
      /\ Y = 1000 * c1 + 100 * c0 + 10 * d1 + d0
  <2>1. c1 \in 0 .. 9 /\ c0 \in 0 .. 9 /\ c = 10 * c1 + c0
    BY ONLY <1>1, <1>3
  <2>2. d1 \in 0 .. 9 /\ d0 \in 0 .. 9 /\ d = 10 * d1 + d0
    BY ONLY <1>1, <1>3
  <2> QED BY ONLY <1>1, <2>1, <2>2
<1>5. /\ Y \div 1000 = c1 /\ Y \div 100 = 10 * c1 + c0
      /\ Y \div 10 = 100 * c1 + 10 * c0 + d1 /\ Y \div 1 = Y
  BY ONLY <1>1, <1>4
<1>6. /\ (Y \div 1000) % 10 = c1 /\ (Y \div 100) % 10 = c0
      /\ (Y \div 10) % 10 = d1 /\ (Y \div 1) % 10 = d0
  BY ONLY <1>4, <1>5
<1>7. PICK u1, u0 : u1 = <<"digit", c1>> /\ u0 = <<"digit", c0>>
  OBVIOUS
<1> PICK v1, v0 : v1 = <<"digit", d1>> /\ v0 = <<"digit", d0>>
  OBVIOUS
<1>8. i2a(c) = <<u1, u0>> /\ i2a(d) = <<v1, v0>>
  BY ONLY <1>3, <1>7, v1 = <<"digit", d1>>, v0 = <<"digit", d0>> DEF i2a
<1>9. PICK s, t \in Seq(Glyphs) : s = i2a(c) /\ t = i2a(d)
  <2>1. c \in Int /\ d \in Int
    BY ONLY <1>1
  <2>2. i2a(c) \in Seq(Glyphs) /\ i2a(d) \in Seq(Glyphs)
    BY ONLY <2>1, NumberIs
  <2> QED BY ONLY <2>2
<1>10. PICK b : b = s \o t
  OBVIOUS
<1>12. b \in Seq(Glyphs) /\ Len(b) = 4 /\ b[1] = u1 /\ b[2] = u0 /\ b[3] = v1 /\ b[4] = v0
  <2>1. Len(s) = 2 /\ Len(t) = 2 /\ s[1] = u1 /\ s[2] = u0 /\ t[1] = v1 /\ t[2] = v0
    BY ONLY <1>8, <1>9
  <2>2. b \in Seq(Glyphs) /\ Len(b) = 4
        /\ \A x \in 1 .. 4 : b[x] = IF x <= 2 THEN s[x] ELSE t[x - 2]
    BY ONLY <1>10, <2>1, s \in Seq(Glyphs), t \in Seq(Glyphs), ConcatProperties
  <2>3. b[1] = s[1] /\ b[2] = s[2] /\ b[3] = t[1] /\ b[4] = t[2]
    BY ONLY <2>2
  <2> QED BY ONLY <2>1, <2>2, <2>3
<1>13. InDigits(Y, 4) = b
  <2>1. PICK f : f = InDigits(Y, 4)
    OBVIOUS
  <2>2. f = [x \in 1 .. 4 |-> <<"digit", (Y \div Units[4 - x + 1]) % 10>>]
    BY ONLY <2>1 DEF InDigits
  <2>3. /\ f[1] = <<"digit", (Y \div Units[4]) % 10>> /\ f[2] = <<"digit", (Y \div Units[3]) % 10>>
        /\ f[3] = <<"digit", (Y \div Units[2]) % 10>> /\ f[4] = <<"digit", (Y \div Units[1]) % 10>>
    <3>1. /\ 1 \in 1 .. 4 /\ 2 \in 1 .. 4 /\ 3 \in 1 .. 4 /\ 4 \in 1 .. 4
          /\ 4 - 1 + 1 = 4 /\ 4 - 2 + 1 = 3 /\ 4 - 3 + 1 = 2 /\ 4 - 4 + 1 = 1
      OBVIOUS
    <3> QED BY ONLY <2>2, <3>1
  <2>4. Units[4] = 1000 /\ Units[3] = 100 /\ Units[2] = 10 /\ Units[1] = 1
    BY DEF Units
  <2>5. f[1] = b[1] /\ f[2] = b[2] /\ f[3] = b[3] /\ f[4] = b[4]
    BY ONLY <1>6, <1>7, <1>12, <2>3, <2>4, v1 = <<"digit", d1>>, v0 = <<"digit", d0>>
  <2>6. \A x \in 1 .. 4 : f[x] = b[x]
    BY ONLY <2>5
  <2>7. b = [x \in 1 .. 4 |-> b[x]]
    BY ONLY <1>12
  <2>8. f = [x \in 1 .. 4 |-> f[x]]
    BY ONLY <2>2
  <2> QED BY ONLY <2>1, <2>6, <2>7, <2>8
<1>11. InDigits(c, 2) = i2a(c) /\ InDigits(d, 2) = i2a(d)
  BY <1>1, DigitsAre
<1> QED BY ONLY <1>2, <1>9, <1>10, <1>11, <1>13

(* Where a directive on the 12-hour clock is not known to depart. *)
Usual(c, tm) ==
  /\ c \in {"I", "l"} => tm.hour % 12 # 0
  /\ c \in {"p", "P"} => tm.hour # 12

(* The numbers in the code are those of the standard. *)
LEMMA NumbersStandard ==
  ASSUME NEW tm, IsTime(tm)
  PROVE  /\ InDigits(Year(tm), 4) = i2a((tm.year \div 100) + 19) \o i2a(tm.year % 100)
         /\ InDigits(Year(tm) \div 100, 2) = i2a((tm.year \div 100) + 19)
         /\ InDigits(Year(tm) % 100, 2) = i2a(tm.year % 100)
         /\ InDigits(tm.mday, 2) = i2a(tm.mday) /\ BlankPadded(tm.mday) = i2a_blank(tm.mday)
         /\ InDigits(tm.hour, 2) = i2a(tm.hour) /\ BlankPadded(tm.hour) = i2a_blank(tm.hour)
         /\ InDigits(tm.mon + 1, 2) = i2a(tm.mon + 1) /\ InDigits(tm.min, 2) = i2a(tm.min)
         /\ InDigits(tm.sec, 2) = i2a(tm.sec)
         /\ InDigits(Cardinality(DaysUpTo(tm, 0)), 2) = i2a(WeekOfSundays(tm))
         /\ InDigits(Cardinality(DaysUpTo(tm, 1)), 2) = i2a(WeekOfMondays(tm))
         /\ tm.hour % 12 # 0 =>
              /\ InDigits(Hour12(tm), 2) = i2a(tm.hour % 12)
              /\ BlankPadded(Hour12(tm)) = i2a_blank(tm.hour % 12)
<1> PICK yd \in 0 .. 365, wd \in 0 .. 6 : yd = tm.yday /\ wd = tm.wday
  BY DateIs
<1> PICK mo \in 0 .. 11, md \in 0 .. 99 : mo = tm.mon /\ md = tm.mday
  BY DateIs
<1> PICK ho \in 0 .. 23, mi \in 0 .. 99 : ho = tm.hour /\ mi = tm.min
  BY DateIs
<1> PICK se \in 0 .. 99 : se = tm.sec
  BY DateIs
<1>1. /\ yd = tm.yday /\ wd = tm.wday /\ mo = tm.mon /\ md = tm.mday /\ ho = tm.hour
      /\ mi = tm.min /\ se = tm.sec
  OBVIOUS
<1>2. \A x \in 0 .. 99 : InDigits(x, 2) = i2a(x) /\ BlankPadded(x) = i2a_blank(x)
  BY DigitsAre
<1>3. /\ InDigits(Year(tm), 4) = i2a((tm.year \div 100) + 19) \o i2a(tm.year % 100)
      /\ InDigits(Year(tm) \div 100, 2) = i2a((tm.year \div 100) + 19)
      /\ InDigits(Year(tm) % 100, 2) = i2a(tm.year % 100)
  BY YearIs
<1>4. ho \in 0 .. 99 /\ mo + 1 \in 0 .. 99 /\ ho % 12 \in 0 .. 99
  OBVIOUS
<1>5. WeekOfSundays(tm) \in 0 .. 99 /\ WeekOfMondays(tm) \in 0 .. 99
  <2>1. PICK wm \in 0 .. 6 : wm = (wd + 6) % 7
    BY ONLY wd \in 0 .. 6
  <2>2. (yd - wd + 7) \div 7 \in 0 .. 99 /\ (yd - wm + 7) \div 7 \in 0 .. 99
    BY ONLY yd \in 0 .. 365, wd \in 0 .. 6, wm \in 0 .. 6
  <2> QED BY ONLY <1>1, <2>1, <2>2 DEF WeekOfSundays, WeekOfMondays
<1>6. /\ Cardinality(DaysUpTo(tm, 0)) = WeekOfSundays(tm)
      /\ Cardinality(DaysUpTo(tm, 1)) = WeekOfMondays(tm)
  BY WeeksAre
<1>7. tm.hour % 12 # 0 => Hour12(tm) = ho % 12
  BY ONLY <1>1 DEF Hour12
<1>8. /\ InDigits(md, 2) = i2a(md) /\ BlankPadded(md) = i2a_blank(md)
      /\ InDigits(ho, 2) = i2a(ho) /\ BlankPadded(ho) = i2a_blank(ho)
      /\ InDigits(mo + 1, 2) = i2a(mo + 1) /\ InDigits(mi, 2) = i2a(mi)
      /\ InDigits(se, 2) = i2a(se)
      /\ InDigits(ho % 12, 2) = i2a(ho % 12) /\ BlankPadded(ho % 12) = i2a_blank(ho % 12)
  BY ONLY <1>2, <1>4, md \in 0 .. 99, mi \in 0 .. 99, se \in 0 .. 99
<1>9. /\ InDigits(Cardinality(DaysUpTo(tm, 0)), 2) = i2a(WeekOfSundays(tm))
      /\ InDigits(Cardinality(DaysUpTo(tm, 1)), 2) = i2a(WeekOfMondays(tm))
  BY ONLY <1>2, <1>5, <1>6
<1> QED BY ONLY <1>1, <1>3, <1>7, <1>8, <1>9

(* So are the names and the numbers that single directives stand for. *)
LEMMA SimpleStandard ==
  ASSUME NEW tm, IsTime(tm), NEW c \in Simples, Usual(c, tm)
  PROVE  Simple(c, tm) = Standard(c, tm)
<1>1. CASE c \in {"n", "t", "A", "B"}
  BY ONLY <1>1 DEF Simple, Standard
<1>2. CASE c \in {"a", "b", "h"}
  <2>1. PICK wd \in 0 .. 6, mo \in 0 .. 11 : wd = tm.wday /\ mo = tm.mon
    BY DateIs
  <2>2. sweekdays[tm.wday] = 3 /\ smonths[tm.mon] = 3
    BY ONLY <2>1, wd \in 0 .. 6, mo \in 0 .. 11 DEF sweekdays, smonths
  <2> QED BY ONLY <1>2, <2>2 DEF Simple, Standard
<1>3. CASE c \in {"p", "P"}
  <2>1. PICK ho \in 0 .. 23 : ho = tm.hour /\ ho # 12
    BY <1>3, DateIs DEF Usual
  <2>2. (ho > 12) = (ho >= 12)
    BY <2>1
  <2> QED BY ONLY <1>3, <2>1, <2>2 DEF Simple, Standard
<1>4. CASE c \in {"C", "y", "Y"}
  <2>1. /\ InDigits(Year(tm), 4) = i2a((tm.year \div 100) + 19) \o i2a(tm.year % 100)
        /\ InDigits(Year(tm) \div 100, 2) = i2a((tm.year \div 100) + 19)
        /\ InDigits(Year(tm) % 100, 2) = i2a(tm.year % 100)
    BY NumbersStandard
  <2> QED BY ONLY <1>4, <2>1 DEF Simple, Standard
<1>5. CASE c \in {"d", "e", "H", "k", "m", "M", "S"}
  <2>1. /\ InDigits(tm.mday, 2) = i2a(tm.mday) /\ BlankPadded(tm.mday) = i2a_blank(tm.mday)
        /\ InDigits(tm.hour, 2) = i2a(tm.hour) /\ BlankPadded(tm.hour) = i2a_blank(tm.hour)
        /\ InDigits(tm.mon + 1, 2) = i2a(tm.mon + 1) /\ InDigits(tm.min, 2) = i2a(tm.min)
        /\ InDigits(tm.sec, 2) = i2a(tm.sec)
    BY NumbersStandard
  <2> QED BY ONLY <1>5, <2>1 DEF Simple, Standard
<1>6. CASE c \in {"I", "l"}
  <2>1. tm.hour % 12 # 0
    BY ONLY <1>6, Usual(c, tm) DEF Usual
  <2>2. /\ InDigits(Hour12(tm), 2) = i2a(tm.hour % 12)
        /\ BlankPadded(Hour12(tm)) = i2a_blank(tm.hour % 12)
    BY <2>1, NumbersStandard
  <2> QED BY ONLY <1>6, <2>2 DEF Simple, Standard
<1>7. CASE c \in {"U", "W"}
  <2>1. /\ InDigits(Cardinality(DaysUpTo(tm, 0)), 2) = i2a(WeekOfSundays(tm))
        /\ InDigits(Cardinality(DaysUpTo(tm, 1)), 2) = i2a(WeekOfMondays(tm))
    BY NumbersStandard
  <2> QED BY ONLY <1>7, <2>1 DEF Simple, Standard
<1> QED BY ONLY <1>1, <1>2, <1>3, <1>4, <1>5, <1>6, <1>7, c \in Simples DEF Simples

(* The piece of a format at one place, for the code and for the standard. *)
PieceAt(f, y, tm) ==
  IF f[y] = "%" THEN << >>
  ELSE IF y > 1 /\ f[y - 1] = "%" THEN Simple(f[y], tm) ELSE <<f[y]>>
StandardAt(f, y, tm) ==
  IF f[y] = "%" THEN << >>
  ELSE IF y > 1 /\ f[y - 1] = "%" THEN Standard(f[y], tm) ELSE <<f[y]>>

(* Formats that agree at each place are written alike. *)
LEMMA PiecesAgree ==
  ASSUME NEW f, NEW e, NEW tm, NEW n, n = Len(f), n = Len(e),
         \A y \in 1 .. n : PieceAt(f, y, tm) = StandardAt(e, y, tm)
  PROVE  Pieces(f, tm) = InFull(e, tm)
<1>1. Pieces(f, tm) = [y \in 1 .. n |-> PieceAt(f, y, tm)]
  BY ONLY n = Len(f) DEF Pieces, PieceAt
<1>2. InFull(e, tm) = [y \in 1 .. n |-> StandardAt(e, y, tm)]
  BY ONLY n = Len(e) DEF InFull, StandardAt
<1> QED BY ONLY <1>1, <1>2, \A y \in 1 .. n : PieceAt(f, y, tm) = StandardAt(e, y, tm)

(* A format whose directives the code writes as the standard says. *)
LEMMA SameFormat ==
  ASSUME NEW f, NEW tm, NEW n, n = Len(f),
         \A y \in 1 .. n : y > 1 /\ f[y - 1] = "%" => f[y] = "%" \/ Simple(f[y], tm) = Standard(f[y], tm)
  PROVE  Pieces(f, tm) = InFull(f, tm)
<1>1. ASSUME NEW y \in 1 .. n PROVE PieceAt(f, y, tm) = StandardAt(f, y, tm)
  BY DEF PieceAt, StandardAt
<1> QED BY ONLY <1>1, n = Len(f), PiecesAgree

(* The formats that directives stand for are the standard's. *)
LEMMA CompositeStandard ==
  ASSUME NEW tm, IsTime(tm), NEW c \in DOMAIN Equivalent,
         c = "r" => tm.hour % 12 # 0, c = "X" => tm.hour >= 10
  PROVE  Meaning(c, tm) = Sequences_!FlattenSeq(InFull(Equivalent[c], tm))
<1>1. c \in {"r", "R", "X", "D", "F", "T"}
  BY DEF Equivalent
<1>2. Meaning(c, tm) = Sequences_!FlattenSeq(Pieces(Composite[c], tm))
  <2>1. c \in DOMAIN Composite /\ c # "U" /\ c # "W"
    BY ONLY <1>1 DEF Composite
  <2> QED BY ONLY <2>1 DEF Meaning
<1>3. \A y \in {"H", "M", "S", "m", "d", "y", "Y"} : Simple(y, tm) = Standard(y, tm)
  <2>1. \A y \in {"H", "M", "S", "m", "d", "y", "Y"} : y \in Simples /\ Usual(y, tm)
    BY DEF Simples, Usual
  <2> QED BY <2>1, SimpleStandard
<1>4. CASE c = "r"
  <2>1. \A y \in {"I", "M", "S", "p"} : Simple(y, tm) = Standard(y, tm)
    <3>1. PICK ho \in 0 .. 23 : ho = tm.hour
      BY DateIs
    <3>2. tm.hour # 12
      <4>1. ho % 12 # 0
        BY ONLY <1>4, <3>1, c = "r" => tm.hour % 12 # 0
      <4> QED BY <3>1, <4>1
    <3>3. \A y \in {"I", "p"} : y \in Simples /\ Usual(y, tm)
      BY ONLY <1>4, <3>2, c = "r" => tm.hour % 12 # 0 DEF Simples, Usual
    <3>4. \A y \in {"I", "p"} : Simple(y, tm) = Standard(y, tm)
      BY <3>3, SimpleStandard
    <3> QED BY ONLY <1>3, <3>4
  <2>2. PICK f : f = <<"%", "I", ":", "%", "M", ":", "%", "S", SPACE, "%", "p">>
    OBVIOUS
  <2>3. Composite[c] = f /\ Equivalent[c] = f
    BY ONLY <1>4, <2>2 DEF Composite, Equivalent
  <2>4. Len(f) = 11 /\ \A y \in 1 .. 11 : y > 1 /\ f[y - 1] = "%" => f[y] \in {"I", "M", "S", "p"}
    BY ONLY <2>2, SpaceIs
  <2>5. Pieces(f, tm) = InFull(f, tm)
    BY ONLY <2>1, <2>4, SameFormat
  <2> QED BY ONLY <1>2, <2>3, <2>5
<1>5. CASE c = "R"
  <2>1. PICK f : f = <<"%", "H", ":", "%", "M">>
    OBVIOUS
  <2>2. Composite[c] = f /\ Equivalent[c] = f
    BY ONLY <1>5, <2>1 DEF Composite, Equivalent
  <2>3. Len(f) = 5 /\ \A y \in 1 .. 5 : y > 1 /\ f[y - 1] = "%" => f[y] \in {"H", "M"}
    BY ONLY <2>1
  <2>4. Pieces(f, tm) = InFull(f, tm)
    BY ONLY <1>3, <2>3, SameFormat
  <2> QED BY ONLY <1>2, <2>2, <2>4
<1>6. CASE c = "D"
  <2>1. PICK f : f = <<"%", "m", "/", "%", "d", "/", "%", "y">>
    OBVIOUS
  <2>2. Composite[c] = f /\ Equivalent[c] = f
    BY ONLY <1>6, <2>1 DEF Composite, Equivalent
  <2>3. Len(f) = 8 /\ \A y \in 1 .. 8 : y > 1 /\ f[y - 1] = "%" => f[y] \in {"m", "d", "y"}
    BY ONLY <2>1
  <2>4. Pieces(f, tm) = InFull(f, tm)
    BY ONLY <1>3, <2>3, SameFormat
  <2> QED BY ONLY <1>2, <2>2, <2>4
<1>7. CASE c = "F"
  <2>1. PICK f : f = <<"%", "Y", "-", "%", "m", "-", "%", "d">>
    OBVIOUS
  <2>2. Composite[c] = f /\ Equivalent[c] = f
    BY ONLY <1>7, <2>1 DEF Composite, Equivalent
  <2>3. Len(f) = 8 /\ \A y \in 1 .. 8 : y > 1 /\ f[y - 1] = "%" => f[y] \in {"Y", "m", "d"}
    BY ONLY <2>1
  <2>4. Pieces(f, tm) = InFull(f, tm)
    BY ONLY <1>3, <2>3, SameFormat
  <2> QED BY ONLY <1>2, <2>2, <2>4
<1>8. CASE c = "T"
  <2>1. PICK f : f = <<"%", "H", ":", "%", "M", ":", "%", "S">>
    OBVIOUS
  <2>2. Composite[c] = f /\ Equivalent[c] = f
    BY ONLY <1>8, <2>1 DEF Composite, Equivalent
  <2>3. Len(f) = 8 /\ \A y \in 1 .. 8 : y > 1 /\ f[y - 1] = "%" => f[y] \in {"H", "M", "S"}
    BY ONLY <2>1
  <2>4. Pieces(f, tm) = InFull(f, tm)
    BY ONLY <1>3, <2>3, SameFormat
  <2> QED BY ONLY <1>2, <2>2, <2>4
<1>9. CASE c = "X"
  <2>1. PICK f, e : /\ f = <<"%", "k", ":", "%", "M", ":", "%", "S">>
                    /\ e = <<"%", "H", ":", "%", "M", ":", "%", "S">>
    OBVIOUS
  <2>2. Composite[c] = f /\ Equivalent[c] = e
    BY ONLY <1>9, <2>1 DEF Composite, Equivalent
  <2>3. Simple("k", tm) = Standard("H", tm)
    <3>1. PICK ho \in 0 .. 23 : ho = tm.hour /\ ho >= 10
      BY <1>9, DateIs
    <3>2. i2a_blank(ho) = i2a(ho)
      BY ONLY <3>1, ho \in 0 .. 23 DEF i2a_blank
    <3>3. InDigits(tm.hour, 2) = i2a(tm.hour)
      BY NumbersStandard
    <3> QED BY ONLY <3>1, <3>2, <3>3 DEF Simple, Standard
  <2>4. /\ Len(f) = 8 /\ Len(e) = 8
        /\ \A y \in 1 .. 8 : f[y] = e[y] \/ (f[y] = "k" /\ e[y] = "H")
        /\ \A y \in 1 .. 8 : y > 1 /\ f[y - 1] = "%" => f[y] \in {"k", "M", "S"}
        /\ \A y \in 1 .. 8 : y > 1 => (f[y - 1] = "%" <=> e[y - 1] = "%")
        /\ \A y \in 1 .. 8 : f[y] = "k" => y > 1 /\ f[y - 1] = "%"
    BY ONLY <2>1
  <2>5. ASSUME NEW y \in 1 .. 8 PROVE PieceAt(f, y, tm) = StandardAt(e, y, tm)
    <3>1. CASE f[y] = "k" /\ e[y] = "H"
      <4>1. y > 1 /\ f[y - 1] = "%" /\ e[y - 1] = "%"
        BY ONLY <2>4, <3>1, y \in 1 .. 8
      <4> QED BY ONLY <2>3, <3>1, <4>1 DEF PieceAt, StandardAt
    <3>2. CASE f[y] = e[y] /\ f[y] # "k"
      <4>1. CASE y > 1 /\ f[y - 1] = "%"
        <5>1. f[y] \in {"M", "S"} /\ e[y - 1] = "%"
          BY ONLY <2>4, <3>2, <4>1, y \in 1 .. 8
        <5> QED BY ONLY <1>3, <3>2, <4>1, <5>1 DEF PieceAt, StandardAt
      <4>2. CASE ~ (y > 1 /\ f[y - 1] = "%")
        <5>1. ~ (y > 1 /\ e[y - 1] = "%")
          BY ONLY <2>4, <4>2, y \in 1 .. 8
        <5> QED BY ONLY <3>2, <4>2, <5>1 DEF PieceAt, StandardAt
      <4> QED BY ONLY <4>1, <4>2
    <3>3. CASE f[y] = e[y] /\ f[y] = "k"
      BY ONLY <2>1, <3>3, y \in 1 .. 8
    <3> QED BY ONLY <2>4, <3>1, <3>2, <3>3, y \in 1 .. 8
  <2>6. Pieces(f, tm) = InFull(e, tm)
    <3>1. \A y \in 1 .. 8 : PieceAt(f, y, tm) = StandardAt(e, y, tm)
      BY ONLY <2>5
    <3>2. 8 = Len(f) /\ 8 = Len(e)
      BY ONLY <2>4
    <3> QED BY ONLY <3>1, <3>2, PiecesAgree
  <2> QED BY ONLY <1>2, <2>2, <2>6
<1> QED BY ONLY <1>1, <1>4, <1>5, <1>6, <1>7, <1>8, <1>9

(* An item that is not known to depart is written as the standard says. *)
LEMMA ItemStandardIs ==
  ASSUME NEW item, NEW tm, IsTime(tm), ~ Departs(item, tm)
  PROVE  ItemMeaning(item, tm) = ItemStandard(item, tm)
<1>1. CASE Len(item) = 1 \/ item = <<"%", "%">>
  BY ONLY <1>1 DEF ItemMeaning, ItemStandard
<1>2. CASE Len(item) # 1 /\ item # <<"%", "%">>
  <2>1. PICK c : c = item[Len(item)]
    OBVIOUS
  <2>2. ItemMeaning(item, tm) = Meaning(c, tm)
    BY ONLY <1>2, <2>1 DEF ItemMeaning
  <2>3. PICK v : v = IF c \in DOMAIN Equivalent
                     THEN Sequences_!FlattenSeq(InFull(Equivalent[c], tm))
                     ELSE Standard(c, tm)
    OBVIOUS
  <2> SUFFICES Meaning(c, tm) = v
    <3>1. ItemStandard(item, tm) = v
      BY ONLY <1>2, <2>1, <2>3 DEF ItemStandard
    <3> QED BY <2>2, <3>1
  <2>4. /\ c \in Simples \cup DOMAIN Equivalent
        /\ c \in {"I", "l", "r"} => tm.hour % 12 # 0
        /\ c \in {"p", "P", "r"} => tm.hour # 12
        /\ c = "X" => ~ (tm.hour < 10)
    BY ONLY <1>2, <2>1, ~ Departs(item, tm) DEF Departs
  <2>5. CASE c \in DOMAIN Equivalent
    <3>1. PICK ho \in 0 .. 23 : ho = tm.hour
      BY DateIs
    <3>2. c = "X" => tm.hour >= 10
      BY ONLY <2>4, <3>1, ho \in 0 .. 23
    <3>3. Meaning(c, tm) = Sequences_!FlattenSeq(InFull(Equivalent[c], tm))
      BY <2>4, <2>5, <3>2, CompositeStandard
    <3> QED BY ONLY <2>3, <2>5, <3>3
  <2>6. CASE c \notin DOMAIN Equivalent
    <3>1. c \in Simples /\ Usual(c, tm)
      BY ONLY <2>4, <2>6 DEF Usual
    <3>2. Simple(c, tm) = Standard(c, tm)
      BY <3>1, SimpleStandard
    <3>3. Meaning(c, tm) = Simple(c, tm)
      <4>1. c \notin DOMAIN Composite
        BY ONLY <3>1 DEF Simples, Composite
      <4>2. CASE c = "U"
        <5>1. Meaning(c, tm) = i2a(Cardinality(DaysUpTo(tm, 0)))
          BY ONLY <4>1, <4>2 DEF Meaning
        <5>2. Simple(c, tm) = i2a(WeekOfSundays(tm))
          BY ONLY <4>2 DEF Simple
        <5> QED BY <5>1, <5>2, WeeksAre
      <4>3. CASE c = "W"
        <5>1. Meaning(c, tm) = i2a(Cardinality(DaysUpTo(tm, 1)))
          BY ONLY <4>1, <4>3 DEF Meaning
        <5>2. Simple(c, tm) = i2a(WeekOfMondays(tm))
          BY ONLY <4>3 DEF Simple
        <5> QED BY <5>1, <5>2, WeeksAre
      <4>4. CASE c # "U" /\ c # "W"
        BY ONLY <4>1, <4>4 DEF Meaning
      <4> QED BY ONLY <4>2, <4>3, <4>4
    <3> QED BY ONLY <2>3, <2>6, <3>2, <3>3
  <2> QED BY ONLY <2>5, <2>6
<1> QED BY ONLY <1>1, <1>2

(* A character behind a text. *)
LEMMA NulTyped == NUL \in Glyphs
BY MarkIs

LEMMA NulBehind ==
  ASSUME NEW line \in Seq(Glyphs), NEW n, n = Len(line), NEW b \in Glyphs
  PROVE  Len(line \o << b >>) = n + 1 /\ (line \o << b >>)[n + 1] = b
OBVIOUS

(* strftime writes the beginning of what the standard says, as much as      *)
(* there is room for, where the code is not known to depart from it.        *)
LEMMA TimeIs ==
  ASSUME NEW c \in TimeCalls
  PROVE  TimeAgrees(c, strftime(c.max, Format(c.items), c.tm))
<1>1. /\ IsTime(c.tm) /\ c.max \in Nat
      /\ IsSequence(c.items) /\ \A x \in DOMAIN c.items : IsItem(c.items[x])
  BY CallsAssumption
<1>2. PICK items, tm, max : items = c.items /\ tm = c.tm /\ max = c.max /\ max \in Nat
  BY ONLY <1>1
<1>3. PICK T : T = {items[x] : x \in DOMAIN items} /\ items \in Seq(T)
  BY ONLY <1>1, <1>2 DEF IsSequence
<1>4. PICK n \in Nat : n = Len(items) /\ DOMAIN items = 1 .. n
  BY <1>3, LenProperties
<1>5. ASSUME NEW x \in 1 .. n PROVE items[x] \in Seq(Glyphs)
  <2>1. PICK item : item = items[x]
    OBVIOUS
  <2>2. IsItem(item)
    BY ONLY <1>1, <1>2, <1>4, <2>1, x \in 1 .. n
  <2>3. PICK S : S = {item[y] : y \in DOMAIN item} /\ item \in Seq(S)
    BY ONLY <2>2 DEF IsItem, IsSequence
  <2>4. DOMAIN item = 1 .. Len(item) /\ Len(item) \in Nat
    BY <2>3, LenProperties
  <2>5. \A y \in 1 .. Len(item) : item[y] \in Glyphs
    <3>1. PICK W : W = {item[y] : y \in 1 .. Len(item)}
      OBVIOUS
    <3>2. W \subseteq Letters(c)
      BY ONLY <1>2, <1>4, <2>1, <3>1, x \in 1 .. n DEF Letters
    <3>3. Letters(c) \subseteq Spelled
      BY DEF Spelled
    <3>4. Spelled \subseteq Glyphs
      BY DEF Glyphs, Literals
    <3> QED BY ONLY <3>1, <3>2, <3>3, <3>4
  <2>6. S \subseteq Glyphs
    BY ONLY <2>3, <2>4, <2>5
  <2> QED BY ONLY <2>1, <2>3, <2>6
<1>6. items \in Seq(Seq(Glyphs))
  <2>1. T \subseteq Seq(Glyphs)
    BY ONLY <1>3, <1>4, <1>5
  <2> QED BY ONLY <1>3, <2>1
<1>7. \A x \in 1 .. Len(items) : IsItem(items[x])
  BY ONLY <1>1, <1>2, <1>4
<1>8. PICK text : text = OuterText(Format(items), max, tm)
  OBVIOUS
<1>9. strftime(max, Format(items), tm) =
        IF max = 0 THEN [cells |-> << >>, length |-> 0]
        ELSE [cells |-> Terminate(text, max), length |-> Len(text)]
  BY ONLY <1>8 DEF strftime, OuterText
<1>10. CASE max = 0
  BY ONLY <1>2, <1>9, <1>10 DEF TimeAgrees
<1>11. CASE max # 0
  <2>1. PICK s \in States, m \in Seq(Glyphs) :
          /\ m = Sequences_!FlattenSeq([x \in 1 .. Len(items) |-> ItemMeaning(items[x], tm)])
          /\ Tracks(s, m, max) /\ text = s.text
    <3>1. max \in Nat \ {0}
      BY <1>2, <1>11
    <3>2. IsTime(tm)
      BY ONLY <1>1, <1>2
    <3>3. \E s \in States, m \in Seq(Glyphs) :
            /\ m = Sequences_!FlattenSeq([x \in 1 .. Len(items) |-> ItemMeaning(items[x], tm)])
            /\ Tracks(s, m, max) /\ OuterText(Format(items), max, tm) = s.text
      BY ONLY <1>6, <1>7, <3>1, <3>2, FormatRead
    <3> QED BY ONLY <1>8, <3>3
  <2>2. PICK lm \in Nat : lm = Len(m)
    BY LenProperties
  <2>3. PICK z \in Nat : z = IF lm < max THEN lm ELSE max - 1
    <3>1. (IF lm < max THEN lm ELSE max - 1) \in Nat
      BY ONLY <1>11, <1>2, lm \in Nat
    <3> QED BY ONLY <3>1
  <2>4. /\ Terminate(text, max) = SubSeq(m, 1, z) \o <<NUL>>
        /\ Len(text) = IF lm < max THEN lm ELSE max
    <3>1. max \in Nat \ {0} /\ z = IF Len(m) < max THEN Len(m) ELSE max - 1
      BY ONLY <1>11, <1>2, <2>2, <2>3
    <3> QED BY ONLY <2>1, <2>2, <3>1, s \in States, m \in Seq(Glyphs), TerminateIs
  <2>6. Min({lm, max - 1}) = z
    <3>1. z \in {lm, max - 1} /\ \A x \in {lm, max - 1} : z <= x
      BY ONLY <1>11, <2>3, <1>2, lm \in Nat
    <3>2. {lm, max - 1} \in SUBSET Nat
      BY ONLY <1>11, <1>2, lm \in Nat
    <3> QED BY ONLY <3>1, <3>2, MinOf
  <2>7. PICK out : out = strftime(max, Format(items), tm)
    OBVIOUS
  <2>8. out.cells = Terminate(text, max) /\ out.length = Len(text)
    BY ONLY <1>9, <1>11, <2>7
  <2>9. PICK line : line = SubSeq(m, 1, z)
    OBVIOUS
  <2>10. line \in Seq(Glyphs) /\ Len(line) = z
    <3>1. z <= lm
      BY ONLY <1>2, <1>11, <2>3, lm \in Nat
    <3>2. \A y \in 1 .. z : m[y] \in Glyphs
      BY <2>2, <3>1, LenProperties
    <3> QED BY <2>9, <3>2, SubSeqProperties
  <2>11. Len(out.cells) = z + 1 /\ out.cells[z + 1] = NUL
    <3>1. out.cells = line \o <<NUL>>
      BY ONLY <2>4, <2>8, <2>9
    <3> QED BY ONLY <2>10, <3>1, NulTyped, NulBehind
  <2>12. InBuffer(max, out)
    <3>1. z + 1 \in 1 .. max
      BY ONLY <1>2, <1>11, <2>3, lm \in Nat
    <3>2. out.length \in {z, max}
      BY ONLY <2>3, <2>4, <2>8
    <3>3. (z + 1) - 1 = z
      BY ONLY z \in Nat
    <3> QED BY ONLY <2>11, <3>1, <3>2, <3>3 DEF InBuffer
  <2>13. ASSUME \A x \in DOMAIN items : ~ Departs(items[x], tm)
         PROVE  WritesAsMuch(Sequences_!FlattenSeq([x \in 1 .. Len(items) |-> ItemStandard(items[x], tm)]),
                             max, out)
    <3>1. [x \in 1 .. Len(items) |-> ItemMeaning(items[x], tm)]
          = [x \in 1 .. Len(items) |-> ItemStandard(items[x], tm)]
      <4>1. ASSUME NEW x \in 1 .. n PROVE ItemMeaning(items[x], tm) = ItemStandard(items[x], tm)
        <5>1. ~ Departs(items[x], tm)
          BY ONLY <1>4, <2>13, x \in 1 .. n
        <5>2. IsTime(tm)
          BY ONLY <1>1, <1>2
        <5> QED BY ONLY <5>1, <5>2, ItemStandardIs
      <4> QED BY ONLY <1>4, <4>1
    <3>2. m = Sequences_!FlattenSeq([x \in 1 .. Len(items) |-> ItemStandard(items[x], tm)])
      BY ONLY <2>1, <3>1
    <3>3. out.cells = SubSeq(m, 1, Min({lm, max - 1})) \o <<NUL>>
      BY ONLY <2>4, <2>6, <2>8
    <3>4. IF lm < max THEN out.length = lm ELSE out.length >= max
      BY ONLY <1>2, <2>4, <2>8
    <3>5. WritesAsMuch(m, max, out)
      BY ONLY <2>2, <3>3, <3>4 DEF WritesAsMuch
    <3> QED BY ONLY <3>2, <3>5
  <2>14. TimeAgrees(c, out)
    BY ONLY <1>2, <1>11, <2>12, <2>13 DEF TimeAgrees
  <2> QED BY ONLY <1>2, <2>7, <2>14
<1> QED BY <1>10, <1>11

-----------------------------------------------------------------------------
(* The calls on characters and texts. *)

(* What a call on a text returns. *)
LEMMA TextConverted ==
  ASSUME ConvertsText, NEW s \in Texts, s = call.arg.text, NEW base \in Int, base = call.arg.base
  PROVE  NumberDenotes(call.arg, result'[1])
<1>1. PICK out : out = result'[1]
  OBVIOUS
<1>2. \A lib, x : Returns(lib, x) => result'[1] = x
  BY DEF Returns
<1>3. \/ call.arg.fn = "atoi" /\ out = atoi(s)
      \/ call.arg.fn = "strtoul" /\ out = strtoul(s, base)
      \/ call.arg.fn = "strtoull" /\ out = strtoull(s, base)
      \/ call.arg.fn = "strtol" /\ out = strtol(s, base)
      \/ call.arg.fn = "strtoll" /\ out = strtoll(s, base)
  BY ONLY <1>1, <1>2, ConvertsText, s = call.arg.text, base = call.arg.base, Zenon
     DEF ConvertsText
<1>4. CASE call.arg.fn = "atoi" /\ out = atoi(s)
  <2>1. PICK M : IsWidth(LongBits, M)
    BY Widths
  <2>2. IntegerDenotes(s, out)
    BY ONLY <1>4, <2>1, s \in Texts, IntegerRight
  <2>3. IntegerDenotes(call.arg.text, result'[1])
    BY ONLY <1>1, <2>2, s = call.arg.text
  <2> QED BY ONLY <1>4, <2>3 DEF NumberDenotes
<1>5. CASE call.arg.fn = "strtoul" /\ out = strtoul(s, base)
  <2>1. UnsignedDenotes(call.arg.text, call.arg.base, LongBits, result'[1])
    BY ONLY <1>1, <1>5, s \in Texts, base \in Int, s = call.arg.text, base = call.arg.base,
            UnsignedCalls
  <2> QED BY ONLY <1>5, <2>1 DEF NumberDenotes
<1>6. CASE call.arg.fn = "strtoull" /\ out = strtoull(s, base)
  <2>1. UnsignedDenotes(call.arg.text, call.arg.base, LongLongBits, result'[1])
    BY ONLY <1>1, <1>6, s \in Texts, base \in Int, s = call.arg.text, base = call.arg.base,
            UnsignedCalls
  <2> QED BY ONLY <1>6, <2>1 DEF NumberDenotes
<1>7. CASE call.arg.fn = "strtol" /\ out = strtol(s, base)
  <2>1. SignedDenotes(call.arg.text, call.arg.base, LongBits, result'[1])
    BY ONLY <1>1, <1>7, s \in Texts, base \in Int, s = call.arg.text, base = call.arg.base,
            SignedCalls
  <2> QED BY ONLY <1>7, <2>1 DEF NumberDenotes
<1>8. CASE call.arg.fn = "strtoll" /\ out = strtoll(s, base)
  <2>1. SignedDenotes(call.arg.text, call.arg.base, LongLongBits, result'[1])
    BY ONLY <1>1, <1>8, s \in Texts, base \in Int, s = call.arg.text, base = call.arg.base,
            SignedCalls
  <2> QED BY ONLY <1>8, <2>1 DEF NumberDenotes
<1> QED BY ONLY <1>3, <1>4, <1>5, <1>6, <1>7, <1>8

(* The three kinds of calls on characters and texts that return. *)
NumberCallLegal ==
  /\ call.lib = "numbers" => call.arg \in NumberCalls
  /\ call.lib = "strtod" => call.arg \in DecimalCalls
  /\ call.lib = "ctype" => call.arg \in -1 .. 255

NumbersCalled ==
  \/ ConvertsText /\ call.lib = "numbers"
  \/ ConvertsDecimal /\ call.lib = "strtod"
  \/ Classifies /\ call.lib = "ctype"

(* A call on characters or on a text returns what it should. *)
LEMMA NumbersReturn ==
  ASSUME NumberCallLegal, call' = call, NumbersCalled
  PROVE  NumbersDenote'
<1>1. \A lib, x : Returns(lib, x) => result'[1] = x
  BY DEF Returns
<1>2. CASE ConvertsText /\ call.lib = "numbers"
  <2>1. call.arg \in NumberCalls
    BY ONLY <1>2, NumberCallLegal DEF NumberCallLegal
  <2>2. PICK s \in Texts, base \in Int : s = call.arg.text /\ base = call.arg.base
    BY ONLY <2>1, CallsAssumption
  <2>3. NumberDenotes(call.arg, result'[1])
    BY ONLY <1>2, <2>2, s \in Texts, base \in Int, TextConverted
  <2>4. NumberDenotes(call'.arg, result'[1])
    BY ONLY <2>3, call' = call
  <2> QED BY ONLY <1>2, <2>4, call' = call DEF NumbersDenote, Returned
<1>3. CASE ConvertsDecimal /\ call.lib = "strtod"
  <2>1. call.arg \in DecimalCalls
    BY ONLY <1>3, NumberCallLegal DEF NumberCallLegal
  <2>2. PICK d : d = call.arg /\ IsDecimal(d)
    BY ONLY <2>1, CallsAssumption
  <2>3. result'[1] = strtod(DecimalText(d))
    BY ONLY <1>1, <1>3, <2>2 DEF ConvertsDecimal
  <2>4. PICK out : out = result'[1]
    OBVIOUS
  <2>5. ASSUME WellFormed(d) PROVE DecimalDenotes(d, out)
    <3>1. PICK M : IsWidth(LongBits, M)
      BY Widths
    <3> QED BY ONLY <2>2, <2>3, <2>4, <2>5, <3>1, DecimalRight
  <2>6. WellFormed(call'.arg) => DecimalDenotes(call'.arg, result'[1])
    BY ONLY <2>2, <2>4, <2>5, call' = call
  <2> QED BY ONLY <1>3, <2>6, call' = call DEF NumbersDenote, Returned
<1>4. CASE Classifies /\ call.lib = "ctype"
  <2>1. PICK c \in -1 .. 255 : c = call.arg
    BY ONLY <1>4, NumberCallLegal DEF NumberCallLegal
  <2>2. result'[1] = Classes(c)
    BY ONLY <1>1, <1>4, <2>1 DEF Classifies
  <2>3. PICK out : out = result'[1]
    OBVIOUS
  <2>4. Classified(c, out)
    BY ONLY <2>2, <2>3, c \in -1 .. 255, CharactersClassified
  <2>5. Classified(call'.arg, result'[1])
    BY ONLY <2>1, <2>3, <2>4, call' = call
  <2> QED BY ONLY <1>4, <2>5, call' = call DEF NumbersDenote, Returned
<1> QED BY ONLY <1>2, <1>3, <1>4, NumbersCalled DEF NumbersCalled

-----------------------------------------------------------------------------
(* Every call is one the program may make. *)
CallLegal ==
  /\ NumberCallLegal
  /\ call.lib = "bytes" => call.arg \in ByteCalls /\ Defined(call.arg)
  /\ call.lib = "net" => call.arg \in Words
  /\ call.lib = "input" => call.arg \in DOMAIN Verifier \cup Uncalled
  /\ call.lib = "time" => call.arg \in TimeCalls

CallsRight ==
  CallLegal /\ NumbersDenote /\ StringsAgree /\ InputsComplete /\ TimeBounded

(* A call that has not returned yet promises nothing. *)
LEMMA FirstCall == Init => CallsRight
<1> SUFFICES ASSUME Init
             PROVE  CallLegal /\ NumbersDenote /\ StringsAgree /\ InputsComplete /\ TimeBounded
  BY DEF CallsRight
<1>1. result = << >>
  BY DEF Init
<1>2. \/ call = [lib |-> "qsort"]
      \/ \E lib \in {"stub", "math", "silent"} : \E x : call = [lib |-> lib, arg |-> x]
      \/ \E c \in NumberCalls : call = [lib |-> "numbers", arg |-> c]
      \/ \E c \in DecimalCalls : call = [lib |-> "strtod", arg |-> c]
      \/ \E c \in -1 .. 255 : call = [lib |-> "ctype", arg |-> c]
      \/ \E c \in ByteCalls : Defined(c) /\ call = [lib |-> "bytes", arg |-> c]
      \/ \E w \in Words : call = [lib |-> "net", arg |-> w]
      \/ \E type \in DOMAIN Verifier \cup Uncalled : call = [lib |-> "input", arg |-> type]
      \/ \E c \in TimeCalls : call = [lib |-> "time", arg |-> c]
  BY DEF Init
<1>3. ASSUME call = [lib |-> "qsort"] PROVE CallLegal
  <2>1. call.lib = "qsort"
    BY <1>3
  <2> QED BY ONLY <2>1 DEF CallLegal, NumberCallLegal
<1>4. ASSUME NEW lib \in {"stub", "math", "silent"}, NEW x, call = [lib |-> lib, arg |-> x]
      PROVE  CallLegal
  BY ONLY lib \in {"stub", "math", "silent"}, <1>4 DEF CallLegal, NumberCallLegal
<1>5. ASSUME NEW c \in ByteCalls, Defined(c), call = [lib |-> "bytes", arg |-> c] PROVE CallLegal
  BY ONLY c \in ByteCalls, <1>5 DEF CallLegal, NumberCallLegal
<1>6. ASSUME NEW w \in Words, call = [lib |-> "net", arg |-> w] PROVE CallLegal
  BY ONLY w \in Words, <1>6 DEF CallLegal, NumberCallLegal
<1>7. ASSUME NEW type \in DOMAIN Verifier \cup Uncalled, call = [lib |-> "input", arg |-> type]
      PROVE  CallLegal
  BY ONLY type \in DOMAIN Verifier \cup Uncalled, <1>7 DEF CallLegal, NumberCallLegal
<1>8. ASSUME NEW c \in TimeCalls, call = [lib |-> "time", arg |-> c] PROVE CallLegal
  BY ONLY c \in TimeCalls, <1>8 DEF CallLegal, NumberCallLegal
<1>9. NumbersDenote /\ StringsAgree /\ InputsComplete /\ TimeBounded
  BY ONLY <1>1 DEF NumbersDenote, StringsAgree, InputsComplete, TimeBounded, Returned
<1>10. ASSUME NEW c \in NumberCalls, call = [lib |-> "numbers", arg |-> c] PROVE CallLegal
  BY ONLY c \in NumberCalls, <1>10 DEF CallLegal, NumberCallLegal
<1>11. ASSUME NEW c \in DecimalCalls, call = [lib |-> "strtod", arg |-> c] PROVE CallLegal
  BY ONLY c \in DecimalCalls, <1>11 DEF CallLegal, NumberCallLegal
<1>12. ASSUME NEW c \in -1 .. 255, call = [lib |-> "ctype", arg |-> c] PROVE CallLegal
  BY ONLY c \in -1 .. 255, <1>12 DEF CallLegal, NumberCallLegal
<1> QED BY <1>2, <1>3, <1>4, <1>5, <1>6, <1>7, <1>8, <1>9, <1>10, <1>11, <1>12

(* A step leaves the call alone, and it returns at most once. *)
LEMMA ReturnsOnce ==
  ASSUME [Next]_vars
  PROVE  /\ call' = call
         /\ \/ result' = result
            \/ result = << >> /\ HandlesBytes /\ call.lib = "bytes"
            \/ result = << >> /\ SwapsBytes /\ call.lib = "net"
            \/ result = << >> /\ MakesInput /\ call.lib = "input"
            \/ result = << >> /\ FormatsTime /\ call.lib = "time"
            \/ NumbersCalled
            \/ call.lib \in {"qsort", "stub", "math", "silent"}
<1>1. \A lib, out : Returns(lib, out) => call' = call /\ result = << >> /\ call.lib = lib
  BY DEF Returns
<1>2. CASE Sorts
  BY ONLY <1>2 DEF Sorts
<1>3. CASE ConvertsText
  <2>1. call' = call /\ call.lib = "numbers"
    BY ONLY <1>1, <1>3, Zenon DEF ConvertsText
  <2> QED BY ONLY <1>3, <2>1 DEF NumbersCalled
<1>4. CASE ConvertsDecimal
  <2>1. call' = call /\ call.lib = "strtod"
    BY ONLY <1>1, <1>4 DEF ConvertsDecimal
  <2> QED BY ONLY <1>4, <2>1 DEF NumbersCalled
<1>5. CASE Classifies
  <2>1. call' = call /\ call.lib = "ctype"
    BY ONLY <1>1, <1>5 DEF Classifies
  <2> QED BY ONLY <1>5, <2>1 DEF NumbersCalled
<1>6. CASE HandlesBytes
  <2>1. \A m, value : Writes(m, value) => call' = call /\ result = << >> /\ call.lib = "bytes"
    BY ONLY <1>1 DEF Writes
  <2>2. call' = call /\ result = << >> /\ call.lib = "bytes"
    BY ONLY <1>6, <2>1, Zenon DEF HandlesBytes
  <2> QED BY ONLY <1>6, <2>2
<1>7. CASE SwapsBytes
  <2>1. call' = call /\ result = << >> /\ call.lib = "net"
    BY ONLY <1>1, <1>7 DEF SwapsBytes
  <2> QED BY ONLY <1>7, <2>1
<1>8. CASE FormatsTime
  <2>1. call' = call /\ result = << >> /\ call.lib = "time"
    BY ONLY <1>1, <1>8 DEF FormatsTime
  <2> QED BY ONLY <1>8, <2>1
<1>9. CASE MakesInput
  <2>1. call' = call /\ result = << >> /\ call.lib = "input"
    BY ONLY <1>1, <1>9 DEF MakesInput
  <2> QED BY ONLY <1>9, <2>1
<1>10. CASE DoesNothing
  BY ONLY <1>1, <1>10 DEF DoesNothing
<1>11. CASE UNCHANGED vars
  BY ONLY <1>11 DEF vars
<1> QED BY <1>2, <1>3, <1>4, <1>5, <1>6, <1>7, <1>8, <1>9, <1>10, <1>11 DEF Next

(* What an input of a type is to be. *)
InputRight(type, value) ==
  IF type \in Uncalled THEN value = << >>
  ELSE value = Expected(CType[type].bits, CType[type].signed /\ CType[type].bits >= 32)

(* Every type has the symbol of its size, and its bits where they are to be. *)
LEMMA InputIs ==
  ASSUME NEW type \in DOMAIN Verifier \cup Uncalled
  PROVE  InputRight(type, Nondet(type))
<1>1. CASE type \in Uncalled
  BY ONLY <1>1 DEF InputRight, Nondet
<1>2. CASE type \notin Uncalled
  <2>1. PICK symbol : symbol = Symbols[Imports[Verifier[type]]]
    OBVIOUS
  <2>2. type \in DOMAIN Verifier
    BY <1>2
  <2>3. /\ symbol.bits = CType[type].bits
        /\ symbol.bits \in {1, 8, 16, 32, 64, 128}
        /\ symbol.width = IF symbol.bits < 32 THEN 32 ELSE symbol.bits
    BY ONLY <2>1, <2>2
       DEF Verifier, Imports, Symbols, CType, owi_signed, owi_unsigned,
           magic_size_signed, magic_size_unsigned, SizeOf
  <2>4. PICK bits \in {1, 8, 16, 32, 64, 128}, width \in {32, 64, 128} :
          /\ bits = symbol.bits /\ width = symbol.width
          /\ width = IF bits < 32 THEN 32 ELSE bits
    BY ONLY <2>3
  <2>5. PICK signed : signed = (CType[type].signed /\ bits >= 32)
    OBVIOUS
  <2>6. \A n \in 0 .. width - 1 :
          (IF n < bits THEN n ELSE ZeroBit)
          = (IF n < bits THEN n ELSE IF signed THEN bits - 1 ELSE ZeroBit)
    <3> TAKE n \in 0 .. width - 1
    <3>1. CASE bits < 32
      <4>1. ~ (bits >= 32)
        BY <3>1
      <4>2. ~ signed
        BY ONLY <2>5, <4>1, Zenon
      <4> QED BY ONLY <4>2
    <3>2. CASE ~ (bits < 32)
      BY ONLY <2>4, <3>2, n \in 0 .. width - 1, width \in {32, 64, 128}
    <3> QED BY <3>1, <3>2
  <2>7. Extended(symbol) = [n \in 0 .. width - 1 |-> IF n < bits THEN n ELSE ZeroBit]
    BY ONLY <2>4 DEF Extended
  <2>8. Expected(bits, signed) =
          [n \in 0 .. width - 1 |-> IF n < bits THEN n ELSE IF signed THEN bits - 1 ELSE ZeroBit]
    BY ONLY <2>4 DEF Expected
  <2>9. Extended(symbol) = Expected(bits, signed)
    BY ONLY <2>6, <2>7, <2>8
  <2> QED BY ONLY <1>2, <2>1, <2>3, <2>4, <2>5, <2>9 DEF InputRight, Nondet
<1> QED BY ONLY <1>1, <1>2

(* A call that returns has done what it is for. *)
LEMMA CallStep ==
  ASSUME CallLegal, NumbersDenote, StringsAgree, InputsComplete, TimeBounded, [Next]_vars
  PROVE  CallLegal' /\ NumbersDenote' /\ StringsAgree' /\ InputsComplete' /\ TimeBounded'
<1>1. /\ call' = call
      /\ \/ result' = result
         \/ result = << >> /\ HandlesBytes /\ call.lib = "bytes"
         \/ result = << >> /\ SwapsBytes /\ call.lib = "net"
         \/ result = << >> /\ MakesInput /\ call.lib = "input"
         \/ result = << >> /\ FormatsTime /\ call.lib = "time"
         \/ NumbersCalled
         \/ call.lib \in {"qsort", "stub", "math", "silent"}
  BY ReturnsOnce
<1>2. CallLegal'
  BY ONLY CallLegal, <1>1 DEF CallLegal, NumberCallLegal
<1> SUFFICES NumbersDenote' /\ StringsAgree' /\ InputsComplete' /\ TimeBounded'
  BY <1>2
<1>3. CASE result' = result
  BY ONLY NumbersDenote, StringsAgree, InputsComplete, TimeBounded, <1>1, <1>3
     DEF NumbersDenote, StringsAgree, InputsComplete, TimeBounded, Returned
<1>4. CASE HandlesBytes /\ call.lib = "bytes"
  <2>1. BytesAgree(call.arg, result'[1])
    BY <1>4, BytesHandled DEF CallLegal
  <2>2. BytesAgree(call'.arg, result'[1])
    BY ONLY <1>1, <2>1
  <2>3. StringsAgree'
    BY ONLY <1>1, <1>4, <2>2 DEF StringsAgree, Returned
  <2>4. NumbersDenote' /\ InputsComplete' /\ TimeBounded'
    BY ONLY <1>1, <1>4 DEF NumbersDenote, InputsComplete, TimeBounded, Returned
  <2> QED BY ONLY <2>3, <2>4
<1>5. CASE SwapsBytes /\ call.lib = "net"
  <2>1. result'[1] = [htonl |-> htonl(call.arg, ByteSize),
                      htons |-> htons(call.arg % Weight(ByteSize)[3], ByteSize)]
    BY ONLY <1>5 DEF SwapsBytes, Returns
  <2>2. PICK w \in Words : w = call.arg
    BY <1>5 DEF CallLegal
  <2>3. WordAgrees(w, result'[1])
    BY <2>1, <2>2, WordTurns
  <2>4. WordAgrees(call'.arg, result'[1])
    BY ONLY <1>1, <2>2, <2>3
  <2>5. StringsAgree'
    BY ONLY <1>1, <1>5, <2>4 DEF StringsAgree, Returned
  <2>6. NumbersDenote' /\ InputsComplete' /\ TimeBounded'
    BY ONLY <1>1, <1>5 DEF NumbersDenote, InputsComplete, TimeBounded, Returned
  <2> QED BY ONLY <2>5, <2>6
<1>6. CASE MakesInput /\ call.lib = "input"
  <2>1. result'[1] = Nondet(call.arg) /\ call.arg \in DOMAIN Verifier \cup Uncalled
    BY ONLY CallLegal, <1>6 DEF MakesInput, Returns, CallLegal
  <2>2. InputRight(call.arg, result'[1])
    BY ONLY <2>1, InputIs
  <2>3. InputsComplete'
    BY ONLY <1>1, <2>2 DEF InputsComplete, InputRight
  <2>4. NumbersDenote' /\ StringsAgree' /\ TimeBounded'
    BY ONLY <1>1, <1>6 DEF NumbersDenote, StringsAgree, TimeBounded, Returned
  <2> QED BY ONLY <2>3, <2>4
<1>7. CASE FormatsTime /\ call.lib = "time"
  <2>1. PICK c \in TimeCalls : c = call.arg
    BY <1>7 DEF CallLegal
  <2>2. result'[1] = strftime(c.max, Format(c.items), c.tm)
    BY ONLY <1>7, <2>1 DEF FormatsTime, Returns
  <2>3. TimeAgrees(c, result'[1])
    BY ONLY <2>2, c \in TimeCalls, TimeIs
  <2>4. TimeBounded'
    BY ONLY <1>1, <2>1, <2>3 DEF TimeBounded
  <2>5. NumbersDenote' /\ StringsAgree' /\ InputsComplete'
    BY ONLY <1>1, <1>7 DEF NumbersDenote, StringsAgree, InputsComplete, Returned
  <2> QED BY ONLY <2>4, <2>5
<1>8. CASE NumbersCalled
  <2>1. call.lib \in {"numbers", "strtod", "ctype"}
    BY ONLY <1>8 DEF NumbersCalled
  <2>2. StringsAgree' /\ InputsComplete' /\ TimeBounded'
    BY ONLY <1>1, <2>1 DEF StringsAgree, InputsComplete, TimeBounded, Returned
  <2>3. NumbersDenote'
    <3>1. NumberCallLegal
      BY ONLY CallLegal DEF CallLegal
    <3> QED BY ONLY <1>1, <1>8, <3>1, NumbersReturn
  <2> QED BY ONLY <2>2, <2>3
<1>9. CASE call.lib \in {"qsort", "stub", "math", "silent"}
  BY ONLY <1>1, <1>9 DEF NumbersDenote, StringsAgree, InputsComplete, TimeBounded, Returned
<1> QED BY <1>1, <1>2, <1>3, <1>4, <1>5, <1>6, <1>7, <1>8, <1>9

(* The invariant of a call of the library, for any texts, any memories, any  *)
(* words, any type of input, any dates and any formats: the call is one that *)
(* the standard defines, and when it returned from a function on characters, *)
(* on texts, on bytes, on byte order, of an input or of a date then the      *)
(* result is what the properties of the calls say, with the departures from  *)
(* the standard that they name.                                              *)
THEOREM CallsInvariance == Spec => []CallsRight
<1>1. Init => CallsRight
  BY FirstCall
<1>2. CallsRight /\ [Next]_vars => CallsRight'
  BY CallStep DEF CallsRight
<1> QED BY <1>1, <1>2, PTL DEF Spec

(* The classes of characters are those of ASCII.  strtoul, strtoull, strtol,  *)
(* strtoll and atoi convert the longest part of a text, of any length and of  *)
(* any characters, that is a number in the base, for any base and any width   *)
(* of the words, and say when it is out of range; and strtod every decimal,   *)
(* however many digits it has, whose exponent a word holds.                   *)
THEOREM NumbersAlwaysDenote == Spec => []NumbersDenote
BY CallsInvariance, PTL DEF CallsRight

(* The functions of string.h that move, compare and search bytes, and htonl *)
(* and htons: bytes arrive unchanged and nothing else changes, the first or  *)
(* last place is found, and comparisons are orders, in any memory and for    *)
(* any arguments for which the standard says what they do.  It is not all    *)
(* that it says: strcmp orders signed bytes, strncpy writes no zeros behind  *)
(* the string, and nothing is claimed of memchr and memccpy for a byte       *)
(* outside of 0 .. 255 and -128 .. 127, which the code does not convert.     *)
THEOREM StringsAlwaysAgree == Spec => []StringsAgree
BY CallsInvariance, PTL DEF CallsRight

(* strftime stays in a buffer of any size, with NUL at the end of the text, *)
(* for any date and any format of characters and directives.  What it        *)
(* writes is the beginning of what the standard says, as much as there is    *)
(* room for, formats in formats included, for every format without an item   *)
(* of which the code is known to depart (Departs lists them).  The length is *)
(* that of a text that fits, and otherwise only at least max, where the      *)
(* standard has 0.                                                           *)
THEOREM TimeStaysBounded == Spec => []TimeBounded
BY CallsInvariance, PTL DEF CallsRight
=============================================================================
