----------------------------- MODULE QuickSort -----------------------------
(***************************************************************************)
(* qsort of lang_c/libc/src/stdlib.c: Sedgewick's quicksort with three-way *)
(* partitioning, one step per comparison or exchange.  Elements equal to   *)
(* the pivot are collected at both ends of the interval while it is        *)
(* scanned and folded into the middle afterwards.                          *)
(*                                                                         *)
(* An element is the place it had at first; a[x] is the element now at     *)
(* place x, and compar compares the keys of elements.  The recursion is a  *)
(* stack of intervals to be sorted.                                        *)
(***************************************************************************)
EXTENDS Integers, Sequences

CONSTANTS
  Keys,
  MaxElements,          \* bound: the length of the arrays
  MaxSize               \* (size_t)-1

ASSUME SortAssumption ==
  /\ Keys \subseteq Int
  /\ MaxElements \in Nat
  /\ MaxSize \in Nat

VARIABLES nmemb, key, a, pc, l, r, i, j, p, q, k, stack

sortVars == <<nmemb, key, a, pc, l, r, i, j, p, q, k, stack>>
scanVars == <<i, j, p, q, k>>

Places == 0 .. nmemb - 1

compar(x, y) == key[x] - key[y]

exch(x, y) == [a EXCEPT ![x] = a[y], ![y] = a[x]]

TooLarge == nmemb >= MaxSize \div 2

SortInit ==
  /\ nmemb \in 0 .. MaxElements
  /\ key \in [Places -> Keys]
  /\ a = [x \in Places |-> x]
  /\ pc = "qsort"
  /\ l = 0 /\ r = 0 /\ i = 0 /\ j = 0 /\ p = 0 /\ q = 0 /\ k = 0
  /\ stack = << >>

qsort ==
  /\ pc = "qsort"
  /\ IF TooLarge \/ nmemb <= 1
       THEN pc' = "done" /\ UNCHANGED <<l, r>>
       ELSE pc' = "quicksort" /\ l' = 0 /\ r' = nmemb - 1
  /\ UNCHANGED <<nmemb, key, a, scanVars, stack>>

(* The middle element becomes the pivot, at the right end. *)
quicksort ==
  /\ pc = "quicksort" /\ l < r
  /\ a' = exch(l + (r - l) \div 2, r)
  /\ i' = l - 1 /\ j' = r /\ p' = l - 1 /\ q' = r
  /\ pc' = "up"
  /\ UNCHANGED <<nmemb, key, l, r, k, stack>>

Return ==
  /\ pc = "quicksort" /\ r <= l
  /\ IF stack = << >>
       THEN pc' = "done" /\ UNCHANGED <<l, r, stack>>
       ELSE /\ l' = Head(stack)[1] /\ r' = Head(stack)[2] /\ stack' = Tail(stack)
            /\ UNCHANGED pc
  /\ UNCHANGED <<nmemb, key, a, scanVars>>

ScanUp ==
  /\ pc = "up"
  /\ i' = i + 1
  /\ pc' = IF i + 1 /= r /\ compar(a[i + 1], a[r]) < 0 THEN "up" ELSE "down"
  /\ UNCHANGED <<nmemb, key, a, l, r, j, p, q, k, stack>>

(* Faulty: the beginning of the interval is not looked for. *)
ScanDown_NoEnd ==
  /\ pc = "down"
  /\ j' = j - 1
  /\ pc' = IF compar(a[r], a[j - 1]) < 0 THEN "down" ELSE "exchange"
  /\ UNCHANGED <<nmemb, key, a, l, r, i, p, q, k, stack>>
ScanDown ==
  /\ pc = "down"
  /\ j' = j - 1
  /\ pc' = IF compar(a[r], a[j - 1]) < 0 /\ j - 1 /= l THEN "down" ELSE "exchange"
  /\ UNCHANGED <<nmemb, key, a, l, r, i, p, q, k, stack>>

Exchange ==
  /\ pc = "exchange" /\ i < j
  /\ a' = exch(i, j)
  /\ pc' = "left"
  /\ UNCHANGED <<nmemb, key, l, r, scanVars, stack>>

KeepLeft ==
  /\ pc = "left"
  /\ IF compar(a[i], a[r]) = 0
       THEN p' = p + 1 /\ a' = exch(p + 1, i)
       ELSE UNCHANGED <<p, a>>
  /\ pc' = "right"
  /\ UNCHANGED <<nmemb, key, l, r, i, j, q, k, stack>>

KeepRight ==
  /\ pc = "right"
  /\ IF compar(a[r], a[j]) = 0
       THEN q' = q - 1 /\ a' = exch(j, q - 1)
       ELSE UNCHANGED <<q, a>>
  /\ pc' = "up"
  /\ UNCHANGED <<nmemb, key, l, r, i, j, p, k, stack>>

Place ==
  /\ pc = "exchange" /\ i >= j
  /\ a' = exch(i, r)
  /\ j' = i - 1 /\ i' = i + 1 /\ k' = l
  /\ pc' = "fold_left"
  /\ UNCHANGED <<nmemb, key, l, r, p, q, stack>>

FoldLeft ==
  /\ pc = "fold_left"
  /\ IF k < p
       THEN a' = exch(k, j) /\ k' = k + 1 /\ j' = j - 1 /\ UNCHANGED pc
       ELSE k' = r - 1 /\ pc' = "fold_right" /\ UNCHANGED <<a, j>>
  /\ UNCHANGED <<nmemb, key, l, r, i, p, q, stack>>

FoldRight ==
  /\ pc = "fold_right" /\ k > q
  /\ a' = exch(i, k) /\ k' = k - 1 /\ i' = i + 1
  /\ UNCHANGED <<nmemb, key, pc, l, r, j, p, q, stack>>

(* The left part is sorted next, the right part when that is done. *)
(* Faulty: the element right of the middle is left out. *)
Recurse_SkipsOne ==
  /\ pc = "fold_right" /\ k <= q
  /\ r' = j /\ stack' = << <<i + 1, r>> >> \o stack
  /\ pc' = "quicksort"
  /\ UNCHANGED <<nmemb, key, a, l, scanVars>>
Recurse ==
  /\ pc = "fold_right" /\ k <= q
  /\ r' = j /\ stack' = << <<i, r>> >> \o stack
  /\ pc' = "quicksort"
  /\ UNCHANGED <<nmemb, key, a, l, scanVars>>

SortNext ==
  \/ qsort \/ quicksort \/ Return
  \/ ScanUp \/ ScanDown \/ Exchange \/ KeepLeft \/ KeepRight
  \/ Place \/ FoldLeft \/ FoldRight \/ Recurse

SortSpec == SortInit /\ [][SortNext]_sortVars

-----------------------------------------------------------------------------

(* qsort returns with the elements it was given, each once, and in order,   *)
(* unless it refuses the array for its size.                                *)
Sorted ==
  pc = "done" =>
    /\ \A x \in Places : \E y \in Places : a[y] = x
    /\ ~ TooLarge => \A x, y \in Places : x < y => key[a[x]] <= key[a[y]]

(* Nothing outside the interval at hand is compared or exchanged, although  *)
(* the scans have no bound of their own and rely on the pivot, on elements  *)
(* they have passed or on the other scan to stop them.                      *)
WithinInterval ==
  LET interval == l .. r IN
  /\ pc \notin {"qsort", "done"} => interval \subseteq Places
  /\ pc = "up" => i + 1 \in interval
  /\ pc = "down" => j - 1 \in interval
  /\ pc = "exchange" => i \in interval
  /\ pc \in {"exchange", "left", "right"} => j \in interval
  /\ pc = "left" => i \in interval /\ p + 1 \in interval
  /\ pc = "right" => q - 1 \in interval
  /\ pc = "fold_left" /\ k < p => {k, j} \subseteq interval
  /\ pc = "fold_right" /\ k > q => {k, i} \subseteq interval

-----------------------------------------------------------------------------
(***************************************************************************)
(* The inductive invariant.                                                *)
(***************************************************************************)

K(x) == key[a[x]]

SortTypeOK ==
  /\ nmemb \in Nat
  /\ key \in [Places -> Keys]
  /\ a \in [Places -> Places]
  /\ pc \in {"qsort", "quicksort", "up", "down", "exchange", "left", "right",
             "fold_left", "fold_right", "done"}
  /\ l \in Int /\ r \in Int /\ i \in Int /\ j \in Int
  /\ p \in Int /\ q \in Int /\ k \in Int
  /\ stack \in Seq(Int \X Int)

Permuted == \A x \in Places : \E y \in Places : a[y] = x

(* The intervals to be sorted lie in the array, one right of the other. *)
Pending ==
  /\ 0 <= l /\ r < nmemb
  /\ \A s \in 1 .. Len(stack) :
       /\ 0 <= stack[s][1] /\ stack[s][2] < nmemb /\ r < stack[s][1]
       /\ \A t \in 1 .. Len(stack) : s < t => stack[s][2] < stack[t][1]

(* Elements that are not in one interval to be sorted are in order. *)
Together(x, y) ==
  \/ l <= x /\ y <= r
  \/ \E s \in 1 .. Len(stack) : stack[s][1] <= x /\ y <= stack[s][2]

OrderedElsewhere ==
  \A x, y \in Places : x < y => Together(x, y) \/ K(x) <= K(y)

(* While the interval is scanned: equal to the pivot at both ends, smaller  *)
(* and larger inside them, not yet seen in the middle.                      *)
Less(x, y) == \A z \in x .. y : K(z) < K(r)
Greater(x, y) == \A z \in x .. y : K(r) < K(z)

Scanned ==
  /\ l < r /\ l - 1 <= p /\ p <= i /\ q <= r
  /\ \A z \in l .. p : K(z) = K(r)
  /\ \A z \in q .. r : K(z) = K(r)
  /\ pc = "up" =>
       /\ i < j /\ l < j /\ j <= q
       /\ Less(p + 1, i) /\ Greater(j, q - 1)
  /\ pc = "down" =>
       /\ p < i /\ i <= j /\ l < j /\ j <= q
       /\ Less(p + 1, i - 1) /\ Greater(j, q - 1)
       /\ i = r \/ K(r) <= K(i)
  /\ pc = "exchange" =>
       /\ p < i /\ i <= j + 1 /\ l <= j /\ j < q
       /\ Less(p + 1, i - 1) /\ Greater(j + 1, q - 1)
       /\ i = r \/ K(r) <= K(i)
       /\ j = l \/ K(j) <= K(r)
  /\ pc = "left" =>
       /\ p < i /\ i < j /\ j < q
       /\ Less(p + 1, i - 1) /\ Greater(j + 1, q - 1)
       /\ K(i) <= K(r) /\ K(r) <= K(j)
  /\ pc = "right" =>
       /\ l <= i /\ i < j /\ j < q
       /\ Less(p + 1, i) /\ Greater(j + 1, q - 1) /\ K(r) <= K(j)

(* While equal elements are folded in: the pivot is at m, what it was       *)
(* exchanged with at r.  Places are paired around the middle of the part;   *)
(* a place of the end whose partner is in the end too holds the pivot key.  *)
FoldsLeft ==
  LET m == i - 1 IN
  /\ l <= m /\ p < m /\ m <= q /\ q <= r /\ l <= k /\ (k = l \/ k <= p)
  /\ j = l + m - 1 - k
  /\ \A z \in l .. m - 1 : K(z) <= K(m)
  /\ \A z \in m + 1 .. r : K(m) <= K(z)
  /\ \A z \in q .. r - 1 : K(z) = K(m)
  /\ \A z \in j + 1 .. m - 1 : K(z) = K(m)
  /\ \A z \in k .. p : K(z) = K(m)
  /\ \A z \in l .. k - 1 : l + m - 1 - z <= p => K(z) = K(m)

FoldsRight ==
  LET m == i + k - r IN
  /\ l <= m /\ m <= q /\ q <= r /\ l - 1 <= j /\ j < m /\ m < i
  /\ k < r /\ (k = r - 1 \/ q <= k)
  /\ \A z \in l .. j : K(z) <= K(m)
  /\ \A z \in j + 1 .. i - 1 : K(z) = K(m)
  /\ \A z \in m + 1 .. r : K(m) <= K(z)
  /\ \A z \in q .. k : K(z) = K(m)
  /\ \A z \in k + 1 .. r - 1 : q <= m + r - z => K(z) = K(m)

SortInv ==
  /\ SortTypeOK
  /\ Permuted
  /\ pc = "qsort" => stack = << >>
  /\ pc \notin {"qsort", "done"} => Pending /\ OrderedElsewhere
  /\ pc \in {"up", "down", "exchange", "left", "right"} => Scanned
  /\ pc = "fold_left" => FoldsLeft
  /\ pc = "fold_right" => FoldsRight
  /\ pc = "done" /\ ~ TooLarge => \A x, y \in Places : x < y => K(x) <= K(y)
=============================================================================
