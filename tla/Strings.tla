------------------------------ MODULE Strings ------------------------------
(***************************************************************************)
(* The functions on bytes and strings of lang_c/libc/src (mem*.c, str*.c   *)
(* and netinet_in.c).  A memory is a function from addresses to bytes and  *)
(* NULL is address 0.  A char is signed, as it is for WebAssembly.         *)
(***************************************************************************)
EXTENDS Integers, Sequences, FiniteSetsExt

NULL == 0

Unsigned(b) == b
SignedChar(b) == IF b > 127 THEN b - 256 ELSE b

(* Byte by byte, so that a byte written may be read again. *)
CopyForward(m, d, s, n) ==
  LET copy[k \in 0 .. n] ==
        IF k = 0 THEN m
        ELSE LET before == copy[k - 1]
             IN [before EXCEPT ![d + k - 1] = before[s + k - 1]]
  IN copy[n]

CopyBackward(m, d, s, n) ==
  LET copy[k \in 0 .. n] ==
        IF k = n THEN m
        ELSE LET after == copy[k + 1]
             IN [after EXCEPT ![d + k] = after[s + k]]
  IN copy[0]

memcpy(m, d, s, n) == CopyForward(m, d, s, n)

(* Faulty: the direction is not chosen by where the blocks are. *)
memmove_Forward(m, d, s, n) == CopyForward(m, d, s, n)
memmove(m, d, s, n) ==
  IF s = d THEN m
  ELSE IF s > d THEN CopyForward(m, d, s, n) ELSE CopyBackward(m, d, s, n)

memset(m, d, c, n) ==
  [x \in DOMAIN m |-> IF x \in d .. d + n - 1 THEN c % 256 ELSE m[x]]

(* c is an int and is compared with a char. *)
memccpy(m, d, s, c, n) ==
  LET copy[k \in 0 .. n] ==
        IF k = 0 THEN [mem |-> m, result |-> NULL]
        ELSE LET before == copy[k - 1]
                 byte == before.mem[s + k - 1]
             IN IF before.result /= NULL THEN before
                ELSE [mem |-> [before.mem EXCEPT ![d + k - 1] = byte],
                      result |-> IF SignedChar(byte) = c THEN d + k ELSE NULL]
  IN copy[n]

(* The first or the last of some offsets, as an address. *)
FirstAt(s, offsets) == IF offsets = {} THEN NULL ELSE s + Min(offsets)
LastAt(s, offsets) == IF offsets = {} THEN NULL ELSE s + Max(offsets)

memchr(m, s, c, n) == FirstAt(s, {k \in 0 .. n - 1 : m[s + k] = c})

memcmp(m, d, s, n) ==
  LET differ == {k \in 0 .. n - 1 : m[d + k] /= m[s + k]}
  IN IF differ = {} THEN 0 ELSE m[d + Min(differ)] - m[s + Min(differ)]

(* The places of a memory from an address on, as offsets. *)
From(m, s) == {k \in 0 .. Max(DOMAIN m) : s + k \in DOMAIN m}

strlen(m, s) == IF s = NULL THEN 0 ELSE Min({k \in From(m, s) : m[s + k] = 0})

strcpy(m, d, s) == CopyForward(m, d, s, strlen(m, s) + 1)
strncpy(m, d, s, n) == memccpy(m, d, s, 0, n).mem

(* The offsets where one string or the other stops or they differ. *)
Stops(m, a, b) ==
  {k \in From(m, a) \cap From(m, b) : m[a + k] = 0 \/ m[a + k] /= m[b + k]}

strcmp(m, a, b) ==
  LET k == Min(Stops(m, a, b)) IN SignedChar(m[a + k]) - SignedChar(m[b + k])

strncmp(m, a, b, n) ==
  LET stops == {k \in Stops(m, a, b) : k < n}
  IN IF stops = {} THEN 0 ELSE m[a + Min(stops)] - m[b + Min(stops)]

strchr(m, t, c) ==
  FirstAt(t, {k \in 0 .. strlen(m, t) : m[t + k] = c % 256})
strrchr(m, t, c) ==
  LastAt(t, {k \in 0 .. strlen(m, t) : m[t + k] = c % 256})

strstr(m, h, n) ==
  LET nl == strlen(m, n)
      tries == IF nl = 0 THEN {0} ELSE 0 .. strlen(m, h) - nl
  IN FirstAt(h, {k \in tries : memcmp(m, h + k, n, nl) = 0})

strerror(errnum) == NULL

(* Words of four and of two bytes, where a byte has B values, and what one  *)
(* is worth in each place.                                                  *)
Weight(B) == <<1, B, B * B, B * B * B>>

htonl(w, B) ==
  LET one == Weight(B) IN
  (w \div one[4]) + ((w \div one[3]) % B) * one[2] + ((w \div one[2]) % B) * one[3]
    + (w % B) * one[4]
htons(w, B) == ((w \div B) % B) + (w % B) * B

-----------------------------------------------------------------------------
(***************************************************************************)
(* What the functions are for, in terms of texts and blocks.  Each is      *)
(* stated where the call is defined: inside the memory, with terminated    *)
(* strings, and on blocks that do not overlap unless they may.             *)
(***************************************************************************)
Block(m, s, n) == s >= 1 /\ s + n - 1 \in DOMAIN m
Terminated(m, s) == s \in DOMAIN m /\ \E k \in From(m, s) : m[s + k] = 0
Text(m, s) == [k \in 1 .. strlen(m, s) |-> m[s + k - 1]]
Disjoint(d, s, n) == d + n <= s \/ s + n <= d

(* m2 is m1 but for the n bytes at d, which are those that were at s. *)
Copied(m1, m2, d, s, n) ==
  /\ \A k \in 0 .. n - 1 : m2[d + k] = m1[s + k]
  /\ \A x \in DOMAIN m1 : x \notin d .. d + n - 1 => m2[x] = m1[x]

(* t comes before u in the order of the bytes, as Value reads them. *)
Precedes(t, u, Value(_)) ==
  LET Byte(v, k) == IF k < Len(v) THEN v[k + 1] ELSE 0 IN
  \E k \in 0 .. Len(t) \cap 0 .. Len(u) :
    SubSeq(t, 1, k) = SubSeq(u, 1, k) /\ Value(Byte(t, k)) < Value(Byte(u, k))

Orders(sign, t, u, Value(_)) ==
  /\ sign = 0 <=> t = u
  /\ sign < 0 <=> Precedes(t, u, Value)

AtMost(t, n) == SubSeq(t, 1, IF n < Len(t) THEN n ELSE Len(t))

Occurrences(t, u) ==
  {k \in 0 .. Len(t) - Len(u) : SubSeq(t, k + 1, k + Len(u)) = u}

(* An address is the first, or the last, of some offsets from s. *)
IsFirst(x, s, offsets) ==
  IF offsets = {} THEN x = NULL
  ELSE x - s \in offsets /\ \A k \in offsets : x - s <= k
IsLast(x, s, offsets) ==
  IF offsets = {} THEN x = NULL
  ELSE x - s \in offsets /\ \A k \in offsets : k <= x - s
=============================================================================
