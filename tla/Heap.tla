------------------------------- MODULE Heap -------------------------------
(***************************************************************************)
(* The heap of an explored C program: malloc and its relatives in          *)
(* lang_c/libc/src/stdlib.c, on top of the chunks that the memory of owi   *)
(* keeps to find bad accesses (symbolic/symbolic_memory_concretizing.ml).  *)
(*                                                                         *)
(* malloc only moves a pointer up; owi alone knows what is allocated.  A   *)
(* pointer is the base of a chunk and an offset, so an access is checked   *)
(* against the chunk it was derived from, and NULL is a plain integer.     *)
(* A byte is the set of its bits, and the memory the set of the bits that  *)
(* are set: what was never written reads as zero.                          *)
(***************************************************************************)
EXTENDS Integers

CONSTANTS
  AddressSpace,         \* 2^32 in the code
  HeapBase,             \* __heap_base, which the C compiler aligns to 16
  Null

Addresses == 0 .. AddressSpace - 1
ByteBits == 0 .. 7

ASSUME HeapAssumption ==
  /\ AddressSpace \in Nat /\ AddressSpace % 16 = 0
  /\ HeapBase \in Addresses /\ HeapBase >= 16 /\ HeapBase + 16 <= AddressSpace
  /\ Null \notin Addresses

HeapType ==
  [bump : Addresses, live : SUBSET Addresses, size : [Addresses -> Addresses],
   mem : SUBSET (Addresses \X ByteBits)]

NoChunks ==
  [bump |-> HeapBase, live |-> {}, size |-> [a \in Addresses |-> 0], mem |-> {}]

(***************************************************************************)
(* What owi does.                                                          *)
(***************************************************************************)
Alloc(h, base, n) ==
  [h EXCEPT !.live = @ \cup {base}, !.size = [@ EXCEPT ![base] = n]]

DeallocTraps(h, p) == p /= Null /\ p \notin h.live

(* Faulty: the new map is not stored. *)
Dealloc_NotStored(h, p) == h
Dealloc(h, p) ==
  IF p = Null THEN h
  ELSE [h EXCEPT !.live = @ \ {p}, !.size = [@ EXCEPT ![p] = 0]]

(* The check before n bytes are accessed at offset i of the chunk at p. *)
(* Faulty: the byte after the chunk is let through. *)
Fits_OffByOne(h, p, i, n) == i + n - 1 <= h.size[p]
Fits(h, p, i, n) ==
  /\ i < h.size[p]
  /\ (i + n - 1) % AddressSpace < h.size[p]
Access(h, p, i, n) ==
  IF p = Null THEN "ok"
  ELSE IF p \notin h.live THEN "use_after_free"
  ELSE IF Fits(h, p, i, n) THEN "ok" ELSE "heap_overflow"

Byte(h, a) == {b \in ByteBits : <<a, b>> \in h.mem}
AddressesFrom(p, i, n) == {(p + i + k) % AddressSpace : k \in 0 .. n - 1}

(* Every byte at an address of A becomes v. *)
SetBytes(h, A, v) ==
  [h EXCEPT !.mem = {c \in @ : c[1] \notin A} \cup (A \X v)]
CopyBytes(h, dst, src, n) ==
  LET kept == {c \in h.mem : c[1] \notin AddressesFrom(dst, 0, n)}
      copied == UNION {{(dst + k) % AddressSpace} \X Byte(h, (src + k) % AddressSpace)
                        : k \in 0 .. n - 1}
  IN [h EXCEPT !.mem = kept \cup copied]

(***************************************************************************)
(* What the C library does.                                                *)
(***************************************************************************)

(* closest_pow2, at most 16 *)
Alignment(n) ==
  IF n < 2 THEN 1 ELSE IF n < 4 THEN 2 ELSE IF n < 8 THEN 4
  ELSE IF n < 16 THEN 8 ELSE 16

Padding(h, n) ==
  IF h.bump % Alignment(n) = 0 THEN 0
  ELSE Alignment(n) - (h.bump % Alignment(n))

(* The pointers and sizes are unsigned ints: both sums may wrap around. *)
MallocStart(h, n) == (h.bump + Padding(h, n)) % AddressSpace

MallocPtr(h, n) == IF n = 0 THEN Null ELSE MallocStart(h, n)

(* Faulty: the padding is forgotten when the pointer moves. *)
Malloc_OldBump(h, n) ==
  IF n = 0 THEN h
  ELSE Alloc([h EXCEPT !.bump = (n + @) % AddressSpace], MallocStart(h, n), n)
Malloc(h, n) ==
  IF n = 0 THEN h
  ELSE Alloc([h EXCEPT !.bump = (n + MallocStart(h, n)) % AddressSpace],
             MallocStart(h, n), n)

CallocBytes(nmemb, size) == (nmemb * size) % AddressSpace

(* owi_malloc takes the address of its first argument as the new base; an  *)
(* unaligned or interior pointer would give a chunk of its own there.      *)
ReallocBase(p, i) == IF p = Null THEN 0 ELSE (p + i) % AddressSpace

Realloc(h, p, i, n) == Alloc(Dealloc(h, p), ReallocBase(p, i), n)
=============================================================================
