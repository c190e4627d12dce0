--------------------------- MODULE Runtime_proofs ---------------------------
(***************************************************************************)
(* Proofs about the heap of explored programs, the contracts in it and the *)
(* scopes of symbols, for address spaces of any size, any sizes, offsets   *)
(* and numbers of behaviours, and any number of calls.                     *)
(*                                                                         *)
(* The argument is the one behind malloc: the chunks ever given lie behind *)
(* each other below the pointer, and the one of realloc(NULL, n) alone     *)
(* below the heap (HeapGood, NullGood), so an access that owi lets         *)
(* through stays in its chunk (AccessInside), no other chunk has its bytes *)
(* (ChunksApart), and a new chunk lies behind everything that was ever     *)
(* written (NewChunk).  A contract is then changed by the calls on it only *)
(* (ContractStays).  RuntimeInv puts these together, with one lemma for    *)
(* each call of the program.                                               *)
(***************************************************************************)
EXTENDS Runtime, FiniteSetTheorems, FunctionTheorems, TLAPS

(* Addresses are the numbers below the size of the address space.          *)
LEMMA AddressRange ==
  /\ AddressSpace \in Nat /\ AddressSpace > 16
  /\ HeapBase \in Nat /\ HeapBase >= 16 /\ HeapBase \in Addresses
  /\ \A x \in Addresses : x \in Nat /\ x < AddressSpace
  /\ \A x \in Nat : x < AddressSpace => x \in Addresses
  /\ Null \notin Addresses
BY HeapAssumption DEF Addresses

(* The heap does not begin at the very end of the address space.            *)
LEMMA HeapRoom == HeapBase + 16 <= AddressSpace
BY HeapAssumption

(* Modulo the size of the address space, a number is an address and an      *)
(* address is itself.                                                       *)
LEMMA Modulo ==
  /\ \A x \in Int : x % AddressSpace \in Addresses
  /\ \A x \in Addresses : x % AddressSpace = x
<1>1. AddressSpace \in Nat /\ AddressSpace > 16
  BY AddressRange
<1>2. \A x \in Int : x % AddressSpace \in 0 .. AddressSpace - 1
  BY <1>1
<1>3. \A x \in 0 .. AddressSpace - 1 : x % AddressSpace = x
  BY <1>1
<1> QED BY <1>2, <1>3 DEF Addresses

(* The parts of a heap, without the set of all of them.                     *)
LEMMA HeapParts ==
  ASSUME NEW h \in HeapType
  PROVE  /\ h.bump \in Addresses /\ h.live \subseteq Addresses
         /\ h.size \in [Addresses -> Addresses]
         /\ h.mem \subseteq Addresses \X ByteBits
         /\ h = [bump |-> h.bump, live |-> h.live, size |-> h.size, mem |-> h.mem]
BY DEF HeapType

(* An access that is let through touches bytes of its chunk only, although  *)
(* the check wraps around.                                                  *)
LEMMA AccessInside ==
  ASSUME NEW h \in HeapType, NEW own \in [Addresses -> Owners],
         NEW giv \in [Addresses -> Addresses], HeapGood(h, own, giv),
         NEW p \in Addresses, NEW i \in Addresses, NEW n \in 1 .. 16,
         Access(h, p, i, n) = "ok"
  PROVE  /\ p \in h.live
         /\ i + n <= h.size[p]
         /\ \A x \in AddressesFrom(p, i, n) :
              x \in Addresses /\ p <= x /\ x < p + h.size[p]
<1>1. p \in h.live /\ Fits(h, p, i, n)
  BY AddressRange DEF Access
<1>2. h.size[p] \in Addresses /\ giv[p] \in Addresses /\ h.bump \in Addresses
  BY HeapParts
<1>3. own[p] /= "none" /\ h.size[p] <= giv[p]
  BY <1>1 DEF HeapGood, InUse
<1>4. (HeapBase <= p \/ giv[p] = HeapBase) /\ p + giv[p] <= h.bump
  BY <1>3 DEF HeapGood, InPlace
<1>5. /\ h.size[p] \in Nat /\ giv[p] \in Nat /\ h.bump \in Nat
      /\ h.size[p] <= giv[p] /\ p + giv[p] <= h.bump
      /\ h.bump < AddressSpace /\ p \in Nat /\ i \in Nat
  BY <1>2, <1>3, <1>4, AddressRange
<1>6. i < h.size[p] /\ i + n - 1 < AddressSpace /\ i + n - 1 \in Nat
  <2>1. i < h.size[p]
    BY <1>1 DEF Fits
  <2>2. AddressSpace \in Nat /\ HeapBase \in Nat /\ HeapBase >= 16
    BY AddressRange
  <2>3. h.size[p] + 16 <= AddressSpace
    BY ONLY <1>4, <1>5, <2>2, HeapRoom
  <2>4. n \in Nat /\ 1 <= n /\ n <= 16
    OBVIOUS
  <2> QED BY ONLY <1>5, <2>1, <2>2, <2>3, <2>4
<1>7. i + n - 1 \in Addresses
  BY <1>6, AddressRange
<1>8. (i + n - 1) % AddressSpace = i + n - 1
  BY <1>7, Modulo
<1>9. i + n <= h.size[p]
  BY <1>1, <1>5, <1>6, <1>8 DEF Fits
<1>10. ASSUME NEW k \in 0 .. n - 1
       PROVE  /\ (p + i + k) % AddressSpace \in Addresses
              /\ p <= (p + i + k) % AddressSpace
              /\ (p + i + k) % AddressSpace < p + h.size[p]
  <2>1. p + i + k \in Nat /\ p + i + k < AddressSpace /\ p + i + k < p + h.size[p]
    BY <1>5, <1>9, AddressRange
  <2>2. p + i + k \in Addresses
    BY <2>1, AddressRange
  <2>3. (p + i + k) % AddressSpace = p + i + k
    BY <2>2, Modulo
  <2> QED BY <2>1, <2>2, <2>3, <1>5
<1> QED BY <1>1, <1>9, <1>10 DEF AddressesFrom

(* The parts of the heap after a malloc, whether its sums wrap around or    *)
(* not.                                                                     *)
LEMMA MallocParts ==
  ASSUME NEW h \in HeapType, NEW n \in Addresses
  PROVE  /\ Padding(h, n) \in Nat
         /\ MallocStart(h, n) \in Addresses
         /\ Malloc(h, n) \in HeapType
         /\ Malloc(h, n).mem = h.mem
         /\ n = 0 => Malloc(h, n) = h
         /\ n > 0 =>
              /\ Malloc(h, n).bump = (n + MallocStart(h, n)) % AddressSpace
              /\ Malloc(h, n).live = h.live \cup {MallocStart(h, n)}
              /\ Malloc(h, n).size = [h.size EXCEPT ![MallocStart(h, n)] = n]
              /\ Malloc(h, n).mem = h.mem
<1> DEFINE p == MallocStart(h, n)
<1>1. h.bump \in Nat /\ n \in Nat
  BY HeapParts, AddressRange
<1>2. Padding(h, n) \in Nat
  <2>1. Alignment(n) \in {1, 2, 4, 8, 16}
    BY DEF Alignment
  <2> QED BY <1>1, <2>1 DEF Padding
<1>3. p \in Addresses
  <2>1. h.bump + Padding(h, n) \in Int
    BY <1>1, <1>2
  <2> QED BY <2>1, Modulo DEF MallocStart
<1>4. (n + p) % AddressSpace \in Addresses
  <2>1. n + p \in Int
    <3>1. p \in Nat
      BY <1>3, AddressRange
    <3> HIDE DEF p
    <3> QED BY <1>1, <3>1
  <2> QED BY <2>1, Modulo
<1>5. CASE n = 0
  BY <1>2, <1>3, <1>5 DEF Malloc
<1>6. CASE n > 0
  <2>1. Malloc(h, n) = [bump |-> (n + p) % AddressSpace, live |-> h.live \cup {p},
                        size |-> [h.size EXCEPT ![p] = n], mem |-> h.mem]
    <3>1. n /= 0
      BY <1>6, <1>1
    <3>2. h = [bump |-> h.bump, live |-> h.live, size |-> h.size, mem |-> h.mem]
      BY HeapParts
    <3> QED BY <3>1, <3>2 DEF Malloc, Alloc
  <2>2. Malloc(h, n) \in HeapType
    BY <2>1, <1>3, <1>4, HeapParts DEF HeapType
  <2> QED BY <2>1, <2>2, <1>2, <1>3, <1>6, <1>1
<1> QED BY <1>5, <1>6, <1>1

(* A malloc that does not wrap around gives a chunk behind all others.      *)
LEMMA MallocGood ==
  ASSUME NEW h \in HeapType, NEW own \in [Addresses -> Owners],
         NEW giv \in [Addresses -> Addresses], HeapGood(h, own, giv),
         NEW n \in Addresses, n > 0, ~ Wraps(h, n), NEW who \in InUse
  PROVE  LET p == MallocStart(h, n) IN
         /\ p \in Addresses /\ h.bump <= p /\ own[p] = "none"
         /\ Malloc(h, n).bump = p + n
         /\ HeapGood(Malloc(h, n), [own EXCEPT ![p] = who], [giv EXCEPT ![p] = n])
<1> DEFINE p == MallocStart(h, n)
           m == Malloc(h, n)
<1>1. /\ h.bump \in Nat /\ n \in Nat /\ n > 0 /\ Padding(h, n) \in Nat
      /\ h.bump + Padding(h, n) + n < AddressSpace
  <2>1. h.bump \in Nat /\ n \in Nat /\ n > 0
    BY HeapParts, AddressRange
  <2>2. Padding(h, n) \in Nat
    BY MallocParts
  <2> QED BY <2>1, <2>2, AddressRange DEF Wraps
<1>2. p = h.bump + Padding(h, n)
  <2>1. h.bump + Padding(h, n) \in Addresses
    BY <1>1, AddressRange
  <2> QED BY <2>1, Modulo DEF MallocStart
<1>3. p \in Addresses /\ p \in Nat /\ n + p \in Addresses /\ h.bump <= p
  BY <1>1, <1>2, AddressRange
<1> HIDE DEF p, m
<1>4. /\ m.bump = p + n /\ m.live = h.live \cup {p} /\ m.mem = h.mem
      /\ m.size = [h.size EXCEPT ![p] = n]
  <2>1. (n + p) % AddressSpace = n + p
    BY <1>3, Modulo
  <2>2. /\ m.bump = (n + p) % AddressSpace /\ m.live = h.live \cup {p}
        /\ m.size = [h.size EXCEPT ![p] = n] /\ m.mem = h.mem
    BY MallocParts DEF p, m
  <2>3. n + p = p + n
    BY <1>1, <1>3
  <2> QED BY <2>1, <2>2, <2>3
<1>5. own[p] = "none"
  <2> SUFFICES ASSUME own[p] /= "none" PROVE FALSE
    OBVIOUS
  <2>1. giv[p] > 0 /\ p + giv[p] <= h.bump
    BY <1>3 DEF HeapGood
  <2>2. giv[p] \in Nat
    BY <1>3, AddressRange
  <2> QED BY <2>1, <2>2, <1>1, <1>3
<1> DEFINE own2 == [own EXCEPT ![p] = who]
           giv2 == [giv EXCEPT ![p] = n]
<1>6. HeapBase <= h.bump /\ HeapBase <= m.bump /\ h.bump <= m.bump
  BY <1>1, <1>3, <1>4, AddressRange DEF HeapGood
<1>7. ASSUME NEW x \in Addresses, own2[x] /= "none"
      PROVE  InPlace(x, giv2[x], own2[x]) /\ giv2[x] > 0 /\ x + giv2[x] <= m.bump
  <2>1. CASE x = p
    <3>1. HeapBase <= p /\ giv2[x] = n
      BY <2>1, <1>1, <1>3, <1>6, AddressRange
    <3> QED BY <2>1, <3>1, <1>1, <1>3, <1>4 DEF InPlace
  <2>2. CASE x /= p
    <3>1. /\ giv2[x] = giv[x] /\ own2[x] = own[x]
          /\ own[x] /= "none" /\ giv[x] \in Nat /\ x \in Nat
      BY <2>2, <1>7, AddressRange
    <3>2. InPlace(x, giv[x], own[x]) /\ giv[x] > 0 /\ x + giv[x] <= h.bump
      BY <3>1 DEF HeapGood
    <3> QED BY <3>1, <3>2, <1>1, <1>3, <1>4
  <2> QED BY <2>1, <2>2
<1>8. ASSUME NEW x \in Addresses, NEW y \in Addresses, own2[x] /= "none",
             own2[y] /= "none", x < y
      PROVE  x + giv2[x] <= y
  <2>0. x \in Nat /\ y \in Nat /\ giv[x] \in Nat /\ giv[y] \in Nat
    BY AddressRange
  <2>1. CASE x = p
    <3>1. y /= p /\ own[y] /= "none"
      BY <2>0, <2>1, <1>8
    <3>2. giv[y] > 0 /\ y + giv[y] <= h.bump
      BY <3>1 DEF HeapGood
    <3> QED BY <2>0, <2>1, <3>2, <1>1, <1>3, <1>8
  <2>2. CASE x /= p /\ y = p
    <3>1. own[x] /= "none" /\ giv2[x] = giv[x]
      BY <2>2, <1>8
    <3>2. x + giv[x] <= h.bump
      BY <3>1 DEF HeapGood
    <3> QED BY <2>0, <2>2, <3>1, <3>2, <1>1, <1>3
  <2>3. CASE x /= p /\ y /= p
    <3>1. own[x] /= "none" /\ own[y] /= "none" /\ giv2[x] = giv[x]
      BY <2>3, <1>8
    <3> QED BY <3>1, <1>8 DEF HeapGood
  <2> QED BY <2>1, <2>2, <2>3
<1>9. ASSUME NEW x \in m.live
      PROVE  m.size[x] <= giv2[x]
  <2>1. h.live \subseteq Addresses /\ h.size \in [Addresses -> Addresses]
    BY HeapParts
  <2>2. CASE x = p
    BY <2>1, <2>2, <1>1, <1>3, <1>4
  <2>3. CASE x /= p
    <3>1. x \in h.live /\ m.size[x] = h.size[x] /\ giv2[x] = giv[x]
      BY <2>1, <2>3, <1>4, <1>9
    <3> QED BY <3>1 DEF HeapGood
  <2> QED BY <2>2, <2>3
<1>10. m.live = {x \in Addresses : own2[x] \in InUse}
  BY <1>3, <1>4 DEF HeapGood
<1>11. ASSUME NEW c \in m.mem
       PROVE  c[1] < m.bump
  <2>1. c \in h.mem /\ c[1] \in Addresses
    BY <1>4, HeapParts
  <2>2. c[1] < h.bump
    BY <2>1 DEF HeapGood
  <2>3. c[1] \in Nat /\ m.bump = p + n /\ h.bump <= p
    BY <2>1, <1>3, <1>4, AddressRange
  <2> QED BY <2>2, <2>3, <1>1, <1>3
<1>12. HeapGood(m, own2, giv2)
  BY <1>6, <1>7, <1>8, <1>9, <1>10, <1>11 DEF HeapGood
<1> QED BY <1>3, <1>4, <1>5, <1>12 DEF p, m

(* Two chunks in use have no address in common.                             *)
LEMMA ChunksApart ==
  ASSUME NEW h \in HeapType, NEW own \in [Addresses -> Owners],
         NEW giv \in [Addresses -> Addresses], HeapGood(h, own, giv),
         NEW x \in h.live, NEW p \in h.live, x /= p,
         NEW k \in 0 .. h.size[x] - 1
  PROVE  /\ x + k \in Nat /\ x + k < h.bump
         /\ ~ (p <= x + k /\ x + k < p + h.size[p])
<1>1. /\ x \in Addresses /\ p \in Addresses
      /\ h.size[x] \in Addresses /\ h.size[p] \in Addresses
      /\ giv[x] \in Addresses /\ giv[p] \in Addresses /\ h.bump \in Addresses
  BY HeapParts
<1>2. /\ x \in Nat /\ p \in Nat /\ h.size[x] \in Nat /\ h.size[p] \in Nat
      /\ giv[x] \in Nat /\ giv[p] \in Nat /\ h.bump \in Nat
  BY <1>1, AddressRange
<1>3. own[x] /= "none" /\ own[p] /= "none"
  BY <1>1 DEF HeapGood, InUse
<1>4. h.size[x] <= giv[x] /\ h.size[p] <= giv[p] /\ x + giv[x] <= h.bump
  BY <1>1, <1>3 DEF HeapGood
<1>5. (x < p => x + giv[x] <= p) /\ (p < x => p + giv[p] <= x)
  BY <1>1, <1>3 DEF HeapGood
<1> QED BY <1>2, <1>4, <1>5

(* A write changes only the bytes it writes.                                *)
LEMMA SetBytesParts ==
  ASSUME NEW h \in HeapType, NEW A \in SUBSET Addresses, NEW v \in SUBSET ByteBits
  PROVE  /\ SetBytes(h, A, v) \in HeapType
         /\ SetBytes(h, A, v).bump = h.bump
         /\ SetBytes(h, A, v).live = h.live
         /\ SetBytes(h, A, v).size = h.size
         /\ \A c \in SetBytes(h, A, v).mem : c \in h.mem \/ c[1] \in A
         /\ \A x, b : x \notin A =>
              (<<x, b>> \in SetBytes(h, A, v).mem <=> <<x, b>> \in h.mem)
<1> DEFINE mem2 == {c \in h.mem : c[1] \notin A} \cup (A \X v)
<1>1. SetBytes(h, A, v) = [bump |-> h.bump, live |-> h.live, size |-> h.size, mem |-> mem2]
  <2>1. h = [bump |-> h.bump, live |-> h.live, size |-> h.size, mem |-> h.mem]
    BY HeapParts
  <2>2. SetBytes(h, A, v) = [h EXCEPT !.mem = mem2]
    BY DEF SetBytes
  <2> HIDE DEF mem2
  <2> QED BY <2>1, <2>2
<1>2. mem2 \subseteq Addresses \X ByteBits
  BY HeapParts
<1>3. SetBytes(h, A, v) \in HeapType
  BY <1>1, <1>2, HeapParts DEF HeapType
<1>4. \A c \in mem2 : c \in h.mem \/ c[1] \in A
  OBVIOUS
<1>5. \A x, b : x \notin A => (<<x, b>> \in mem2 <=> <<x, b>> \in h.mem)
  OBVIOUS
<1> QED BY <1>1, <1>3, <1>4, <1>5

(* Writing inside of the chunks keeps the heap good.                        *)
LEMMA WriteGood ==
  ASSUME NEW h \in HeapType, NEW own, NEW giv, HeapGood(h, own, giv),
         NEW h2 \in HeapType, h2.bump = h.bump, h2.live = h.live, h2.size = h.size,
         \A c \in h2.mem : c \in h.mem \/ c[1] < h.bump
  PROVE  HeapGood(h2, own, giv)
<1>1. \A c \in h2.mem : c[1] < h2.bump
  BY DEF HeapGood
<1> QED BY <1>1 DEF HeapGood

(* A call of malloc takes the history with it.                              *)
LEMMA GivesGood ==
  ASSUME TypeOK, sound => HeapGood(heap, owner, given), NEW n \in Addresses,
         NEW who \in InUse, Gives(heap, n, who)
  PROVE  /\ owner' \in [Addresses -> Owners] /\ given' \in [Addresses -> Addresses]
         /\ sound' \in BOOLEAN
         /\ sound' => /\ sound
                      /\ HeapGood(Malloc(heap, n), owner', given')
                      /\ \A x \in heap.live :
                           /\ owner'[x] = owner[x]
                           /\ Malloc(heap, n).size[x] = heap.size[x]
                           /\ n > 0 => x /= MallocStart(heap, n)
<1>1. heap \in HeapType /\ owner \in [Addresses -> Owners]
      /\ given \in [Addresses -> Addresses] /\ sound \in BOOLEAN
  BY DEF TypeOK
<1>2. n \in Nat /\ MallocStart(heap, n) \in Addresses
  BY <1>1, AddressRange, MallocParts
<1>3. owner' \in [Addresses -> Owners] /\ given' \in [Addresses -> Addresses]
  BY <1>1, <1>2 DEF Gives, InUse, Owners
<1>4. sound' \in BOOLEAN /\ (sound' => sound /\ ~ Wraps(heap, n))
  BY <1>1 DEF Gives
<1>5. ASSUME sound'
      PROVE  /\ HeapGood(Malloc(heap, n), owner', given')
             /\ \A x \in heap.live :
                  /\ owner'[x] = owner[x]
                  /\ Malloc(heap, n).size[x] = heap.size[x]
                  /\ n > 0 => x /= MallocStart(heap, n)
  <2>1. CASE n = 0
    <3>1. Malloc(heap, n) = heap
      BY <1>1, <2>1, MallocParts
    <3>2. owner' = owner /\ given' = given
      BY <2>1 DEF Gives
    <3>3. sound
      BY <1>4, <1>5
    <3> QED BY <1>2, <2>1, <3>1, <3>2, <3>3
  <2>2. CASE n > 0
    <3>1. owner[MallocStart(heap, n)] = "none"
      BY <1>1, <1>4, <1>5, <2>2, MallocGood
    <3>2. HeapGood(Malloc(heap, n), owner', given')
      <4>1. HeapGood(Malloc(heap, n), [owner EXCEPT ![MallocStart(heap, n)] = who],
                     [given EXCEPT ![MallocStart(heap, n)] = n])
        BY <1>1, <1>4, <1>5, <2>2, MallocGood
      <4>2. /\ owner' = [owner EXCEPT ![MallocStart(heap, n)] = who]
            /\ given' = [given EXCEPT ![MallocStart(heap, n)] = n]
        BY <2>2 DEF Gives
      <4> QED BY <4>1, <4>2
    <3>3. \A x \in heap.live : x \in Addresses /\ owner[x] /= "none"
      BY <1>1, <1>4, <1>5, HeapParts DEF HeapGood, InUse
    <3>4. owner' = [owner EXCEPT ![MallocStart(heap, n)] = who]
      BY <2>2 DEF Gives
    <3>5. Malloc(heap, n).size = [heap.size EXCEPT ![MallocStart(heap, n)] = n]
      BY <1>1, <2>2, MallocParts
    <3> QED BY <1>1, <3>1, <3>2, <3>3, <3>4, <3>5, HeapParts
  <2> QED BY <1>2, <2>1, <2>2
<1> QED BY <1>3, <1>4, <1>5

(* What a step must leave alone of a chunk of a contract.                   *)
Untouched(x) ==
  /\ owner'[x] = owner[x] /\ heap'.size[x] = heap.size[x]
  /\ \A k \in 0 .. heap.size[x] - 1, b \in ByteBits :
       <<x + k, b>> \in heap'.mem <=> <<x + k, b>> \in heap.mem

ContractsUntouched == \A x \in heap.live : owner[x] = "contract" => Untouched(x)

(* A contract in use stays as it is when its fields and chunks do.          *)
LEMMA ContractStays ==
  ASSUME NEW c \in Addresses, ContractGood(c), Untouched(c),
         char_count[c] > 0 => Untouched(assumes[c]),
         char_count'[c] = char_count[c], declared'[c] = declared[c],
         said'[c] = said[c], assumes'[c] = assumes[c]
  PROVE  ContractGood(c)'
<1>1. char_count[c] > 0 =>
        /\ assumes[c] \in Addresses
        /\ owner'[assumes[c]] = "contract"
        /\ heap'.size[assumes[c]] = char_count[c]
        /\ \A x \in 0 .. char_count[c] - 1, b \in ByteBits :
             <<assumes[c] + x, b>> \in heap'.mem <=> 8 * x + b \in said[c]
  BY DEF Untouched, ContractGood
<1>2. owner'[c] = "contract" /\ heap'.size[c] = StructSize
  BY DEF Untouched, ContractGood
<1> QED BY <1>1, <1>2 DEF ContractGood, Behaviours

(* The chunks of a contract are in use.                                     *)
LEMMA ContractChunks ==
  ASSUME TypeOK, HeapGood(heap, owner, given), NEW c \in open, ContractGood(c)
  PROVE  /\ c \in Addresses /\ c \in heap.live /\ owner[c] = "contract"
         /\ char_count[c] > 0 =>
              /\ assumes[c] \in Addresses /\ assumes[c] \in heap.live
              /\ owner[assumes[c]] = "contract"
BY DEF ContractGood, HeapGood, InUse, TypeOK

(* A step that leaves the contracts and their chunks alone keeps them good. *)
LEMMA ContractsKept ==
  ASSUME TypeOK, sound, RuntimeInv, UNCHANGED contractVars, ContractsUntouched
  PROVE  (\A c \in open : ContractGood(c))' /\ ContractsApart'
<1>1. ContractsApart'
  BY DEF ContractsApart, RuntimeInv, contractVars
<1>2. ASSUME NEW c \in open
      PROVE  ContractGood(c)'
  <2>1. ContractGood(c) /\ HeapGood(heap, owner, given)
    BY DEF RuntimeInv
  <2>2. /\ c \in Addresses /\ Untouched(c)
        /\ char_count[c] > 0 => Untouched(assumes[c])
    BY <2>1, ContractChunks DEF ContractsUntouched
  <2>3. /\ char_count' = char_count /\ declared' = declared
        /\ said' = said /\ assumes' = assumes
    BY DEF contractVars
  <2> QED BY <2>1, <2>2, <2>3, ContractStays
<1> QED BY <1>1, <1>2 DEF contractVars

(* What a call that leaves the contracts alone does to the heap.            *)
HeapStep ==
  /\ heap' \in HeapType /\ owner' \in [Addresses -> Owners]
  /\ given' \in [Addresses -> Addresses] /\ sound' \in BOOLEAN
  /\ sound' => /\ sound /\ HeapGood(heap', owner', given') /\ ContractsUntouched

(* A call that leaves the contracts alone keeps the invariant when it       *)
(* keeps the heap good and leaves no scope open but at the end of the       *)
(* path.                                                                    *)
LEMMA HeapStepInv ==
  ASSUME RuntimeInv, Step, UNCHANGED contractVars, HeapStep,
         status' \in {"running"} \cup Ends, depth' \in Nat,
         depth' > 0 => status' /= "running" /\ ScopesClosed'
  PROVE  RuntimeInv'
<1>1. TypeOK'
  BY DEF RuntimeInv, TypeOK, HeapStep, Step, contractVars
<1>2. sound' => (\A c \in open : ContractGood(c))' /\ ContractsApart'
  BY ContractsKept DEF HeapStep, RuntimeInv
<1>3. ScopesClosed' /\ (status' = "running" => depth' = 0)
  BY DEF ScopesClosed
<1>4. (\A c \in open : declared[c] > 0 => assumes[c] \in Addresses)'
  BY DEF RuntimeInv, contractVars
<1> QED BY <1>1, <1>2, <1>3, <1>4 DEF RuntimeInv, HeapStep

(* Nothing in the heap changes.                                             *)
LEMMA HeapSame ==
  ASSUME RuntimeInv, UNCHANGED <<heap, owner, given, sound>>
  PROVE  HeapStep
<1>1. heap' = heap /\ owner' = owner /\ given' = given /\ sound' = sound
  OBVIOUS
<1>2. ContractsUntouched
  BY <1>1 DEF ContractsUntouched, Untouched
<1> QED BY <1>1, <1>2 DEF RuntimeInv, TypeOK, HeapStep

(* malloc keeps the invariant.                                              *)
LEMMA MallocInv ==
  ASSUME RuntimeInv, NEW n \in Addresses, malloc(n)
  PROVE  RuntimeInv'
<1>1. /\ TypeOK /\ heap \in HeapType /\ (sound => HeapGood(heap, owner, given))
      /\ heap' = Malloc(heap, n) /\ Gives(heap, n, "program")
      /\ Step /\ UNCHANGED <<depth, status, contractVars>>
  BY DEF RuntimeInv, TypeOK, malloc, HeapOnly
<1>2. HeapStep
  <2>1. heap' \in HeapType /\ heap'.mem = heap.mem
    BY <1>1, MallocParts
  <2>2. /\ owner' \in [Addresses -> Owners] /\ given' \in [Addresses -> Addresses]
        /\ sound' \in BOOLEAN
        /\ sound' => /\ sound /\ HeapGood(heap', owner', given')
                     /\ \A x \in heap.live : owner'[x] = owner[x] /\ heap'.size[x] = heap.size[x]
    BY <1>1, GivesGood DEF InUse
  <2> QED BY <2>1, <2>2 DEF HeapStep, ContractsUntouched, Untouched
<1>3. status' = "running" /\ depth' = 0
  BY <1>1 DEF Step, RuntimeInv
<1> QED BY <1>1, <1>2, <1>3, HeapStepInv

(* The heap after a free, and after it the other chunks.                    *)
LEMMA DeallocParts ==
  ASSUME NEW h \in HeapType, NEW p \in Addresses
  PROVE  /\ Dealloc(h, p) \in HeapType
         /\ Dealloc(h, p) = [bump |-> h.bump, live |-> h.live \ {p},
                             size |-> [h.size EXCEPT ![p] = 0], mem |-> h.mem]
<1>1. p /= Null /\ 0 \in Addresses
  BY AddressRange
<1>2. h = [bump |-> h.bump, live |-> h.live, size |-> h.size, mem |-> h.mem]
  BY HeapParts
<1>3. Dealloc(h, p) = [bump |-> h.bump, live |-> h.live \ {p},
                       size |-> [h.size EXCEPT ![p] = 0], mem |-> h.mem]
  BY <1>1, <1>2 DEF Dealloc
<1> QED BY <1>1, <1>3, HeapParts DEF HeapType

(* A free of a chunk in use keeps the heap good: the chunk stays where it   *)
(* is, given to nobody.                                                     *)
LEMMA DeallocGood ==
  ASSUME NEW h \in HeapType, NEW own \in [Addresses -> Owners],
         NEW giv \in [Addresses -> Addresses], HeapGood(h, own, giv), NEW p \in h.live
  PROVE  /\ Dealloc(h, p).mem = h.mem
         /\ Dealloc(h, p).live = h.live \ {p}
         /\ \A x \in h.live : x /= p => Dealloc(h, p).size[x] = h.size[x]
         /\ HeapGood(Dealloc(h, p), [own EXCEPT ![p] = "freed"], giv)
<1> DEFINE d == Dealloc(h, p)
<1>1. /\ p \in Addresses /\ h.live \subseteq Addresses
      /\ h.size \in [Addresses -> Addresses]
  BY HeapParts
<1>2. d = [bump |-> h.bump, live |-> h.live \ {p}, size |-> [h.size EXCEPT ![p] = 0],
           mem |-> h.mem]
  BY <1>1, DeallocParts
<1>4. own[p] \in InUse /\ own[p] /= "none"
  BY <1>1 DEF HeapGood, InUse
<1> DEFINE own2 == [own EXCEPT ![p] = "freed"]
<1>5. \A x \in Addresses : own2[x] /= "none" <=> own[x] /= "none"
  BY <1>1, <1>4
<1>6. d.live = {x \in Addresses : own2[x] \in InUse}
  BY <1>1, <1>2 DEF HeapGood, InUse
<1>7. \A x \in d.live : d.size[x] = h.size[x] /\ x \in h.live
  BY <1>1, <1>2
<1>12. \A x \in Addresses : own2[x] /= "none" => InPlace(x, giv[x], own2[x])
  <2> SUFFICES ASSUME NEW x \in Addresses, own2[x] /= "none"
               PROVE  InPlace(x, giv[x], own2[x])
    OBVIOUS
  <2>1. InPlace(x, giv[x], own[x])
    BY <1>5 DEF HeapGood
  <2>2. own2[x] = IF x = p THEN "freed" ELSE own[x]
    BY <1>1
  <2> QED BY <2>1, <2>2 DEF InPlace
<1>8. /\ HeapBase <= d.bump
      /\ \A x \in Addresses :
           own2[x] /= "none" =>
             InPlace(x, giv[x], own2[x]) /\ giv[x] > 0 /\ x + giv[x] <= d.bump
  BY <1>2, <1>5, <1>12 DEF HeapGood
<1>9. \A x, y \in Addresses :
        own2[x] /= "none" /\ own2[y] /= "none" /\ x < y => x + giv[x] <= y
  BY <1>5 DEF HeapGood
<1>10. (\A x \in d.live : d.size[x] <= giv[x])
       /\ (\A c \in d.mem : c[1] < d.bump)
  BY <1>2, <1>7 DEF HeapGood
<1>11. HeapGood(d, own2, giv)
  BY <1>6, <1>8, <1>9, <1>10 DEF HeapGood
<1> QED BY <1>1, <1>2, <1>11

(* free keeps the invariant: the program cannot free the chunks of a        *)
(* contract.                                                                *)
LEMMA FreeInv ==
  ASSUME RuntimeInv, NEW p \in Pointers \cup {Null}, free(p)
  PROVE  RuntimeInv'
<1>1. /\ TypeOK /\ heap \in HeapType /\ owner \in [Addresses -> Owners]
      /\ given \in [Addresses -> Addresses] /\ sound \in BOOLEAN
      /\ (sound => HeapGood(heap, owner, given))
      /\ Step /\ UNCHANGED <<depth, contractVars, given, sound>>
  BY DEF RuntimeInv, TypeOK, free, HeapOnly
<1>2. status = "running" /\ depth' = 0
  BY <1>1 DEF Step, RuntimeInv
<1>3. CASE DeallocTraps(heap, p)
  <2>1. status' = "double_free" /\ UNCHANGED <<heap, owner>>
    BY <1>3 DEF free
  <2> QED BY <1>1, <1>2, <2>1, HeapSame, HeapStepInv DEF Ends, Traps
<1>4. CASE ~ DeallocTraps(heap, p) /\ p = Null
  <2>1. UNCHANGED <<status, heap, owner>>
    BY <1>4 DEF free, Dealloc
  <2> QED BY <1>1, <1>2, <2>1, HeapSame, HeapStepInv
<1>5. CASE ~ DeallocTraps(heap, p) /\ p /= Null
  <2>1. /\ p \in heap.live /\ p \in Pointers /\ status' = status
        /\ heap' = Dealloc(heap, p) /\ owner' = [owner EXCEPT ![p] = "freed"]
    BY <1>5 DEF free, DeallocTraps
  <2>2. p \in Addresses /\ owner[p] /= "contract"
    BY <2>1 DEF Pointers
  <2>3. heap' \in HeapType /\ owner' \in [Addresses -> Owners]
    <3>1. Dealloc(heap, p) \in HeapType
      BY <1>1, <2>2, DeallocParts
    <3> QED BY <1>1, <2>1, <3>1 DEF Owners
  <2>4. sound' => sound /\ HeapGood(heap', owner', given') /\ ContractsUntouched
    <3> SUFFICES ASSUME sound PROVE HeapGood(heap', owner', given') /\ ContractsUntouched
      BY <1>1
    <3>1. HeapGood(heap', owner', given')
      BY <1>1, <2>1, DeallocGood
    <3>2. ContractsUntouched
      <4>1. heap'.mem = heap.mem /\ \A x \in heap.live : x /= p => heap'.size[x] = heap.size[x]
        BY <1>1, <2>1, DeallocGood
      <4>2. heap.live \subseteq Addresses
        BY <1>1, HeapParts
      <4> QED BY <1>1, <2>1, <2>2, <4>1, <4>2 DEF ContractsUntouched, Untouched
    <3> QED BY <3>1, <3>2
  <2>5. HeapStep
    BY <1>1, <2>3, <2>4 DEF HeapStep
  <2> QED BY <1>1, <1>2, <2>1, <2>5, HeapStepInv
<1> QED BY <1>3, <1>4, <1>5

(* The chunk at 0 may be made when it fills no more than what is below the  *)
(* heap: everything else is in the heap.                                    *)
LEMMA NullGood ==
  ASSUME NEW h \in HeapType, NEW own \in [Addresses -> Owners],
         NEW giv \in [Addresses -> Addresses], HeapGood(h, own, giv),
         NEW n \in Addresses, n <= HeapBase,
         NEW h2, h2.bump = h.bump, h2.mem = h.mem, h2.live = h.live \cup {0},
         h2.size = [h.size EXCEPT ![0] = n]
  PROVE  /\ own[0] \in {"none", "program", "freed"}
         /\ HeapGood(h2, [own EXCEPT ![0] = "program"], [giv EXCEPT ![0] = HeapBase])
<1> DEFINE own2 == [own EXCEPT ![0] = "program"]
           giv2 == [giv EXCEPT ![0] = HeapBase]
<1>1. /\ 0 \in Addresses /\ HeapBase \in Addresses /\ HeapBase \in Nat /\ HeapBase >= 16
      /\ n \in Nat /\ h.bump \in Nat /\ HeapBase <= h.bump
      /\ h.live \subseteq Addresses /\ h.size \in [Addresses -> Addresses]
  BY HeapParts, AddressRange DEF HeapGood
<1>2. \A x \in Addresses : /\ x \in Nat /\ giv[x] \in Nat
                           /\ own2[x] = IF x = 0 THEN "program" ELSE own[x]
                           /\ giv2[x] = IF x = 0 THEN HeapBase ELSE giv[x]
  BY <1>1, AddressRange
<1>3. \A x \in Addresses : own[x] /= "none" /\ x /= 0 => HeapBase <= x
  BY DEF HeapGood, InPlace
<1>4. own[0] \in {"none", "program", "freed"}
  <2>1. own[0] /= "none" => InPlace(0, giv[0], own[0])
    BY <1>1 DEF HeapGood
  <2>2. ~ (HeapBase <= 0)
    BY <1>1
  <2> QED BY <2>1, <2>2 DEF InPlace
<1>5. ASSUME NEW x \in Addresses, own2[x] /= "none"
      PROVE  InPlace(x, giv2[x], own2[x]) /\ giv2[x] > 0 /\ x + giv2[x] <= h2.bump
  <2>1. CASE x = 0
    BY <1>1, <1>2, <2>1 DEF InPlace
  <2>2. CASE x /= 0
    BY <1>2, <1>5, <2>2 DEF HeapGood
  <2> QED BY <2>1, <2>2
<1>6. ASSUME NEW x \in Addresses, NEW y \in Addresses, own2[x] /= "none",
             own2[y] /= "none", x < y
      PROVE  x + giv2[x] <= y
  <2>1. y /= 0 /\ own[y] /= "none" /\ HeapBase <= y
    BY <1>2, <1>3, <1>6
  <2>2. CASE x = 0
    BY <1>1, <1>2, <2>1, <2>2
  <2>3. CASE x /= 0
    BY <1>2, <1>6, <2>1, <2>3 DEF HeapGood
  <2> QED BY <2>2, <2>3
<1>7. ASSUME NEW x \in h2.live
      PROVE  h2.size[x] <= giv2[x]
  <2>1. CASE x = 0
    BY <1>1, <2>1
  <2>2. CASE x /= 0
    <3>1. x \in h.live /\ x \in Addresses
      BY <1>1, <1>7, <2>2
    <3>2. h2.size[x] = h.size[x] /\ giv2[x] = giv[x]
      BY <1>1, <1>2, <2>2, <3>1
    <3> QED BY <3>1, <3>2 DEF HeapGood
  <2> QED BY <2>1, <2>2
<1>8. h2.live = {x \in Addresses : own2[x] \in InUse}
  <2>1. h.live = {x \in Addresses : own[x] \in InUse}
    BY DEF HeapGood
  <2> QED BY <1>1, <1>2, <2>1 DEF InUse
<1>9. HeapBase <= h2.bump /\ \A c \in h2.mem : c[1] < h2.bump
  BY <1>1 DEF HeapGood
<1>10. HeapGood(h2, own2, giv2)
  BY <1>5, <1>6, <1>7, <1>8, <1>9 DEF HeapGood
<1> QED BY <1>4, <1>10

(* A chunk reallocated in place is no larger than its room, and a new one   *)
(* fills no more than what is below the heap.                               *)
LEMMA ReallocInv ==
  ASSUME RuntimeInv, NEW p \in Pointers \cup {Null}, NEW i \in Int, NEW n \in Addresses,
         realloc(p, i, n)
  PROVE  RuntimeInv'
<1> DEFINE base == ReallocBase(p, i)
           before == IF p = Null THEN owner ELSE [owner EXCEPT ![p] = "freed"]
           freed == Dealloc(heap, p)
<1>1. /\ TypeOK /\ heap \in HeapType /\ owner \in [Addresses -> Owners]
      /\ given \in [Addresses -> Addresses] /\ sound \in BOOLEAN
      /\ (sound => HeapGood(heap, owner, given))
      /\ Step /\ UNCHANGED <<depth, contractVars>>
  BY DEF RuntimeInv, TypeOK, realloc, HeapOnly
<1>2. status = "running" /\ depth' = 0
  BY <1>1 DEF Step, RuntimeInv
<1>3. CASE DeallocTraps(heap, p)
  <2>1. status' = "double_free" /\ UNCHANGED <<heap, owner, given, sound>>
    BY <1>3 DEF realloc
  <2> QED BY <1>1, <1>2, <2>1, HeapSame, HeapStepInv DEF Ends, Traps
<1>4. CASE ~ DeallocTraps(heap, p)
  <2>1. /\ heap' = Alloc(freed, base, n) /\ owner' = [before EXCEPT ![base] = "program"]
        /\ given' = IF p = Null THEN [given EXCEPT ![0] = HeapBase] ELSE given
        /\ sound' = (sound /\ base = (IF p = Null THEN 0 ELSE p) /\ n <= given'[base])
        /\ status' = status
    BY <1>4 DEF realloc, Realloc
  <2>2. base \in Addresses
    <3>1. CASE p = Null
      BY <3>1, AddressRange DEF ReallocBase
    <3>2. CASE p /= Null
      <4>1. p + i \in Int
        BY <3>2, AddressRange DEF Pointers
      <4> QED BY <3>2, <4>1, Modulo DEF ReallocBase
    <3> QED BY <3>1, <3>2
  <2>3. freed \in HeapType
    BY <1>1, DeallocParts DEF Dealloc, Pointers
  <2>4. heap' = [bump |-> freed.bump, live |-> freed.live \cup {base},
                 size |-> [freed.size EXCEPT ![base] = n], mem |-> freed.mem]
    <3>1. freed = [bump |-> freed.bump, live |-> freed.live, size |-> freed.size,
                   mem |-> freed.mem]
      BY <2>3, HeapParts
    <3> HIDE DEF freed, base
    <3> QED BY <2>1, <3>1 DEF Alloc
  <2>5. /\ heap' \in HeapType /\ owner' \in [Addresses -> Owners]
        /\ given' \in [Addresses -> Addresses]
    <3>1. heap' \in HeapType
      BY <2>2, <2>3, <2>4, HeapParts DEF HeapType
    <3>2. before \in [Addresses -> Owners]
      BY <1>1 DEF Owners, Pointers
    <3>3. given' \in [Addresses -> Addresses]
      BY <1>1, <2>1, AddressRange
    <3> QED BY <2>1, <2>2, <3>1, <3>2, <3>3 DEF Owners
  <2>8. ASSUME sound', p = Null
        PROVE  sound /\ HeapGood(heap', owner', given') /\ ContractsUntouched
    <3>1. base = 0 /\ freed = heap /\ before = owner
      BY <2>8 DEF Dealloc, ReallocBase
    <3>2. given' = [given EXCEPT ![0] = HeapBase] /\ 0 \in Addresses
      BY <2>1, <2>8, AddressRange
    <3>3. sound /\ n <= HeapBase
      BY <1>1, <2>1, <2>8, <3>1, <3>2
    <3>4. /\ heap'.bump = heap.bump /\ heap'.mem = heap.mem
          /\ heap'.live = heap.live \cup {0} /\ heap'.size = [heap.size EXCEPT ![0] = n]
          /\ owner' = [owner EXCEPT ![0] = "program"]
      <4> HIDE DEF base, freed, before
      <4> QED BY ONLY <2>1, <2>4, <3>1
    <3>5. /\ owner[0] \in {"none", "program", "freed"}
          /\ HeapGood(heap', owner', given')
      BY <1>1, <3>2, <3>3, <3>4, NullGood
    <3>6. ContractsUntouched
      BY <1>1, <3>2, <3>4, <3>5, HeapParts DEF ContractsUntouched, Untouched
    <3> QED BY <3>3, <3>5, <3>6
  <2>6. ASSUME sound', p /= Null
        PROVE  sound /\ HeapGood(heap', owner', given') /\ ContractsUntouched
    <3>1. sound /\ base = p /\ n <= given[p] /\ p \in Addresses
      BY <2>1, <2>2, <2>6
    <3>2. /\ p \in heap.live /\ p \in Pointers
          /\ owner[p] \in {"program", "freed"}
      BY <2>6, <1>4 DEF DeallocTraps, Pointers
    <3>3. HeapGood(heap, owner, given)
      BY <1>1, <3>1
    <3>4. freed = [bump |-> heap.bump, live |-> heap.live \ {p},
                   size |-> [heap.size EXCEPT ![p] = 0], mem |-> heap.mem]
      BY <1>1, <3>1, DeallocParts
    <3>5. heap.live \subseteq Addresses /\ heap.size \in [Addresses -> Addresses]
      BY <1>1, HeapParts
    <3>6. /\ heap'.bump = heap.bump /\ heap'.live = heap.live /\ heap'.mem = heap.mem
          /\ heap'.size = [heap.size EXCEPT ![p] = n]
      BY <2>4, <3>1, <3>2, <3>4, <3>5
    <3>7. owner' = [owner EXCEPT ![p] = "program"] /\ given' = given
      BY <1>1, <2>1, <2>6, <3>1
    <3>8. \A x \in Addresses : /\ owner'[x] /= "none" <=> owner[x] /= "none"
                               /\ owner'[x] \in InUse <=> owner[x] \in InUse
      BY <1>1, <3>1, <3>2, <3>3, <3>7 DEF HeapGood, InUse
    <3>9. \A x \in heap'.live : heap'.size[x] <= given[x]
      BY <3>1, <3>3, <3>5, <3>6 DEF HeapGood
    <3>12. ASSUME NEW x \in Addresses, owner'[x] /= "none"
           PROVE  InPlace(x, given'[x], owner'[x])
      <4>1. InPlace(x, given[x], owner[x])
        BY <3>3, <3>8, <3>12 DEF HeapGood
      <4>2. owner'[x] = IF x = p THEN "program" ELSE owner[x]
        BY <1>1, <3>1, <3>7
      <4> QED BY <3>7, <4>1, <4>2 DEF InPlace
    <3>10. HeapGood(heap', owner', given')
      BY <3>3, <3>6, <3>7, <3>8, <3>9, <3>12 DEF HeapGood
    <3>11. ContractsUntouched
      BY <1>1, <3>2, <3>5, <3>6, <3>7 DEF ContractsUntouched, Untouched
    <3> QED BY <3>1, <3>10, <3>11
  <2>7. HeapStep
    BY <1>1, <2>5, <2>6, <2>8, <2>1 DEF HeapStep
  <2> QED BY <1>1, <1>2, <2>1, <2>7, HeapStepInv
<1> QED BY <1>3, <1>4

(* The program writes to its own chunks only.                               *)
LEMMA StoreInv ==
  ASSUME RuntimeInv, NEW p \in Pointers, NEW i \in Offsets, NEW n \in {1, 4},
         NEW v \in Values, Store(p, i, n, v)
  PROVE  RuntimeInv'
<1>1. /\ TypeOK /\ heap \in HeapType /\ owner \in [Addresses -> Owners]
      /\ given \in [Addresses -> Addresses] /\ sound \in BOOLEAN
      /\ (sound => HeapGood(heap, owner, given))
      /\ Step /\ UNCHANGED <<depth, contractVars, owner, given, sound>>
  BY DEF RuntimeInv, TypeOK, Store, HeapOnly
<1>2. status = "running" /\ depth' = 0
  BY <1>1 DEF Step, RuntimeInv
<1>3. CASE Access(heap, p, i, n) /= "ok"
  <2>1. status' \in Ends /\ UNCHANGED heap
    BY <1>3 DEF Store, Access, Ends, Traps
  <2> QED BY <1>1, <1>2, <2>1, HeapSame, HeapStepInv
<1>4. CASE Access(heap, p, i, n) = "ok"
  <2> DEFINE A == AddressesFrom(p, i, n)
  <2>1. heap' = SetBytes(heap, A, v) /\ status' = status
    BY <1>4 DEF Store
  <2>2. p \in Addresses /\ i \in Addresses /\ n \in 1 .. 16 /\ v \in SUBSET ByteBits
    BY ProgramAssumption DEF Pointers
  <2>3. A \in SUBSET Addresses
    <3>1. \A k \in 0 .. n - 1 : p + i + k \in Int
      BY <2>2, AddressRange
    <3> QED BY <3>1, Modulo DEF AddressesFrom
  <2> HIDE DEF A
  <2>4. /\ heap' \in HeapType /\ heap'.bump = heap.bump /\ heap'.live = heap.live
        /\ heap'.size = heap.size
        /\ \A c \in heap'.mem : c \in heap.mem \/ c[1] \in A
        /\ \A x, b : x \notin A => (<<x, b>> \in heap'.mem <=> <<x, b>> \in heap.mem)
    BY <1>1, <2>1, <2>2, <2>3, SetBytesParts
  <2>5. ASSUME sound
        PROVE  HeapGood(heap', owner', given') /\ ContractsUntouched
    <3>1. HeapGood(heap, owner, given)
      BY <1>1, <2>5
    <3>2. /\ p \in heap.live
          /\ \A x \in A : x \in Addresses /\ p <= x /\ x < p + heap.size[p]
      BY <1>1, <1>4, <2>2, <3>1, AccessInside DEF A
    <3>3. /\ heap.size[p] \in Nat /\ given[p] \in Nat /\ p \in Nat /\ heap.bump \in Nat
          /\ heap.size[p] <= given[p] /\ p + given[p] <= heap.bump
      <4>1. owner[p] /= "none"
        BY <3>1, <3>2 DEF HeapGood, InUse
      <4>2. heap.size[p] <= given[p] /\ p + given[p] <= heap.bump
        BY <2>2, <3>1, <3>2, <4>1 DEF HeapGood
      <4>3. heap.size[p] \in Addresses /\ given[p] \in Addresses /\ heap.bump \in Addresses
        BY <1>1, <2>2, HeapParts
      <4> QED BY <2>2, <4>2, <4>3, AddressRange
    <3>4. \A x \in A : x < heap.bump
      BY <3>2, <3>3, AddressRange
    <3>5. HeapGood(heap', owner', given')
      BY <1>1, <2>4, <3>1, <3>4, WriteGood
    <3>6. ASSUME NEW x \in heap.live, owner[x] = "contract", NEW k \in 0 .. heap.size[x] - 1
          PROVE  x + k \notin A
      <4>1. x /= p
        BY <3>6 DEF Pointers
      <4> QED BY <1>1, <3>1, <3>2, <4>1, ChunksApart
    <3>7. ContractsUntouched
      BY <1>1, <2>4, <3>6 DEF ContractsUntouched, Untouched
    <3> QED BY <3>5, <3>7
  <2>6. HeapStep
    BY <1>1, <2>4, <2>5 DEF HeapStep
  <2> QED BY <1>1, <1>2, <2>1, <2>6, HeapStepInv
<1> QED BY <1>3, <1>4

(* A load changes nothing, and may end the path.                            *)
LEMMA LoadInv ==
  ASSUME RuntimeInv, NEW p \in Pointers, NEW i \in Offsets, NEW n \in {1, 4},
         Load(p, i, n)
  PROVE  RuntimeInv'
<1>1. /\ Step /\ UNCHANGED <<depth, contractVars, heap, owner, given, sound>>
      /\ status' \in Ends
  BY DEF Load, HeapOnly, Access, Ends, Traps
<1>2. depth' = 0
  BY <1>1 DEF Step, RuntimeInv
<1> QED BY <1>1, <1>2, HeapSame, HeapStepInv

(* calloc only multiplies, modulo the size of the address space.            *)
LEMMA CallocInv ==
  ASSUME RuntimeInv, NEW n \in Addresses, NEW m \in Addresses, calloc(m, n)
  PROVE  RuntimeInv'
<1>1. m * n \in Int
  BY AddressRange
<1>2. CallocBytes(m, n) \in Addresses
  BY <1>1, Modulo DEF CallocBytes
<1> QED BY <1>2, MallocInv DEF calloc

(* The chunk that a call of malloc gives lies behind everything in use and  *)
(* in the heap as it is after the call.                                     *)
LEMMA NewChunk ==
  ASSUME TypeOK, sound => HeapGood(heap, owner, given), NEW n \in Addresses, n > 0,
         NEW who \in InUse, Gives(heap, n, who)
  PROVE  /\ AddressesFrom(MallocStart(heap, n), 0, n) \in SUBSET Addresses
         /\ sound' =>
              /\ \A x \in AddressesFrom(MallocStart(heap, n), 0, n) :
                   heap.bump <= x /\ x < Malloc(heap, n).bump
              /\ heap.bump <= MallocStart(heap, n)
              /\ owner[MallocStart(heap, n)] = "none"
<1> DEFINE q == MallocStart(heap, n)
<1>1. /\ heap \in HeapType /\ owner \in [Addresses -> Owners]
      /\ given \in [Addresses -> Addresses] /\ n \in Nat /\ heap.bump \in Nat
  BY HeapParts, AddressRange DEF TypeOK
<1>2. q \in Addresses /\ q \in Nat
  BY <1>1, MallocParts, AddressRange
<1>3. sound' => sound /\ ~ Wraps(heap, n)
  BY DEF Gives, TypeOK
<1>4. sound' => /\ heap.bump <= q /\ owner[q] = "none" /\ Malloc(heap, n).bump = q + n
                /\ HeapBase <= heap.bump
  <2> SUFFICES ASSUME sound'
               PROVE  /\ heap.bump <= q /\ owner[q] = "none"
                      /\ Malloc(heap, n).bump = q + n /\ HeapBase <= heap.bump
    OBVIOUS
  <2>1. HeapGood(heap, owner, given) /\ ~ Wraps(heap, n)
    BY <1>3
  <2>2. /\ heap.bump <= q /\ owner[q] = "none" /\ Malloc(heap, n).bump = q + n
    BY <1>1, <2>1, MallocGood
  <2>3. HeapBase <= heap.bump
    BY <2>1 DEF HeapGood
  <2> QED BY <2>2, <2>3
<1>5. Malloc(heap, n).bump \in Addresses
  BY <1>1, MallocParts, HeapParts
<1> HIDE DEF q
<1>6. ASSUME NEW k \in 0 .. n - 1
      PROVE  /\ (q + 0 + k) % AddressSpace \in Addresses
             /\ sound' => /\ heap.bump <= (q + 0 + k) % AddressSpace
                          /\ (q + 0 + k) % AddressSpace < Malloc(heap, n).bump
  <2>1. q + 0 + k \in Nat /\ k \in Nat /\ k < n
    BY <1>1, <1>2
  <2>2. (q + 0 + k) % AddressSpace \in Addresses
    BY <2>1, Modulo
  <2>3. ASSUME sound'
        PROVE  (q + 0 + k) % AddressSpace = q + k
    <3>1. q + n \in Addresses
      BY <1>4, <1>5, <2>3
    <3>2. q + n < AddressSpace
      BY <3>1, AddressRange
    <3>3. q + 0 + k = q + k /\ q + k \in Nat /\ q + k < AddressSpace
      BY <1>1, <1>2, <2>1, <3>2, AddressRange
    <3> QED BY <3>3, AddressRange, Modulo
  <2>4. ASSUME sound'
        PROVE  heap.bump <= q + k /\ q + k < q + n
    BY <1>1, <1>2, <1>4, <2>1, <2>4, AddressRange
  <2> QED BY <1>4, <2>2, <2>3, <2>4
<1> QED BY <1>4, <1>6 DEF AddressesFrom, q

(* What is in use is below the pointer.                                     *)
LEMMA BelowBump ==
  ASSUME NEW h \in HeapType, NEW own \in [Addresses -> Owners],
         NEW giv \in [Addresses -> Addresses], HeapGood(h, own, giv),
         NEW x \in h.live, NEW k \in 0 .. h.size[x] - 1
  PROVE  x + k \in Nat /\ x + k < h.bump
<1>1. /\ x \in Addresses /\ h.size[x] \in Addresses /\ giv[x] \in Addresses
      /\ h.bump \in Addresses
  BY HeapParts
<1>2. x \in Nat /\ h.size[x] \in Nat /\ giv[x] \in Nat /\ h.bump \in Nat
  BY <1>1, AddressRange
<1>3. own[x] /= "none"
  BY <1>1 DEF HeapGood, InUse
<1>4. h.size[x] <= giv[x] /\ x + giv[x] <= h.bump
  BY <1>1, <1>3 DEF HeapGood
<1> QED BY <1>2, <1>4

(* A call that takes a new chunk and writes only where nothing was in use   *)
(* or in a chunk that no contract owns leaves the contracts alone.          *)
LEMMA MallocAndWrite ==
  ASSUME RuntimeInv, NEW n \in Addresses, NEW who \in InUse, Gives(heap, n, who),
         heap' \in HeapType, heap'.bump = Malloc(heap, n).bump,
         heap'.live = Malloc(heap, n).live, heap'.size = Malloc(heap, n).size,
         NEW A \in SUBSET Addresses,
         \A c \in heap'.mem : c \in heap.mem \/ c[1] \in A,
         \A x, b : x \notin A => (<<x, b>> \in heap'.mem <=> <<x, b>> \in heap.mem),
         sound' => \A x \in A : x < Malloc(heap, n).bump,
         sound' => \A x \in heap.live : owner[x] = "contract" =>
                     \A k \in 0 .. heap.size[x] - 1 : x + k \notin A
  PROVE  HeapStep
<1>1. TypeOK /\ heap \in HeapType /\ (sound => HeapGood(heap, owner, given))
  BY DEF RuntimeInv, TypeOK
<1>2. /\ owner' \in [Addresses -> Owners] /\ given' \in [Addresses -> Addresses]
      /\ sound' \in BOOLEAN
      /\ sound' => /\ sound
                   /\ HeapGood(Malloc(heap, n), owner', given')
                   /\ \A x \in heap.live :
                        owner'[x] = owner[x] /\ Malloc(heap, n).size[x] = heap.size[x]
  BY <1>1, GivesGood
<1>3. Malloc(heap, n) \in HeapType /\ Malloc(heap, n).mem = heap.mem
  BY <1>1, MallocParts
<1>4. ASSUME sound'
      PROVE  sound /\ HeapGood(heap', owner', given') /\ ContractsUntouched
  <2>1. HeapGood(heap', owner', given')
    <3>1. \A c \in heap'.mem :
            c \in Malloc(heap, n).mem \/ c[1] < Malloc(heap, n).bump
      BY <1>3, <1>4
    <3> QED BY <1>2, <1>3, <1>4, <3>1, WriteGood
  <2>2. ContractsUntouched
    BY <1>2, <1>4 DEF ContractsUntouched, Untouched
  <2> QED BY <1>2, <1>4, <2>1, <2>2
<1> QED BY <1>2, <1>4 DEF HeapStep

(* The bytes copied are those of the destination.                           *)
LEMMA CopyBytesParts ==
  ASSUME NEW h \in HeapType, NEW q \in Addresses, NEW p \in Addresses, NEW n \in Nat
  PROVE  LET A == AddressesFrom(q, 0, n)
             h2 == CopyBytes(h, q, p, n)
         IN /\ h2 \in HeapType
            /\ h2.bump = h.bump /\ h2.live = h.live /\ h2.size = h.size
            /\ \A c \in h2.mem : c \in h.mem \/ c[1] \in A
            /\ \A x, b : x \notin A => (<<x, b>> \in h2.mem <=> <<x, b>> \in h.mem)
<1> DEFINE A == AddressesFrom(q, 0, n)
           to(k) == (q + k) % AddressSpace
           copied == UNION {{to(k)} \X Byte(h, (p + k) % AddressSpace) : k \in 0 .. n - 1}
           mem2 == {c \in h.mem : c[1] \notin A} \cup copied
<1>1. CopyBytes(h, q, p, n) =
        [bump |-> h.bump, live |-> h.live, size |-> h.size, mem |-> mem2]
  <2>1. h = [bump |-> h.bump, live |-> h.live, size |-> h.size, mem |-> h.mem]
    BY HeapParts
  <2>2. CopyBytes(h, q, p, n) = [h EXCEPT !.mem = mem2]
    BY DEF CopyBytes
  <2> HIDE DEF mem2
  <2> QED BY <2>1, <2>2
<1>2. \A k \in 0 .. n - 1 : to(k) \in Addresses /\ to(k) \in A
  <2> TAKE k \in 0 .. n - 1
  <2>1. q \in Nat
    BY AddressRange
  <2>2. q + k \in Int /\ q + 0 + k = q + k
    BY <2>1
  <2> QED BY <2>2, Modulo DEF AddressesFrom
<1>3. ASSUME NEW c \in copied
      PROVE  c[1] \in A /\ c \in Addresses \X ByteBits
  <2>1. PICK k \in 0 .. n - 1 : c \in {to(k)} \X Byte(h, (p + k) % AddressSpace)
    BY <1>3
  <2>2. to(k) \in Addresses /\ to(k) \in A
    BY <1>2, <2>1
  <2> HIDE DEF to, A
  <2>3. c[1] = to(k) /\ c \in {to(k)} \X ByteBits
    BY <2>1 DEF Byte
  <2> QED BY <2>2, <2>3
<1> HIDE DEF copied, A
<1>4. mem2 \subseteq Addresses \X ByteBits
  BY <1>3, HeapParts
<1>5. CopyBytes(h, q, p, n) \in HeapType
  BY <1>1, <1>4, HeapParts DEF HeapType
<1>6. \A c \in mem2 : c \in h.mem \/ c[1] \in A
  BY <1>3
<1>7. \A x, b : x \notin A => (<<x, b>> \in mem2 <=> <<x, b>> \in h.mem)
  BY <1>3
<1> QED BY <1>1, <1>5, <1>6, <1>7 DEF A

(* strdup copies into a chunk of its own.                                   *)
LEMMA StrdupInv ==
  ASSUME RuntimeInv, NEW p \in Pointers, strdup(p)
  PROVE  RuntimeInv'
<1>1. /\ TypeOK /\ heap \in HeapType /\ (sound => HeapGood(heap, owner, given))
      /\ Step /\ UNCHANGED <<depth, contractVars>>
  BY DEF RuntimeInv, TypeOK, strdup, HeapOnly
<1>2. status = "running" /\ depth' = 0
  BY <1>1 DEF Step, RuntimeInv
<1>3. CASE ~ (p \in heap.live /\ StringEnd(p) /= {})
  <2>1. UNCHANGED <<heap, owner, given, sound>> /\ status' \in Ends
    BY <1>3 DEF strdup, Ends, Traps
  <2> QED BY <1>1, <1>2, <2>1, HeapSame, HeapStepInv
<1>4. CASE p \in heap.live /\ StringEnd(p) /= {}
  <2>1. PICK l \in 1 .. heap.size[p] :
          /\ heap' = CopyBytes(Malloc(heap, l), MallocPtr(heap, l), p, l)
          /\ Gives(heap, l, "program") /\ status' = status
    BY <1>4 DEF strdup
  <2>2. p \in Addresses /\ heap.size[p] \in Addresses
    BY <1>1, HeapParts DEF Pointers
  <2>3. l \in Addresses /\ l > 0 /\ l \in Nat /\ l /= 0
    <3>1. heap.size[p] \in Nat /\ heap.size[p] < AddressSpace
      BY <2>2, AddressRange
    <3>2. l \in Nat /\ l < AddressSpace /\ l > 0
      BY <3>1, AddressRange
    <3> QED BY <3>2, AddressRange
  <2> DEFINE m == Malloc(heap, l)
             q == MallocStart(heap, l)
             A == AddressesFrom(q, 0, l)
  <2>4. /\ m \in HeapType /\ m.mem = heap.mem /\ q \in Addresses
        /\ heap' = CopyBytes(m, q, p, l)
    <3>1. MallocPtr(heap, l) = q
      BY <2>3 DEF MallocPtr
    <3> QED BY <1>1, <2>1, <2>3, <3>1, MallocParts
  <2>5. A \in SUBSET Addresses /\ (sound' => \A x \in A : heap.bump <= x /\ x < m.bump)
    BY <1>1, <2>1, <2>3, NewChunk DEF InUse
  <2> HIDE DEF m, q
  <2>6. /\ heap' \in HeapType
        /\ heap'.bump = m.bump /\ heap'.live = m.live /\ heap'.size = m.size
        /\ \A c \in heap'.mem : c \in heap.mem \/ c[1] \in A
        /\ \A x, b : x \notin A => (<<x, b>> \in heap'.mem <=> <<x, b>> \in heap.mem)
    BY <2>2, <2>3, <2>4, CopyBytesParts
  <2>7. ASSUME sound', NEW x \in heap.live, NEW k \in 0 .. heap.size[x] - 1
        PROVE  x + k \notin A
    <3>1. HeapGood(heap, owner, given) /\ owner \in [Addresses -> Owners]
          /\ given \in [Addresses -> Addresses] /\ heap.bump \in Nat
      BY <1>1, <2>1, <2>7, HeapParts, AddressRange DEF Gives, TypeOK
    <3>2. x + k \in Nat /\ x + k < heap.bump
      BY <1>1, <2>7, <3>1, BelowBump
    <3> QED BY <2>5, <2>7, <3>1, <3>2
  <2> HIDE DEF A
  <2>8. HeapStep
    BY <2>1, <2>3, <2>5, <2>6, <2>7, MallocAndWrite DEF InUse, m
  <2> QED BY <1>1, <1>2, <2>1, <2>8, HeapStepInv
<1> QED BY <1>3, <1>4

(* Two writes of the same bytes to the heap, seen as one.                   *)
LEMMA SetTwice ==
  ASSUME NEW h \in HeapType, NEW A \in SUBSET Addresses, NEW B \in SUBSET Addresses,
         NEW v \in SUBSET ByteBits
  PROVE  LET h2 == SetBytes(SetBytes(h, A, v), B, v)
         IN /\ h2 \in HeapType
            /\ h2.bump = h.bump /\ h2.live = h.live /\ h2.size = h.size
            /\ \A c \in h2.mem : c \in h.mem \/ c[1] \in A \cup B
            /\ \A x, b : x \notin A \cup B => (<<x, b>> \in h2.mem <=> <<x, b>> \in h.mem)
<1> DEFINE f == SetBytes(h, A, v)
<1>1. /\ f \in HeapType
      /\ f.bump = h.bump /\ f.live = h.live /\ f.size = h.size
      /\ \A c \in f.mem : c \in h.mem \/ c[1] \in A
      /\ \A x, b : x \notin A => (<<x, b>> \in f.mem <=> <<x, b>> \in h.mem)
  BY SetBytesParts
<1>a. f \in HeapType
  BY <1>1
<1> HIDE DEF f
<1> DEFINE g == SetBytes(f, B, v)
<1>2. /\ g \in HeapType
      /\ g.bump = f.bump /\ g.live = f.live /\ g.size = f.size
      /\ \A c \in g.mem : c \in f.mem \/ c[1] \in B
      /\ \A x, b : x \notin B => (<<x, b>> \in g.mem <=> <<x, b>> \in f.mem)
  BY <1>a, SetBytesParts
<1> HIDE DEF g
<1>3. \A x, b : x \notin A \cup B => (<<x, b>> \in g.mem <=> <<x, b>> \in h.mem)
  BY <1>1, <1>2
<1>4. \A c \in g.mem : c \in h.mem \/ c[1] \in A \cup B
  BY <1>1, <1>2
<1> QED BY <1>1, <1>2, <1>3, <1>4 DEF f, g

(* The functions of KLEE that make symbolic bytes write to a chunk of their *)
(* own and, where the check of owi lets them, to the program's; a scope     *)
(* stays open only when the check ends the path.                            *)
LEMMA SymbolicInv ==
  ASSUME RuntimeInv, NEW p \in Pointers, NEW n \in Addresses, NEW v \in SUBSET ByteBits,
         NEW scopes \in {0, 1}, Symbolic(p, n, v, scopes)
  PROVE  RuntimeInv'
<1> DEFINE t == MallocStart(heap, n)
           m == Malloc(heap, n)
           A == IF n = 0 THEN {} ELSE AddressesFrom(t, 0, n)
           good == {k \in 0 .. n - 1 : Access(m, p, k, 1) = "ok"}
           bad == 0 .. n - 1 \ good
           B == {(p + k) % AddressSpace : k \in good}
<1>1. /\ TypeOK /\ heap \in HeapType /\ (sound => HeapGood(heap, owner, given))
      /\ owner \in [Addresses -> Owners] /\ given \in [Addresses -> Addresses]
      /\ Step /\ UNCHANGED contractVars /\ Gives(heap, n, "klee")
  BY DEF RuntimeInv, TypeOK, Symbolic
<1>2. status = "running" /\ depth = 0
  BY <1>1 DEF Step, RuntimeInv
<1>3. p \in Addresses /\ p \in Nat /\ owner[p] \in {"program", "freed"} /\ n \in Nat
  BY AddressRange DEF Pointers
<1>4. m \in HeapType /\ m.mem = heap.mem /\ (n = 0 => m = heap) /\ t \in Addresses
      /\ (n > 0 => m.live = heap.live \cup {t})
  BY <1>1, MallocParts
<1>5. A \in SUBSET Addresses
      /\ (sound' => \A x \in A : heap.bump <= x /\ x < m.bump)
  BY <1>1, <1>3, NewChunk DEF InUse
<1>6. B \in SUBSET Addresses
  <2>1. \A k \in good : p + k \in Int
    BY <1>3
  <2> QED BY <2>1, Modulo
<1>7. heap' = SetBytes(SetBytes(m, A, v), B, v)
  <2>1. CASE n = 0
    <3>1. heap' = SetBytes(m, B, v)
      BY <2>1 DEF Symbolic
    <3>2. B = {} /\ A = {}
      BY <2>1
    <3>3. SetBytes(m, {}, v) = m
      <4>1. m = [bump |-> m.bump, live |-> m.live, size |-> m.size, mem |-> m.mem]
        BY <1>4, HeapParts
      <4>2. {c \in m.mem : c[1] \notin {}} \cup ({} \X v) = m.mem
        OBVIOUS
      <4> HIDE DEF m
      <4> QED BY <4>1, <4>2 DEF SetBytes
    <3> QED BY <3>1, <3>2, <3>3
  <2>2. CASE n /= 0
    BY <2>2 DEF Symbolic, MallocPtr
  <2> QED BY <2>1, <2>2
<1> HIDE DEF t
<1>8. /\ heap' \in HeapType
      /\ heap'.bump = m.bump /\ heap'.live = m.live /\ heap'.size = m.size
      /\ \A c \in heap'.mem : c \in heap.mem \/ c[1] \in A \cup B
      /\ \A x, b : x \notin A \cup B => (<<x, b>> \in heap'.mem <=> <<x, b>> \in heap.mem)
  <2> DEFINE h2 == SetBytes(SetBytes(m, A, v), B, v)
  <2>1. m \in HeapType /\ A \in SUBSET Addresses /\ B \in SUBSET Addresses
    BY <1>4, <1>5, <1>6
  <2> HIDE DEF m, A, B
  <2>2. /\ h2 \in HeapType
        /\ h2.bump = m.bump /\ h2.live = m.live /\ h2.size = m.size
        /\ \A c \in h2.mem : c \in m.mem \/ c[1] \in A \cup B
        /\ \A x, b : x \notin A \cup B => (<<x, b>> \in h2.mem <=> <<x, b>> \in m.mem)
    BY <2>1, SetTwice
  <2>3. heap' = h2
    BY <1>7
  <2> HIDE DEF h2
  <2> QED BY <1>4, <2>2, <2>3
<1>9. ASSUME sound', NEW y \in B
      PROVE  /\ HeapGood(m, owner', given') /\ p \in m.live
             /\ y < m.bump
             /\ p <= y /\ y < p + m.size[p]
             /\ p \in heap.live
  <2>1. PICK k \in good : y = (p + k) % AddressSpace
    OBVIOUS
  <2>2. k \in Nat /\ k < n /\ n < AddressSpace /\ n > 0 /\ k \in Addresses
    BY <1>3, AddressRange
  <2>3. /\ HeapGood(m, owner', given') /\ owner' \in [Addresses -> Owners]
        /\ given' \in [Addresses -> Addresses]
    BY <1>1, <1>9, GivesGood DEF InUse
  <2>4. y \in AddressesFrom(p, k, 1)
    <3>1. p + k + 0 = p + k /\ 0 \in 0 .. 1 - 1
      BY <1>3, <2>2
    <3> QED BY <2>1, <3>1 DEF AddressesFrom
  <2>5. p \in m.live /\ y \in Addresses /\ p <= y /\ y < p + m.size[p]
    <3>1. Access(m, p, k, 1) = "ok" /\ 1 \in 1 .. 16
      OBVIOUS
    <3> HIDE DEF m, good, B
    <3> QED BY <1>3, <1>4, <2>2, <2>3, <2>4, <3>1, AccessInside
  <2>6. /\ m.size[p] \in Nat /\ given'[p] \in Nat /\ m.bump \in Nat /\ y \in Nat
        /\ m.size[p] <= given'[p] /\ p + given'[p] <= m.bump
    <3>1. m.size[p] \in Addresses /\ given'[p] \in Addresses /\ m.bump \in Addresses
      BY <1>3, <1>4, <2>3, HeapParts
    <3>2. owner'[p] /= "none"
      BY <1>3, <2>3, <2>5 DEF HeapGood, InUse
    <3>3. m.size[p] <= given'[p] /\ p + given'[p] <= m.bump
      BY <1>3, <2>3, <2>5, <3>2 DEF HeapGood
    <3> QED BY <2>5, <3>1, <3>3, AddressRange
  <2>7. y < m.bump
    BY <1>3, <2>5, <2>6, AddressRange
  <2>8. p \in heap.live
    <3>1. owner[t] = "none"
      BY <1>1, <1>9, <2>2, NewChunk DEF InUse, t
    <3> QED BY <1>3, <1>4, <2>2, <2>5, <3>1
  <2> QED BY <2>3, <2>5, <2>7, <2>8
<1>10. ASSUME sound', NEW x \in heap.live, owner[x] = "contract",
              NEW k \in 0 .. heap.size[x] - 1
       PROVE  x + k \notin A \cup B
  <2>1. /\ HeapGood(heap, owner, given) /\ heap.bump \in Nat
    BY <1>1, <1>10, HeapParts, AddressRange DEF Gives, TypeOK
  <2>2. x + k \in Nat /\ x + k < heap.bump
    BY <1>1, <1>10, <2>1, BelowBump
  <2>3. x + k \notin A
    <3>1. ASSUME x + k \in A PROVE FALSE
      <4>1. heap.bump <= x + k
        BY <1>5, <1>10, <3>1
      <4> QED BY <2>1, <2>2, <4>1
    <3> QED BY <3>1
  <2>4. ASSUME x + k \in B PROVE FALSE
    <3>1. /\ HeapGood(m, owner', given') /\ p \in m.live /\ p \in heap.live
          /\ p <= x + k /\ x + k < p + m.size[p]
      BY <1>9, <1>10, <2>4
    <3>2. m.size[p] = heap.size[p]
      BY <1>1, <1>10, <3>1, GivesGood DEF InUse
    <3>3. x /= p
      BY <1>3, <1>10
    <3> QED BY <1>1, <1>10, <2>1, <3>1, <3>2, <3>3, ChunksApart
  <2> QED BY <2>3, <2>4
<1>11. HeapStep
  <2>1. A \cup B \in SUBSET Addresses
    BY <1>5, <1>6
  <2>2. sound' => \A x \in A \cup B : x < m.bump
    BY <1>5, <1>9
  <2>3. sound' => \A x \in heap.live : owner[x] = "contract" =>
                    \A k \in 0 .. heap.size[x] - 1 : x + k \notin A \cup B
    BY <1>10
  <2> HIDE DEF A, B
  <2> QED BY <1>1, <1>8, <2>1, <2>2, <2>3, MallocAndWrite DEF InUse, m
<1>12. CASE bad = {}
  <2>1. status' = "running" /\ depth' = 0
    BY <1>2, <1>12 DEF Symbolic
  <2> QED BY <1>1, <1>11, <2>1, HeapStepInv
<1>13. CASE bad /= {}
  <2>1. PICK k \in bad : status' = Access(m, p, k, 1) /\ depth' = depth + scopes
    BY <1>13 DEF Symbolic
  <2>2. status' \in {"use_after_free", "heap_overflow"}
    BY <2>1 DEF Access
  <2>3. n > 0 /\ n /= 0
    BY <1>3
  <2>4. owner'[t] = "klee" /\ t \in Addresses
    <3>1. owner' = [owner EXCEPT ![t] = "klee"]
      BY <1>1, <2>3 DEF Gives, t
    <3> QED BY <1>1, <1>4, <3>1
  <2>5. depth' \in Nat
    BY <1>2, <2>1
  <2>6. ScopesClosed'
    BY <2>2, <2>4 DEF ScopesClosed
  <2> QED BY <1>1, <1>11, <2>2, <2>5, <2>6, HeapStepInv DEF Ends, Traps
<1> QED BY <1>12, <1>13

(* The range that klee_range assumes ends the path in its scope.            *)
LEMMA RangeInv ==
  ASSUME RuntimeInv, NEW begin, NEW end, klee_range(begin, end)
  PROVE  RuntimeInv'
<1>1. /\ Step /\ UNCHANGED <<heap, owner, given, sound>> /\ UNCHANGED contractVars
  BY DEF klee_range
<1>2. status = "running" /\ depth = 0
  BY <1>1 DEF Step, RuntimeInv
<1>3. CASE begin >= end
  <2>1. status' = "stop" /\ depth' = 1
    BY <1>2, <1>3 DEF klee_range
  <2>2. ScopesClosed'
    BY <2>1 DEF ScopesClosed
  <2> QED BY <1>1, <2>1, <2>2, HeapSame, HeapStepInv DEF Ends
<1>4. CASE ~ (begin >= end)
  <2>1. status' = "running" /\ depth' = 0
    BY <1>2, <1>4 DEF klee_range
  <2> QED BY <1>1, <2>1, HeapSame, HeapStepInv
<1> QED BY <1>3, <1>4

(* klee_int and the ends of a path change no memory and open no scope.      *)
LEMMA EndInv ==
  ASSUME RuntimeInv, klee_int \/ Ended
  PROVE  RuntimeInv'
<1>1. /\ Step /\ UNCHANGED <<heap, owner, given, sound, depth>> /\ UNCHANGED contractVars
      /\ status' \in {"running", "assert", "stop"}
  BY DEF klee_int, Ended, klee_assert, klee_unsupported, e_acsl_assert, klee_assume,
         abort, exit, EndPath, HeapOnly, Step
<1>2. depth' = 0
  BY <1>1 DEF Step, RuntimeInv
<1> QED BY <1>1, <1>2, HeapSame, HeapStepInv DEF Ends

(* A contract has as many cells as its behaviours need, and every behaviour *)
(* a bit of its own in them.                                                *)
LEMMA CharCount ==
  ASSUME NEW d \in Nat
  PROVE  /\ find_char_count(d) \in Nat /\ find_char_count(d) <= d
         /\ d > 0 => find_char_count(d) > 0
         /\ \A i \in 0 .. d - 1 :
              /\ find_char_index(i) \in 0 .. find_char_count(d) - 1
              /\ find_bit_index(i) \in ByteBits
BY DEF find_char_count, find_char_index, find_bit_index, ByteBits

(* No other bit of the cells is the behaviour's.                            *)
LEMMA OneBit ==
  ASSUME NEW x \in Nat, NEW b \in ByteBits, NEW i \in Nat
  PROVE  8 * x + b = i <=> x = find_char_index(i) /\ b = find_bit_index(i)
BY DEF find_char_index, find_bit_index, ByteBits

(* A call on a contract that finds a bad access only ends the path.         *)
LEMMA ContractTrap ==
  ASSUME RuntimeInv, Step, UNCHANGED <<heap, owner, given, sound, depth>>,
         open' \subseteq open, UNCHANGED <<char_count, assumes, declared, said>>,
         status' \in Ends
  PROVE  RuntimeInv'
<1>1. TypeOK'
  BY DEF RuntimeInv, TypeOK, Step
<1>2. depth' = 0
  BY DEF Step, RuntimeInv
<1>3. sound' => /\ HeapGood(heap', owner', given')
                /\ (\A c \in open : ContractGood(c))'
                /\ ContractsApart'
  BY DEF RuntimeInv, ContractGood, ContractsApart, Behaviours
<1>4. (\A c \in open : declared[c] > 0 => assumes[c] \in Addresses)'
  BY DEF RuntimeInv
<1>5. ScopesClosed' /\ status' /= "running"
  BY <1>2 DEF ScopesClosed, Ends, Traps
<1> QED BY <1>1, <1>2, <1>3, <1>4, <1>5 DEF RuntimeInv

(* A contract that is cleaned takes its chunks with it and no other's.      *)
LEMMA CleanInv ==
  ASSUME RuntimeInv, NEW c \in open, contract_clean(c)
  PROVE  RuntimeInv'
<1> DEFINE a == assumes[c]
           h == Dealloc(heap, a)
<1>1. /\ Step /\ UNCHANGED <<depth, char_count, assumes, declared, said, given, sound>>
      /\ open' = open \ {c}
  BY DEF contract_clean
<1>2. /\ TypeOK /\ heap \in HeapType /\ owner \in [Addresses -> Owners]
      /\ given \in [Addresses -> Addresses] /\ sound \in BOOLEAN
      /\ a \in Addresses \cup {Null} /\ c \in Addresses
      /\ status = "running" /\ depth' = 0
  BY <1>1 DEF RuntimeInv, TypeOK, Step
<1>3. CASE FieldAccess(c) /= "ok"
  <2>1. UNCHANGED <<heap, owner>> /\ status' \in Ends
    BY <1>3 DEF contract_clean, FieldAccess, Access, Ends, Traps
  <2> QED BY <1>1, <2>1, ContractTrap
<1>4. CASE FieldAccess(c) = "ok" /\ (DeallocTraps(heap, a) \/ DeallocTraps(h, c))
  <2>1. UNCHANGED <<heap, owner>> /\ status' \in Ends
    BY <1>4 DEF contract_clean, Ends, Traps
  <2> QED BY <1>1, <2>1, ContractTrap
<1>5. CASE FieldAccess(c) = "ok" /\ ~ DeallocTraps(heap, a) /\ ~ DeallocTraps(h, c)
  <2>1. /\ heap' = Dealloc(h, c) /\ status' = status
        /\ owner' = [x \in Addresses |-> IF x = a \/ x = c THEN "freed" ELSE owner[x]]
    BY <1>5 DEF contract_clean
  <2>2. h \in HeapType /\ heap' \in HeapType
    <3>1. h \in HeapType
      BY <1>2, DeallocParts DEF Dealloc
    <3> HIDE DEF h
    <3> QED BY <1>2, <2>1, <3>1, DeallocParts
  <2>3. owner' \in [Addresses -> Owners]
    BY <1>2, <2>1 DEF Owners
  <2>4. TypeOK'
    BY <1>1, <1>2, <2>1, <2>2, <2>3 DEF TypeOK, Step
  <2>5. ASSUME sound
        PROVE  /\ HeapGood(heap', owner', given')
               /\ (\A d \in open : ContractGood(d))' /\ ContractsApart'
    <3>1. /\ HeapGood(heap, owner, given) /\ ContractsApart
          /\ \A d \in open : ContractGood(d)
      BY <2>5 DEF RuntimeInv
    <3>2. /\ c \in heap.live
          /\ char_count[c] > 0 => a \in Addresses /\ a \in heap.live
          /\ char_count[c] = 0 => a = Null
      BY <1>2, <3>1, ContractChunks DEF ContractGood
    <3>3. char_count[c] \in Nat
      BY <1>2 DEF TypeOK
    <3> DEFINE own == IF a = Null THEN owner ELSE [owner EXCEPT ![a] = "freed"]
    <3>4. /\ HeapGood(h, own, given) /\ own \in [Addresses -> Owners]
          /\ h.mem = heap.mem
          /\ \A x \in heap.live : x /= a => h.size[x] = heap.size[x]
      <4>1. CASE a = Null
        BY <1>2, <3>1, <4>1 DEF Dealloc
      <4>2. CASE a /= Null
        <5>1. a \in heap.live
          BY <3>2, <3>3, <4>2
        <5>2. own \in [Addresses -> Owners]
          BY <1>2 DEF Owners
        <5> QED BY <1>2, <3>1, <4>2, <5>1, <5>2, DeallocGood
      <4> QED BY <4>1, <4>2
    <3>5. c \in h.live
      BY <1>2, <1>5, AddressRange DEF DeallocTraps
    <3>6. owner' = [own EXCEPT ![c] = "freed"]
      BY <1>2, <2>1, AddressRange
    <3> HIDE DEF h, own
    <3>7. /\ HeapGood(heap', owner', given')
          /\ heap'.mem = h.mem
          /\ \A x \in h.live : x /= c => heap'.size[x] = h.size[x]
      BY <1>1, <1>2, <2>1, <2>2, <3>4, <3>5, <3>6, DeallocGood
    <3>8. ASSUME NEW x \in heap.live, x /= a, x /= c
          PROVE  Untouched(x)
      <4>1. x \in Addresses
        BY <1>2, HeapParts
      <4>2. owner'[x] = owner[x]
        BY <2>1, <3>8, <4>1
      <4>3. x \in h.live
        <5>1. CASE a = Null
          BY <3>8, <5>1 DEF h, Dealloc
        <5>2. CASE a /= Null
          <6>1. h.live = heap.live \ {a}
            BY <1>2, <5>2, DeallocParts DEF h
          <6> QED BY <3>8, <6>1
        <5> QED BY <5>1, <5>2
      <4> QED BY <3>4, <3>7, <3>8, <4>2, <4>3 DEF Untouched
    <3>9. ASSUME NEW d \in open, d /= c
          PROVE  ContractGood(d)'
      <4>1. /\ d \in Addresses /\ d \in heap.live
            /\ char_count[d] > 0 => assumes[d] \in heap.live /\ assumes[d] /= Null
        BY <1>2, <3>1, ContractChunks, AddressRange
      <4>2. d /= a
        BY <1>2, <3>1, <3>2, <3>3, <4>1, AddressRange DEF ContractsApart
      <4>3. char_count[d] > 0 => assumes[d] /= c /\ assumes[d] /= a
        BY <3>1, <3>2, <3>3, <3>9, <4>1 DEF ContractsApart
      <4> QED BY <1>1, <3>1, <3>8, <3>9, <4>1, <4>2, <4>3, ContractStays
    <3>10. ContractsApart'
      BY <1>1, <3>1 DEF ContractsApart
    <3> QED BY <1>1, <3>7, <3>9, <3>10
  <2>6. (\A d \in open : declared[d] > 0 => assumes[d] \in Addresses)'
    BY <1>1 DEF RuntimeInv
  <2>7. ScopesClosed'
    BY <1>2 DEF ScopesClosed
  <2> QED BY <1>1, <1>2, <2>1, <2>4, <2>5, <2>6, <2>7 DEF RuntimeInv
<1> QED BY <1>3, <1>4, <1>5

(* The fields of a contract in use can be read.                             *)
LEMMA FieldOk ==
  ASSUME TypeOK, HeapGood(heap, owner, given), NEW c \in open, ContractGood(c)
  PROVE  FieldAccess(c) = "ok"
<1>1. c \in heap.live /\ heap.size[c] = 8
  BY ContractChunks DEF ContractGood, StructSize
<1>2. (4 + 4 - 1) % AddressSpace = 7
  BY AddressRange, Modulo
<1> QED BY <1>1, <1>2, AddressRange DEF FieldAccess, Access, Fits

(* Every behaviour of a contract in use has its bit in a cell of the array  *)
(* that owi lets the program reach.                                         *)
LEMMA CellExact ==
  ASSUME TypeOK, HeapGood(heap, owner, given), NEW c \in open, ContractGood(c),
         NEW i \in Behaviours(c)
  PROVE  /\ Cell(c, i) = assumes[c] + find_char_index(i)
         /\ find_char_index(i) \in 0 .. char_count[c] - 1
         /\ find_bit_index(i) \in ByteBits
         /\ CellAccess(c, i) = "ok"
<1> DEFINE a == assumes[c]
           x0 == find_char_index(i)
           n == char_count[c]
<1>1. /\ heap \in HeapType /\ c \in Addresses /\ n \in Nat /\ declared[c] \in Nat
      /\ owner \in [Addresses -> Owners] /\ given \in [Addresses -> Addresses]
  BY DEF TypeOK
<1>2. i \in 0 .. declared[c] - 1 /\ n = find_char_count(declared[c])
  BY DEF Behaviours, ContractGood
<1>3. x0 \in 0 .. n - 1 /\ find_bit_index(i) \in ByteBits
  BY <1>1, <1>2, CharCount
<1> HIDE DEF x0
<1>4. n > 0 /\ x0 \in Nat /\ x0 < n
  BY <1>1, <1>3
<1>5. /\ c \in heap.live /\ a \in heap.live /\ a \in Addresses
      /\ heap.size[c] = 8 /\ heap.size[a] = n
  BY <1>1, <1>4, ContractChunks DEF ContractGood, StructSize
<1>6. a + x0 < heap.bump /\ a + x0 \in Nat
  BY <1>1, <1>3, <1>5, BelowBump
<1>7. a + x0 \in Addresses
  <2>1. heap.bump \in Nat /\ heap.bump < AddressSpace
    BY <1>1, HeapParts, AddressRange
  <2> QED BY <1>6, <2>1, AddressRange
<1>8. Cell(c, i) = a + x0
  BY <1>7, Modulo DEF Cell, x0
<1>9. FieldAccess(c) = "ok"
  BY <1>1, FieldOk
<1>10. Access(heap, a, x0, 1) = "ok"
  <2>1. x0 + 1 - 1 = x0 /\ x0 \in Addresses
    <3>1. n < AddressSpace
      BY <1>1, <1>5, HeapParts, AddressRange
    <3> QED BY <1>1, <1>4, <3>1, AddressRange
  <2>2. (x0 + 1 - 1) % AddressSpace = x0
    BY <2>1, Modulo
  <2> QED BY <1>4, <1>5, <2>2 DEF Access, Fits
<1>11. CellAccess(c, i) = "ok"
  BY <1>9, <1>10 DEF CellAccess, x0
<1> QED BY <1>3, <1>8, <1>11 DEF x0

(* Setting a bit of a contract in use never traps and sets the bit of the   *)
(* behaviour only.                                                          *)
LEMMA SetBehaviorInv ==
  ASSUME RuntimeInv, NEW c \in open, NEW i \in Behaviours(c), NEW active \in BOOLEAN,
         set_behavior_assumes(c, i, active)
  PROVE  RuntimeInv'
<1> DEFINE a == assumes[c]
           x0 == find_char_index(i)
           b0 == find_bit_index(i)
           n == char_count[c]
<1>1. /\ Step
      /\ UNCHANGED <<depth, open, char_count, assumes, declared, owner, given, sound>>
      /\ said' = IF active THEN [said EXCEPT ![c] = @ \cup {i}] ELSE said
  BY DEF set_behavior_assumes
<1>2. /\ TypeOK /\ heap \in HeapType /\ c \in Addresses
      /\ owner \in [Addresses -> Owners] /\ given \in [Addresses -> Addresses]
      /\ said \in [Addresses -> SUBSET Nat] /\ n \in Nat /\ declared[c] \in Nat
      /\ status = "running" /\ depth' = 0
  BY <1>1 DEF RuntimeInv, TypeOK, Step
<1>3. i \in Nat /\ i < declared[c] /\ declared[c] > 0
  BY <1>2 DEF Behaviours
<1>4. a \in Addresses /\ a \in Nat
  BY <1>3, AddressRange DEF RuntimeInv
<1>5. x0 \in Nat /\ b0 \in ByteBits /\ x0 < find_char_count(declared[c])
      /\ x0 = i \div 8 /\ find_char_count(declared[c]) \in Nat
  BY <1>2, <1>3, CharCount DEF Behaviours, find_char_index
<1>6. Cell(c, i) = (a + x0) % AddressSpace /\ Cell(c, i) \in Addresses
  <2>1. a + x0 \in Int
    BY <1>4, <1>5
  <2>2. (a + x0) % AddressSpace \in Addresses
    BY <2>1, Modulo
  <2> QED BY <2>2 DEF Cell
<1>7. said' \in [Addresses -> SUBSET Nat]
  BY <1>1, <1>2, <1>3
<1>8. status' \in {"running"} \cup Ends
  BY <1>2 DEF set_behavior_assumes, CellAccess, FieldAccess, Access, Ends, Traps
<1>9. heap' = heap \/ heap' = [bump |-> heap.bump, live |-> heap.live, size |-> heap.size,
                              mem |-> heap.mem \cup {<<Cell(c, i), b0>>}]
  <2>1. heap = [bump |-> heap.bump, live |-> heap.live, size |-> heap.size, mem |-> heap.mem]
    BY <1>2, HeapParts
  <2>2. heap' = heap \/ heap' = [heap EXCEPT !.mem = @ \cup {<<Cell(c, i), b0>>}]
    BY DEF set_behavior_assumes
  <2> QED BY <2>1, <2>2
<1> HIDE DEF x0, b0
<1>10. heap' \in HeapType
  BY <1>2, <1>5, <1>6, <1>9, HeapParts DEF HeapType
<1>11. TypeOK'
  BY <1>1, <1>2, <1>7, <1>8, <1>10 DEF TypeOK, Step
<1>12. ASSUME sound
       PROVE  /\ HeapGood(heap', owner', given')
              /\ (\A d \in open : ContractGood(d))' /\ ContractsApart'
  <2>1. /\ HeapGood(heap, owner, given) /\ ContractsApart /\ ContractGood(c)
        /\ \A d \in open : ContractGood(d)
    BY <1>12 DEF RuntimeInv
  <2>2. n = find_char_count(declared[c]) /\ x0 < n /\ n > 0
    BY <1>2, <1>5, <2>1 DEF ContractGood
  <2>3. /\ c \in heap.live /\ a \in heap.live /\ heap.size[c] = 8 /\ heap.size[a] = n
        /\ said[c] \subseteq Behaviours(c)
        /\ \A x \in 0 .. n - 1, b \in ByteBits :
             <<a + x, b>> \in heap.mem <=> 8 * x + b \in said[c]
    BY <1>2, <2>1, <2>2, ContractChunks DEF ContractGood, StructSize
  <2>4. x0 \in 0 .. heap.size[a] - 1
    BY <1>5, <2>2, <2>3
  <2>5. a + x0 < heap.bump /\ a + x0 \in Nat
    BY <1>2, <2>1, <2>3, <2>4, BelowBump
  <2>7. Cell(c, i) = a + x0 /\ CellAccess(c, i) = "ok"
    BY <1>2, <2>1, CellExact DEF x0
  <2>8. heap' = IF active THEN [bump |-> heap.bump, live |-> heap.live, size |-> heap.size,
                                mem |-> heap.mem \cup {<<a + x0, b0>>}]
                          ELSE heap
    <3>1. heap = [bump |-> heap.bump, live |-> heap.live, size |-> heap.size,
                  mem |-> heap.mem]
      BY <1>2, HeapParts
    <3>2. heap' = IF active THEN [heap EXCEPT !.mem = @ \cup {<<a + x0, b0>>}] ELSE heap
      BY <2>7 DEF set_behavior_assumes, b0
    <3> QED BY <3>1, <3>2
  <2>9. /\ heap'.bump = heap.bump /\ heap'.live = heap.live /\ heap'.size = heap.size
        /\ heap'.mem = IF active THEN heap.mem \cup {<<a + x0, b0>>} ELSE heap.mem
    BY <2>8
  <2>10. HeapGood(heap', owner', given')
    <3>1. \A e \in heap'.mem : e \in heap.mem \/ e[1] < heap.bump
      BY <2>5, <2>9
    <3> QED BY <1>1, <1>2, <1>10, <2>1, <2>9, <3>1, WriteGood
  <2>11. ASSUME NEW x \in heap.live, x /= a
         PROVE  Untouched(x)
    <3>1. ASSUME NEW k \in 0 .. heap.size[x] - 1
          PROVE  x + k /= a + x0
      <4>1. ~ (a <= x + k /\ x + k < a + heap.size[a])
        BY <1>2, <2>1, <2>3, <2>11, ChunksApart
      <4> QED BY <1>2, <1>4, <1>5, <2>2, <2>3, <4>1
    <3> QED BY <1>1, <2>9, <3>1 DEF Untouched
  <2>12. ASSUME NEW d \in open, d /= c
         PROVE  ContractGood(d)'
    <3>1. /\ d \in Addresses /\ d \in heap.live /\ d /= a
          /\ char_count[d] > 0 => assumes[d] \in heap.live /\ assumes[d] /= a
      BY <1>2, <2>1, <2>2, <2>12, ContractChunks DEF ContractsApart
    <3>2. said'[d] = said[d]
      BY <1>1, <1>2, <2>12, <3>1
    <3> QED BY <1>1, <2>1, <2>11, <2>12, <3>1, <3>2, ContractStays
  <2>13. ContractGood(c)'
    <3>1. said'[c] = IF active THEN said[c] \cup {i} ELSE said[c]
      BY <1>1, <1>2
    <3>2. ASSUME NEW x \in 0 .. n - 1, NEW b \in ByteBits
          PROVE  <<a + x, b>> \in heap'.mem <=> 8 * x + b \in said'[c]
      <4>1. a + x = a + x0 <=> x = x0
        BY <1>4, <1>5, <1>2
      <4>2. 8 * x + b = i <=> x = x0 /\ b = b0
        <5>1. x \in Nat
          BY <1>2
        <5> QED BY <1>3, <5>1, OneBit DEF x0, b0
      <4>3. <<a + x, b>> \in heap.mem <=> 8 * x + b \in said[c]
        BY <2>3
      <4>4. <<a + x, b>> = <<a + x0, b0>> <=> 8 * x + b = i
        BY <4>1, <4>2
      <4> HIDE DEF a
      <4> QED BY <2>9, <3>1, <4>3, <4>4
    <3>3. said'[c] \subseteq Behaviours(c)
      BY <2>3, <3>1
    <3>4. c /= a
      BY <2>1, <2>2 DEF ContractsApart
    <3> QED BY <1>1, <1>4, <2>1, <2>2, <2>3, <2>9, <3>2, <3>3 DEF ContractGood, Behaviours
  <2>14. ContractsApart'
    BY <1>1, <2>1 DEF ContractsApart
  <2> QED BY <1>1, <2>10, <2>12, <2>13, <2>14
<1>13. (\A d \in open : declared[d] > 0 => assumes[d] \in Addresses)'
  BY <1>1 DEF RuntimeInv
<1>14. ScopesClosed'
  BY <1>2 DEF ScopesClosed
<1> QED BY <1>1, <1>2, <1>11, <1>12, <1>13, <1>14 DEF RuntimeInv

(* A new contract takes two chunks that nobody had, and its cells are zero. *)
LEMMA InitContractInv ==
  ASSUME RuntimeInv, NEW size \in Contracts, contract_init(size)
  PROVE  RuntimeInv'
<1> DEFINE h == Malloc(heap, StructSize)
           n == find_char_count(size)
           a == MallocPtr(h, n)
           h2 == Malloc(h, n)
<1>1. /\ TypeOK /\ heap \in HeapType /\ owner \in [Addresses -> Owners]
      /\ given \in [Addresses -> Addresses] /\ sound \in BOOLEAN /\ Step
      /\ status' = "running" /\ depth' = 0
  BY DEF RuntimeInv, TypeOK, contract_init, Step
<1>2. size \in Nat /\ n \in Nat /\ n \in Addresses /\ (n = 0 <=> size = 0)
  <2>1. size \in Nat /\ size < AddressSpace
    BY ProgramAssumption, AddressRange
  <2>2. n \in Nat /\ n <= size /\ (size > 0 => n > 0)
    BY <2>1, CharCount
  <2> QED BY <2>1, <2>2, AddressRange
<1>3. StructSize \in Addresses /\ StructSize > 0 /\ StructSize /= 0
  BY AddressRange DEF StructSize
<1>0. PICK c \in Addresses : c = MallocStart(heap, StructSize)
  BY <1>1, <1>3, MallocParts
<1>4. c = MallocPtr(heap, StructSize) /\ c \in Addresses /\ h \in HeapType
      /\ h.mem = heap.mem
  BY <1>0, <1>1, <1>3, MallocParts DEF MallocPtr
<1>5. /\ heap' = h2
      /\ owner' = [x \in Addresses |-> IF x = c \/ x = a THEN "contract" ELSE owner[x]]
      /\ given' = [x \in Addresses |-> IF x = a THEN n
                                       ELSE IF x = c THEN StructSize ELSE given[x]]
      /\ sound' = (sound /\ ~ Wraps(heap, StructSize) /\ ~ Wraps(h, n))
      /\ open' = open \cup {c}
      /\ char_count' = [char_count EXCEPT ![c] = n]
      /\ assumes' = [assumes EXCEPT ![c] = a]
      /\ declared' = [declared EXCEPT ![c] = size]
      /\ said' = [said EXCEPT ![c] = {}]
  BY <1>4 DEF contract_init
<1> HIDE DEF h
<1>6. /\ h2 \in HeapType /\ h2.mem = heap.mem
      /\ IF n = 0 THEN a = Null /\ h2 = h ELSE a = MallocStart(h, n) /\ a \in Addresses
  BY <1>2, <1>4, MallocParts DEF MallocPtr
<1> HIDE DEF n, a, h2
<1>7. TypeOK'
  <2>1. heap' \in HeapType /\ a \in Addresses \cup {Null}
    BY <1>5, <1>6
  <2>2. owner' \in [Addresses -> Owners] /\ given' \in [Addresses -> Addresses]
    BY <1>1, <1>2, <1>3, <1>5 DEF Owners
  <2>3. open' \subseteq Addresses /\ sound' \in BOOLEAN
    BY <1>1, <1>4, <1>5 DEF TypeOK
  <2>4. char_count' \in [Addresses -> Nat] /\ declared' \in [Addresses -> Nat]
    BY <1>1, <1>2, <1>5 DEF TypeOK
  <2>5. assumes' \in [Addresses -> Addresses \cup {Null}]
    BY <1>1, <1>5, <2>1 DEF TypeOK
  <2>6. said' \in [Addresses -> SUBSET Nat]
    BY <1>1, <1>5 DEF TypeOK
  <2>7. calls' \in Nat
    BY <1>1 DEF TypeOK, Step
  <2> QED BY <1>1, <2>1, <2>2, <2>3, <2>4, <2>5, <2>6, <2>7 DEF TypeOK
<1>8. ASSUME NEW d \in open', declared'[d] > 0
      PROVE  assumes'[d] \in Addresses
  <2>1. CASE d = c
    BY <1>1, <1>2, <1>4, <1>5, <1>6, <1>8, <2>1 DEF TypeOK
  <2>2. CASE d /= c
    BY <1>1, <1>4, <1>5, <1>8, <2>2 DEF TypeOK, RuntimeInv
  <2> QED BY <2>1, <2>2
<1>9. ASSUME sound'
      PROVE  /\ HeapGood(heap', owner', given')
             /\ (\A d \in open : ContractGood(d))' /\ ContractsApart'
  <2>1. /\ HeapGood(heap, owner, given) /\ ContractsApart
        /\ \A d \in open : ContractGood(d)
        /\ ~ Wraps(heap, StructSize) /\ ~ Wraps(h, n)
    BY <1>5, <1>9 DEF RuntimeInv
  <2> DEFINE own == [owner EXCEPT ![c] = "contract"]
             giv == [given EXCEPT ![c] = StructSize]
  <2>2. /\ heap.bump <= c /\ owner[c] = "none" /\ h.bump = c + StructSize
        /\ HeapGood(h, own, giv)
    BY <1>0, <1>1, <1>3, <2>1, MallocGood DEF InUse, h
  <2>3. /\ h.live = heap.live \cup {c} /\ h.size = [heap.size EXCEPT ![c] = StructSize]
    BY <1>0, <1>1, <1>3, MallocParts DEF h
  <2>4. own \in [Addresses -> Owners] /\ giv \in [Addresses -> Addresses]
    BY <1>1, <1>3 DEF Owners
  <2>5. /\ HeapGood(heap', owner', given')
        /\ n > 0 => /\ a \in Addresses /\ h.bump <= a /\ own[a] = "none"
                    /\ heap'.size = [h.size EXCEPT ![a] = n]
        /\ n = 0 => heap'.size = h.size
    <3>1. CASE n = 0
      <4>1. a \notin Addresses /\ h2 = h
        BY <1>6, <3>1, AddressRange
      <4>2. owner' = own /\ given' = giv
        BY <1>1, <1>5, <4>1
      <4>3. heap' = h
        BY <1>5, <4>1
      <4> HIDE DEF own, giv
      <4> QED BY <1>2, <2>2, <3>1, <4>2, <4>3
    <3>2. CASE n > 0
      <4>1. a = MallocStart(h, n) /\ a \in Addresses
        BY <1>6, <3>2, <1>2
      <4>2. /\ h.bump <= a /\ own[a] = "none"
            /\ HeapGood(h2, [own EXCEPT ![a] = "contract"], [giv EXCEPT ![a] = n])
        <5> HIDE DEF own, giv
        <5> QED BY <1>2, <1>4, <2>1, <2>2, <2>4, <3>2, <4>1, MallocGood DEF InUse, h2
      <4>3. owner' = [own EXCEPT ![a] = "contract"] /\ given' = [giv EXCEPT ![a] = n]
        BY <1>1, <1>5, <4>1
      <4>4. h2.size = [h.size EXCEPT ![a] = n]
        BY <1>2, <1>4, <3>2, <4>1, MallocParts DEF h2
      <4>5. heap' = h2
        BY <1>5
      <4> HIDE DEF own, giv
      <4> QED BY <1>2, <3>2, <4>1, <4>2, <4>3, <4>4, <4>5
    <3> QED BY <1>2, <3>1, <3>2
  <2>6. n > 0 => a /= c /\ owner[a] = "none"
    BY <1>1, <1>4, <2>5
  <2>7. n = 0 => a = Null
    BY <1>6
  <2>8. ASSUME NEW x \in heap.live
        PROVE  /\ x \in Addresses /\ x /= c /\ x /= a /\ owner[x] /= "none"
               /\ Untouched(x)
    <3>1. x \in Addresses /\ owner[x] /= "none" /\ x /= Null
      BY <1>1, <2>1, HeapParts, AddressRange DEF HeapGood, InUse
    <3>2. x /= c /\ x /= a
      BY <1>2, <2>2, <2>6, <2>7, <3>1
    <3>3. owner'[x] = owner[x]
      BY <1>5, <3>1, <3>2
    <3>4. heap.size \in [Addresses -> Addresses] /\ h.size \in [Addresses -> Addresses]
      BY <1>1, <1>4, HeapParts
    <3>5. heap'.size[x] = h.size[x]
      BY <1>2, <2>5, <3>1, <3>2, <3>4
    <3>6. h.size[x] = heap.size[x]
      BY <2>3, <3>1, <3>2, <3>4
    <3> QED BY <1>5, <1>6, <3>1, <3>2, <3>3, <3>5, <3>6 DEF Untouched
  <2>9. ASSUME NEW d \in open
        PROVE  /\ d /= c /\ d /= a /\ ContractGood(d)' /\ d \in Addresses
               /\ char_count[d] > 0 => assumes[d] /= c /\ assumes[d] /= a
    <3>1. /\ d \in Addresses /\ d \in heap.live
          /\ char_count[d] > 0 => assumes[d] \in heap.live
      BY <1>1, <2>1, ContractChunks
    <3>2. d /= c /\ d /= a /\ Untouched(d)
      BY <2>8, <3>1
    <3>3. char_count[d] > 0 => assumes[d] /= c /\ assumes[d] /= a /\ Untouched(assumes[d])
      BY <2>8, <3>1
    <3>4. /\ char_count'[d] = char_count[d] /\ declared'[d] = declared[d]
          /\ said'[d] = said[d] /\ assumes'[d] = assumes[d]
      BY <1>1, <1>5, <3>1, <3>2 DEF TypeOK
    <3> QED BY <2>1, <3>1, <3>2, <3>3, <3>4, ContractStays
  <2>10. /\ char_count'[c] = n /\ declared'[c] = size /\ said'[c] = {} /\ assumes'[c] = a
    BY <1>1, <1>4, <1>5 DEF TypeOK
  <2>11. ContractGood(c)'
    <3>1. owner'[c] = "contract" /\ heap'.size[c] = StructSize
      <4>1. heap.size \in [Addresses -> Addresses] /\ h.size \in [Addresses -> Addresses]
        BY <1>1, <1>4, HeapParts
      <4>2. h.size[c] = StructSize
        BY <1>4, <2>3, <4>1
      <4>3. heap'.size[c] = h.size[c]
        BY <1>2, <1>4, <2>5, <2>6, <4>1
      <4> QED BY <1>4, <1>5, <4>2, <4>3
    <3>2. ASSUME n > 0
          PROVE  /\ a \in Addresses /\ owner'[a] = "contract" /\ heap'.size[a] = n
                 /\ \A x \in 0 .. n - 1, b \in ByteBits : <<a + x, b>> \notin heap'.mem
      <4>1. h.size \in [Addresses -> Addresses] /\ a \in Addresses
        BY <1>4, <2>5, <3>2, HeapParts
      <4>2. owner'[a] = "contract" /\ heap'.size[a] = n
        BY <1>5, <2>5, <3>2, <4>1
      <4>3. ASSUME NEW x \in 0 .. n - 1, NEW b \in ByteBits, <<a + x, b>> \in heap'.mem
            PROVE  FALSE
        <5>1. a + x < heap.bump
          BY <1>5, <1>6, <2>1, <4>3 DEF HeapGood
        <5>2. heap.bump \in Nat /\ a \in Nat /\ c \in Nat /\ x \in Nat /\ StructSize = 8
          BY <1>1, <1>2, <1>4, <4>1, HeapParts, AddressRange DEF StructSize
        <5>3. heap.bump <= c /\ h.bump = c + 8 /\ h.bump <= a
          BY <2>2, <2>5, <3>2, <5>2
        <5> QED BY <5>1, <5>2, <5>3
      <4> QED BY <4>1, <4>2, <4>3
    <3>3. n = find_char_count(size)
      BY DEF n
    <3>4. char_count'[c] = find_char_count(declared'[c]) /\ said'[c] \subseteq Behaviours(c)'
      BY <2>10, <3>3
    <3>5. char_count'[c] = 0 => assumes'[c] = Null
      BY <2>7, <2>10
    <3>6. char_count'[c] > 0 =>
            /\ assumes'[c] \in Addresses /\ owner'[assumes'[c]] = "contract"
            /\ heap'.size[assumes'[c]] = char_count'[c]
            /\ \A x \in 0 .. char_count'[c] - 1, b \in ByteBits :
                 <<assumes'[c] + x, b>> \in heap'.mem <=> 8 * x + b \in said'[c]
      BY <2>10, <3>2
    <3> QED BY <3>1, <3>4, <3>5, <3>6 DEF ContractGood
  <2>12. ASSUME NEW d \in open'
         PROVE  ContractGood(d)'
    <3>1. CASE d = c
      BY <2>11, <3>1
    <3>2. CASE d /= c
      <4>1. d \in open
        BY <1>5, <3>2
      <4> QED BY <2>9, <4>1
    <3> QED BY <3>1, <3>2
  <2>13. ContractsApart'
    <3>1. ASSUME NEW d \in open', NEW e \in open', char_count'[d] > 0
          PROVE  /\ assumes'[d] /= e
                 /\ d /= e /\ char_count'[e] > 0 => assumes'[d] /= assumes'[e]
      <4>1. \A x \in open : /\ char_count'[x] = char_count[x] /\ assumes'[x] = assumes[x]
                            /\ x /= c
        BY <1>1, <1>5, <2>9 DEF TypeOK
      <4>2. CASE d = c /\ e = c
        BY <2>6, <2>10, <3>1, <4>2
      <4>3. CASE d = c /\ e /= c
        <5>1. e \in open
          BY <1>5, <4>3
        <5> QED BY <2>9, <2>10, <4>1, <4>3, <5>1
      <4>4. CASE d /= c /\ e = c
        <5>1. d \in open
          BY <1>5, <4>4
        <5> QED BY <2>9, <2>10, <3>1, <4>1, <4>4, <5>1
      <4>5. CASE d /= c /\ e /= c
        <5>1. d \in open /\ e \in open
          BY <1>5, <4>5
        <5> QED BY <2>1, <3>1, <4>1, <5>1 DEF ContractsApart
      <4> QED BY <4>2, <4>3, <4>4, <4>5
    <3> QED BY <3>1 DEF ContractsApart
  <2> QED BY <2>5, <2>12, <2>13
<1>10. ScopesClosed'
  BY <1>1 DEF ScopesClosed
<1> QED BY <1>1, <1>7, <1>8, <1>9, <1>10 DEF RuntimeInv

(* The invariant holds in every state, for every size of the address space, *)
(* and whatever the program calls.                                          *)
THEOREM Invariance == Spec => []RuntimeInv
<1>1. Init => RuntimeInv
  <2> SUFFICES ASSUME Init PROVE RuntimeInv
    OBVIOUS
  <2>1. /\ heap.bump = HeapBase /\ heap.live = {} /\ heap.mem = {}
        /\ heap.size = [x \in Addresses |-> 0]
        /\ heap = [bump |-> HeapBase, live |-> {}, size |-> [x \in Addresses |-> 0],
                   mem |-> {}]
    BY DEF Init, NoChunks
  <2>2. 0 \in Addresses /\ HeapBase \in Addresses /\ HeapBase \in Nat
    BY AddressRange
  <2>3. heap \in HeapType
    BY <2>1, <2>2 DEF HeapType
  <2>4. owner = [x \in Addresses |-> "none"] /\ given = [x \in Addresses |-> 0]
        /\ open = {} /\ depth = 0 /\ status = "running" /\ sound = TRUE
    BY DEF Init
  <2>5. TypeOK
    BY <2>2, <2>3, <2>4 DEF Init, TypeOK, Owners
  <2>6. HeapGood(heap, owner, given)
    BY <2>1, <2>2, <2>4 DEF HeapGood, InUse
  <2> QED BY <2>4, <2>5, <2>6 DEF RuntimeInv, ContractsApart, ScopesClosed
<1>2. RuntimeInv /\ [Next]_vars => RuntimeInv'
  <2> SUFFICES ASSUME RuntimeInv, [Next]_vars PROVE RuntimeInv'
    OBVIOUS
  <2>0. /\ Sizes \subseteq Addresses /\ Offsets \subseteq Int
        /\ Values \subseteq SUBSET ByteBits
    BY ProgramAssumption, AddressRange
  <2>1. CASE UNCHANGED vars
    BY <2>1 DEF vars, contractVars, RuntimeInv, TypeOK, HeapGood, ContractGood,
                ContractsApart, ScopesClosed, Behaviours
  <2>2. CASE Allocates
    BY <2>0, <2>2, MallocInv, CallocInv DEF Allocates, alloca
  <2>3. CASE Frees
    BY <2>3, FreeInv DEF Frees
  <2>4. CASE Reallocates
    <3>1. ASSUME NEW n \in Sizes, realloc(Null, 0, n)
          PROVE  RuntimeInv'
      BY <2>0, <3>1, ReallocInv
    <3>2. ASSUME NEW n \in Sizes, NEW p \in Pointers, NEW i \in Offsets, realloc(p, i, n)
          PROVE  RuntimeInv'
      BY <2>0, <3>2, ReallocInv
    <3> QED BY <2>4, <3>1, <3>2 DEF Reallocates
  <2>5. CASE Accesses
    BY <2>5, LoadInv, StoreInv DEF Accesses
  <2>6. CASE Duplicates
    BY <2>6, StrdupInv DEF Duplicates
  <2>7. CASE UsesContracts
    BY <2>7, InitContractInv, CleanInv, SetBehaviorInv DEF UsesContracts
  <2>8. CASE MakesSymbols
    <3>1. ASSUME NEW p \in Pointers, NEW n \in Sizes, NEW v \in Values,
                 klee_make_symbolic(p, n, v) \/ klee_define_fixed_object(p, n, v)
          PROVE  RuntimeInv'
      <4>1. n \in Addresses /\ v \in SUBSET ByteBits
        BY <2>0
      <4> QED BY <3>1, <4>1, SymbolicInv DEF klee_make_symbolic, klee_define_fixed_object
    <3> QED BY <2>8, <3>1, RangeInv, EndInv DEF MakesSymbols
  <2>9. CASE Ended
    BY <2>9, EndInv
  <2> QED BY <2>1, <2>2, <2>3, <2>4, <2>5, <2>6, <2>7, <2>8, <2>9 DEF Next
<1> QED BY <1>1, <1>2, PTL DEF Spec

(* The chunks in use are disjoint, the one of realloc(NULL, n) at address 0 *)
(* among them, until a sum of malloc wraps around or realloc makes a chunk  *)
(* larger than its room or inside of another one.                           *)
THEOREM ChunksNeverOverlap == Spec => []ChunksDisjoint
<1>1. RuntimeInv => ChunksDisjoint
  <2> SUFFICES ASSUME RuntimeInv, sound, NEW x \in heap.live
               PROVE  /\ HeapBase <= x \/ (x = 0 /\ heap.size[x] <= HeapBase)
                      /\ x + heap.size[x] <= heap.bump
                      /\ \A y \in heap.live : x < y => x + heap.size[x] <= y
    BY DEF ChunksDisjoint
  <2>1. /\ heap \in HeapType /\ given \in [Addresses -> Addresses]
        /\ HeapGood(heap, owner, given)
    BY DEF RuntimeInv, TypeOK
  <2>2. /\ heap.live \subseteq Addresses /\ heap.size \in [Addresses -> Addresses]
        /\ heap.bump \in Addresses
    BY <2>1, HeapParts
  <2>3. \A y \in heap.live : y \in Addresses /\ owner[y] /= "none"
    BY <2>1, <2>2 DEF HeapGood, InUse
  <2>4. /\ heap.size[x] <= given[x] /\ x + given[x] <= heap.bump
        /\ HeapBase <= x \/ (x = 0 /\ given[x] = HeapBase)
    BY <2>1, <2>3 DEF HeapGood, InPlace
  <2>5. \A y \in heap.live : x < y => x + given[x] <= y
    BY <2>1, <2>3 DEF HeapGood
  <2>6. /\ x \in Nat /\ heap.size[x] \in Nat /\ given[x] \in Nat /\ heap.bump \in Nat
        /\ \A y \in heap.live : y \in Nat
    BY <2>1, <2>2, AddressRange
  <2> QED BY <2>4, <2>5, <2>6
<1> QED BY <1>1, Invariance, PTL

(* What is in use is exactly what somebody was given and did not give back: *)
(* a pointer that was freed never becomes valid again.                      *)
THEOREM FreedStaysFreed == Spec => []LiveIsOwned
<1>1. RuntimeInv => LiveIsOwned
  BY DEF RuntimeInv, HeapGood, LiveIsOwned, InUse
<1> QED BY <1>1, Invariance, PTL

(* Nothing was written where malloc has not yet allocated.                  *)
THEOREM MallocGivesZeroes == Spec => []FreshIsZero
<1>1. RuntimeInv => FreshIsZero
  BY DEF RuntimeInv, HeapGood, FreshIsZero
<1> QED BY <1>1, Invariance, PTL

(* A scope of symbols is open at the end of a path only after klee_range    *)
(* stopped it or a copy of symbolic bytes went out of bounds.               *)
THEOREM ScopesClose == Spec => []ScopesClosed
<1>1. RuntimeInv => ScopesClosed
  BY DEF RuntimeInv
<1> QED BY <1>1, Invariance, PTL

(* The bits that are set in the cells of a contract are as many as the      *)
(* behaviours said to be active.                                            *)
LEMMA BitsCounted ==
  ASSUME TypeOK, HeapGood(heap, owner, given), NEW c \in open, ContractGood(c)
  PROVE  LET bits == {e \in heap.mem : e[1] \in AddressesFrom(assumes[c], 0, char_count[c])}
         IN IsFiniteSet(said[c]) /\ Cardinality(bits) = Cardinality(said[c])
<1> DEFINE a == assumes[c]
           n == char_count[c]
           S == said[c]
           bits == {e \in heap.mem : e[1] \in AddressesFrom(a, 0, n)}
           f == [i \in S |-> <<a + find_char_index(i), find_bit_index(i)>>]
<1>1. /\ heap \in HeapType /\ n \in Nat /\ declared[c] \in Nat /\ c \in Addresses
      /\ n = find_char_count(declared[c]) /\ S \subseteq 0 .. declared[c] - 1
      /\ owner \in [Addresses -> Owners] /\ given \in [Addresses -> Addresses]
  BY DEF TypeOK, ContractGood, Behaviours
<1>2. IsFiniteSet(S)
  <2>1. IsFiniteSet(0 .. declared[c] - 1)
    BY <1>1, FS_Interval
  <2> QED BY <1>1, <2>1, FS_Subset
<1>3. CASE n = 0
  <2>1. declared[c] = 0
    <3> DEFINE d == declared[c]
    <3>1. d \in Nat /\ find_char_count(d) = 0
      BY <1>1, <1>3
    <3> HIDE DEF d
    <3>2. d > 0 => find_char_count(d) > 0
      BY <3>1, CharCount
    <3>3. d = 0
      BY <3>1, <3>2
    <3> QED BY <3>3 DEF d
  <2>2. S = {}
    <3>1. \A k \in 0 .. declared[c] - 1 : FALSE
      BY <2>1
    <3> HIDE DEF S
    <3> QED BY <1>1, <3>1
  <2>3. bits = {}
    BY <1>3 DEF AddressesFrom
  <2> QED BY <1>2, <2>2, <2>3
<1>4. CASE n > 0
  <2>1. /\ a \in Addresses /\ a \in Nat /\ a \in heap.live /\ heap.size[a] = n
        /\ \A x \in 0 .. n - 1, b \in ByteBits : <<a + x, b>> \in heap.mem <=> 8 * x + b \in S
    BY <1>4, AddressRange, ContractChunks DEF ContractGood
  <2>2. ASSUME NEW x \in 0 .. n - 1
        PROVE  (a + 0 + x) % AddressSpace = a + x
    <3>1. a + x \in Nat /\ a + x < heap.bump
      BY <1>1, <2>1, BelowBump
    <3>2. heap.bump \in Nat /\ heap.bump < AddressSpace
      BY <1>1, HeapParts, AddressRange
    <3>3. a + x \in Addresses
      BY <3>1, <3>2, AddressRange
    <3>4. a + 0 + x = a + x
      BY <2>1
    <3> QED BY <3>3, <3>4, Modulo
  <2>3. AddressesFrom(a, 0, n) = {a + x : x \in 0 .. n - 1}
    BY <2>2 DEF AddressesFrom
  <2>4. ASSUME NEW i \in S
        PROVE  /\ i \in Nat /\ find_char_index(i) \in 0 .. n - 1 /\ find_bit_index(i) \in ByteBits
               /\ 8 * find_char_index(i) + find_bit_index(i) = i
    <3>1. i \in Nat /\ i \in Behaviours(c)
      BY <1>1 DEF Behaviours
    <3>2. find_char_index(i) \in 0 .. n - 1 /\ find_bit_index(i) \in ByteBits
      BY <3>1, CellExact
    <3>3. find_char_index(i) \in Nat
      BY <1>1, <3>2
    <3> QED BY <3>1, <3>2, <3>3, OneBit
  <2>5. f \in [S -> bits]
    <3>1. ASSUME NEW i \in S
          PROVE  f[i] \in bits
      <4>1. <<a + find_char_index(i), find_bit_index(i)>> \in heap.mem
        BY <2>1, <2>4
      <4>2. a + find_char_index(i) \in AddressesFrom(a, 0, n)
        BY <2>3, <2>4
      <4> QED BY <4>1, <4>2
    <3> QED BY <3>1
  <2>6. ASSUME NEW i \in S, NEW j \in S, f[i] = f[j]
        PROVE  i = j
    <3>1. /\ a + find_char_index(i) = a + find_char_index(j)
          /\ find_bit_index(i) = find_bit_index(j)
      BY <2>6
    <3>2. find_char_index(i) \in Nat /\ find_char_index(j) \in Nat
      BY <1>1, <2>4
    <3>3. find_char_index(i) = find_char_index(j)
      BY <2>1, <3>1, <3>2
    <3> QED BY <2>4, <3>1, <3>3
  <2>7. ASSUME NEW e \in bits
        PROVE  \E i \in S : f[i] = e
    <3>1. heap.mem \subseteq Addresses \X ByteBits
      BY <1>1, HeapParts
    <3>2. PICK x \in 0 .. n - 1, b \in ByteBits : e = <<a + x, b>>
      <4>1. PICK y \in Addresses, b \in ByteBits : e = <<y, b>>
        BY <3>1
      <4>2. e[1] \in AddressesFrom(a, 0, n) /\ e[1] = y
        BY <4>1
      <4>3. PICK x \in 0 .. n - 1 : y = a + x
        BY <2>3, <4>2
      <4> QED BY <4>1, <4>3
    <3>3. 8 * x + b \in S
      BY <2>1, <3>2
    <3>4. x \in Nat /\ 8 * x + b \in Nat
      BY <1>1, <2>4, <3>3
    <3>5. x = find_char_index(8 * x + b) /\ b = find_bit_index(8 * x + b)
      BY <3>4, OneBit
    <3>6. f[8 * x + b] = e
      BY <3>2, <3>3, <3>5
    <3> QED BY <3>3, <3>6
  <2> HIDE DEF f, bits, S
  <2>8. f \in Bijection(S, bits)
    BY <2>5, <2>6, <2>7, Fun_IsBij
  <2>9. ExistsBijection(S, bits)
    BY <2>8 DEF ExistsBijection
  <2> QED BY <1>2, <2>9, FS_Bijection DEF S, bits
<1> QED BY <1>1, <1>3, <1>4

(* The calls on a contract in use never end the path, and what they count   *)
(* are the behaviours said to be active.                                    *)
THEOREM ContractsAreExact == Spec => []ContractsExact
<1>1. RuntimeInv => ContractsExact
  <2> SUFFICES ASSUME RuntimeInv, sound, NEW c \in open
               PROVE  /\ FieldAccess(c) = "ok"
                      /\ \A i \in Behaviours(c) :
                           /\ CellAccess(c, i) = "ok"
                           /\ get_behavior_assumes(c, i) = 1 <=> i \in said[c]
                      /\ partial_count_all_behaviors(c) =
                           IF Cardinality(said[c]) > 2 THEN 2 ELSE Cardinality(said[c])
                      /\ \A i, j \in Behaviours(c) :
                           i /= j => partial_count_behaviors(c, <<i, j>>)
                                       = Cardinality({i, j} \cap said[c])
    BY DEF ContractsExact
  <2>1. /\ TypeOK /\ HeapGood(heap, owner, given) /\ ContractGood(c)
        /\ declared[c] \in Nat /\ char_count[c] \in Nat
    BY DEF RuntimeInv, TypeOK
  <2>2. FieldAccess(c) = "ok"
    BY <2>1, FieldOk
  <2>3. ASSUME NEW i \in Behaviours(c)
        PROVE  /\ CellAccess(c, i) = "ok"
               /\ get_behavior_assumes(c, i) = 1 <=> i \in said[c]
               /\ get_behavior_assumes(c, i) \in {0, 1}
    <3>1. /\ Cell(c, i) = assumes[c] + find_char_index(i)
          /\ find_char_index(i) \in 0 .. char_count[c] - 1
          /\ find_bit_index(i) \in ByteBits
          /\ CellAccess(c, i) = "ok"
      BY <2>1, CellExact
    <3>2. char_count[c] > 0 /\ find_char_index(i) \in Nat
      BY <2>1, <3>1
    <3>3. <<Cell(c, i), find_bit_index(i)>> \in heap.mem
            <=> 8 * find_char_index(i) + find_bit_index(i) \in said[c]
      BY <2>1, <3>1, <3>2 DEF ContractGood
    <3>4. i \in Nat
      BY <2>1 DEF Behaviours
    <3>5. 8 * find_char_index(i) + find_bit_index(i) = i
      BY <3>1, <3>2, <3>4, OneBit
    <3> QED BY <3>1, <3>3, <3>5 DEF get_behavior_assumes
  <2>4. partial_count_all_behaviors(c) =
          IF Cardinality(said[c]) > 2 THEN 2 ELSE Cardinality(said[c])
    <3> DEFINE bits == {e \in heap.mem : e[1] \in AddressesFrom(assumes[c], 0, char_count[c])}
    <3>1. Cardinality(bits) = Cardinality(said[c])
      BY <2>1, BitsCounted
    <3>2. partial_count_all_behaviors(c) =
            IF Cardinality(bits) > 2 THEN 2 ELSE Cardinality(bits)
      BY DEF partial_count_all_behaviors
    <3> QED BY <3>1, <3>2
  <2>5. ASSUME NEW i \in Behaviours(c), NEW j \in Behaviours(c), i /= j
        PROVE  partial_count_behaviors(c, <<i, j>>) = Cardinality({i, j} \cap said[c])
    <3>1. partial_count_behaviors(c, <<i, j>>)
            = get_behavior_assumes(c, i) + get_behavior_assumes(c, j)
      BY DEF partial_count_behaviors
    <3>2. Cardinality({i, j} \cap said[c]) =
            (IF i \in said[c] THEN 1 ELSE 0) + (IF j \in said[c] THEN 1 ELSE 0)
      <4>1. Cardinality({}) = 0 /\ Cardinality({i}) = 1 /\ Cardinality({j}) = 1
        BY FS_EmptySet, FS_Singleton
      <4>2. Cardinality({i, j}) = 2
        <5>1. {i} \cup {j} = {i, j} /\ j \notin {i} /\ IsFiniteSet({i})
          BY <2>5, FS_Singleton
        <5>2. Cardinality({i} \cup {j}) = Cardinality({i}) + 1
          BY <5>1, FS_AddElement
        <5> QED BY <4>1, <5>1, <5>2
      <4>3. CASE i \in said[c] /\ j \in said[c]
        <5>1. {i, j} \cap said[c] = {i, j}
          BY <4>3
        <5> QED BY <4>2, <4>3, <5>1
      <4>4. CASE i \in said[c] /\ j \notin said[c]
        <5>1. {i, j} \cap said[c] = {i}
          BY <4>4
        <5> QED BY <4>1, <4>4, <5>1
      <4>5. CASE i \notin said[c] /\ j \in said[c]
        <5>1. {i, j} \cap said[c] = {j}
          BY <4>5
        <5> QED BY <4>1, <4>5, <5>1
      <4>6. CASE i \notin said[c] /\ j \notin said[c]
        <5>1. {i, j} \cap said[c] = {}
          BY <4>6
        <5> QED BY <4>1, <4>6, <5>1
      <4> QED BY <4>3, <4>4, <4>5, <4>6
    <3>3. /\ get_behavior_assumes(c, i) = (IF i \in said[c] THEN 1 ELSE 0)
          /\ get_behavior_assumes(c, j) = (IF j \in said[c] THEN 1 ELSE 0)
      BY <2>3
    <3> QED BY <3>1, <3>2, <3>3
  <2> QED BY <2>2, <2>3, <2>4, <2>5
<1> QED BY <1>1, Invariance, PTL
=============================================================================
