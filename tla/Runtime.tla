------------------------------ MODULE Runtime ------------------------------
(***************************************************************************)
(* A program that owi explores and the libraries it is linked with, along  *)
(* one path: it allocates, frees and accesses memory (Heap), evaluates the *)
(* contracts of E-ACSL (lang_c/libowi/src/eacsl.c), which live in the same *)
(* heap, and makes symbolic input with the functions of KLEE               *)
(* (lang_c/libowi/src/klee.c), which do too.  The program makes the calls  *)
(* in any order, with any pointer it was ever given, until one of them     *)
(* ends the path.                                                          *)
(*                                                                         *)
(* The two fields of a contract are kept apart from the bytes of the heap, *)
(* where only its array of bits is.  Symbolic bytes have any value.        *)
(***************************************************************************)
EXTENDS Heap, Sequences, FiniteSets

CONSTANTS
  Sizes,                \* that the program asks for
  Offsets,              \* at which it accesses a chunk
  Contracts,            \* the numbers of behaviours of its contracts
  Values,               \* the bytes it writes and reads as symbolic input
  MaxCalls              \* bound: the calls it makes

ASSUME ProgramAssumption ==
  /\ Sizes \subseteq Addresses
  /\ Offsets \subseteq Addresses
  /\ Contracts \subseteq Addresses
  /\ Values \subseteq SUBSET ByteBits
  /\ MaxCalls \in Nat
  /\ 8 < AddressSpace

VARIABLES
  heap,
  status,       \* "running", or what ended the path
  depth,        \* the scopes of symbols that are open
  open,         \* the contracts in use, by their address
  char_count,   \* of each contract
  assumes,      \* of each contract: its array
  calls,
  owner,        \* history: who was given the chunk at an address last
  given,        \* history: the room of the chunk at an address, the size malloc
                \*   gave it or, of the one at 0, what is below the heap
  sound,        \* history: no sum in malloc wrapped around, and realloc made no
                \*   chunk larger than its room, none at 0 that reaches the
                \*   heap, and none inside another one
  declared,     \* history: the number of behaviours of each contract
  said          \* history: those of them said to be active

vars == <<heap, status, depth, open, char_count, assumes, calls, owner, given,
          sound, declared, said>>
contractVars == <<open, char_count, assumes, declared, said>>

Owners == {"none", "program", "contract", "klee", "freed"}
Traps == {"double_free", "use_after_free", "heap_overflow"}
Ends == Traps \cup {"assert", "stop"}

(***************************************************************************)
(* Allocation.  The ghosts follow a list of sizes malloc is asked for.     *)
(***************************************************************************)
Wraps(h, n) == n > 0 /\ h.bump + Padding(h, n) + n >= AddressSpace

Gives(h, n, who) ==
  /\ owner' = IF n = 0 THEN owner ELSE [owner EXCEPT ![MallocStart(h, n)] = who]
  /\ given' = IF n = 0 THEN given ELSE [given EXCEPT ![MallocStart(h, n)] = n]
  /\ sound' = (sound /\ ~ Wraps(h, n))

Step == status = "running" /\ calls' = calls + 1

Least(k, S) == k \in S /\ \A x \in S : k <= x

(* A call that leaves everything but the heap, its history and the end of   *)
(* the path alone.                                                          *)
HeapOnly == UNCHANGED <<depth, contractVars>>

malloc(n) ==
  /\ Step /\ HeapOnly /\ UNCHANGED status
  /\ heap' = Malloc(heap, n)
  /\ Gives(heap, n, "program")

alloca(n) == malloc(n)

calloc(nmemb, size) == malloc(CallocBytes(nmemb, size))

(* The pointers the program has: to chunks it was given, in use or not. *)
Pointers == {a \in Addresses : owner[a] \in {"program", "freed"}}

(* free looks at the base of its argument only. *)
free(p) ==
  /\ Step /\ HeapOnly /\ UNCHANGED <<given, sound>>
  /\ IF DeallocTraps(heap, p)
       THEN status' = "double_free" /\ UNCHANGED <<heap, owner>>
       ELSE /\ heap' = Dealloc(heap, p)
            /\ owner' = IF p = Null THEN owner ELSE [owner EXCEPT ![p] = "freed"]
            /\ UNCHANGED status

(* A new chunk of realloc(NULL, n) is at address 0, below the heap, and the *)
(* next one takes its place.                                                *)
realloc(p, i, n) ==
  /\ Step /\ HeapOnly
  /\ IF DeallocTraps(heap, p)
       THEN status' = "double_free" /\ UNCHANGED <<heap, owner, given, sound>>
       ELSE LET base == ReallocBase(p, i)
                before == IF p = Null THEN owner ELSE [owner EXCEPT ![p] = "freed"]
            IN /\ heap' = Realloc(heap, p, i, n)
               /\ owner' = [before EXCEPT ![base] = "program"]
               /\ given' = IF p = Null THEN [given EXCEPT ![0] = HeapBase] ELSE given
               /\ sound' = (sound /\ base = (IF p = Null THEN 0 ELSE p) /\ n <= given'[base])
               /\ UNCHANGED status

(***************************************************************************)
(* Accesses of the program: one byte, or four at once.                     *)
(***************************************************************************)
Store(p, i, n, v) ==
  /\ Step /\ HeapOnly /\ UNCHANGED <<owner, given, sound>>
  /\ IF Access(heap, p, i, n) = "ok"
       THEN /\ heap' = SetBytes(heap, AddressesFrom(p, i, n), v)
            /\ UNCHANGED status
       ELSE status' = Access(heap, p, i, n) /\ UNCHANGED heap

(* A load changes nothing but may end the path. *)
Load(p, i, n) ==
  /\ Step /\ HeapOnly /\ UNCHANGED <<heap, owner, given, sound>>
  /\ Access(heap, p, i, n) /= "ok"
  /\ status' = Access(heap, p, i, n)

(* strdup of the string at p.  A string that does not end in its chunk is  *)
(* read beyond it; the end of a path leaves no trace but its reason.       *)
StringEnd(p) == {k \in 0 .. heap.size[p] - 1 : Byte(heap, (p + k) % AddressSpace) = {}}

strdup(p) ==
  /\ Step /\ HeapOnly
  /\ IF p \in heap.live /\ StringEnd(p) /= {}
       THEN /\ UNCHANGED status
            /\ \E l \in 1 .. heap.size[p] :
                 /\ Least(l - 1, StringEnd(p))
                 /\ heap' = CopyBytes(Malloc(heap, l), MallocPtr(heap, l), p, l)
                 /\ Gives(heap, l, "program")
       ELSE /\ UNCHANGED <<heap, owner, given, sound>>
            /\ status' = IF p \in heap.live THEN "heap_overflow" ELSE "use_after_free"

(***************************************************************************)
(* Contracts.  Behaviour i is bit i % 8 of byte i \div 8 of the array.  The *)
(* program gives the functions contracts in use and behaviours they have.  *)
(***************************************************************************)
StructSize == 8

find_char_index(i) == i \div 8
find_bit_index(i) == i % 8
(* Faulty: rounds down. *)
find_char_count_Down(bit_count) == bit_count \div 8
find_char_count(bit_count) ==
  bit_count \div 8 + (IF bit_count % 8 > 0 THEN 1 ELSE 0)

contract_init(size) ==
  LET c == MallocPtr(heap, StructSize)
      h == Malloc(heap, StructSize)
      n == find_char_count(size)
  IN /\ Step /\ UNCHANGED <<status, depth>>
     /\ heap' = Malloc(h, n)
     /\ owner' = [a \in Addresses |->
                    IF a = c \/ a = MallocPtr(h, n) THEN "contract" ELSE owner[a]]
     /\ given' = [a \in Addresses |->
                    IF a = MallocPtr(h, n) THEN n
                    ELSE IF a = c THEN StructSize ELSE given[a]]
     /\ sound' = (sound /\ ~ Wraps(heap, StructSize) /\ ~ Wraps(h, n))
     /\ open' = open \cup {c}
     /\ char_count' = [char_count EXCEPT ![c] = n]
     /\ assumes' = [assumes EXCEPT ![c] = MallocPtr(h, n)]
     /\ declared' = [declared EXCEPT ![c] = size]
     /\ said' = [said EXCEPT ![c] = {}]

(* The functions below read c->assumes first. *)
FieldAccess(c) == Access(heap, c, 4, 4)

contract_clean(c) ==
  LET a == assumes[c]
      h == Dealloc(heap, a)
  IN /\ Step
     /\ UNCHANGED <<depth, char_count, assumes, declared, said, given, sound>>
     /\ open' = open \ {c}
     /\ IF FieldAccess(c) /= "ok"
          THEN status' = FieldAccess(c) /\ UNCHANGED <<heap, owner>>
          ELSE IF DeallocTraps(heap, a) \/ DeallocTraps(h, c)
          THEN status' = "double_free" /\ UNCHANGED <<heap, owner>>
          ELSE /\ heap' = Dealloc(h, c)
               /\ owner' = [x \in Addresses |->
                              IF x = a \/ x = c THEN "freed" ELSE owner[x]]
               /\ UNCHANGED status

(* The cell that holds behaviour i of contract c, and its check *)
Cell(c, i) == (assumes[c] + find_char_index(i)) % AddressSpace
CellAccess(c, i) ==
  IF FieldAccess(c) /= "ok" THEN FieldAccess(c)
  ELSE Access(heap, assumes[c], find_char_index(i), 1)

(* A bit is set for an active behaviour and never cleared. *)
set_behavior_assumes(c, i, active) ==
  /\ Step
  /\ UNCHANGED <<depth, open, char_count, assumes, declared, owner, given, sound>>
  /\ said' = IF active THEN [said EXCEPT ![c] = @ \cup {i}] ELSE said
  /\ IF CellAccess(c, i) /= "ok" THEN status' = CellAccess(c, i) /\ UNCHANGED heap
     ELSE /\ UNCHANGED status
          /\ heap' = IF active
                       THEN [heap EXCEPT !.mem = @ \cup {<<Cell(c, i), find_bit_index(i)>>}]
                       ELSE heap

get_behavior_assumes(c, i) ==
  IF <<Cell(c, i), find_bit_index(i)>> \in heap.mem THEN 1 ELSE 0

(* Of the behaviours asked for, the first two are counted. *)
partial_count_behaviors(c, args) ==
  LET active(k) == IF k <= Len(args) THEN get_behavior_assumes(c, args[k]) ELSE 0
  IN active(1) + active(2)

(* All cells are counted, up to two bits. *)
partial_count_all_behaviors(c) ==
  LET bits == {b \in heap.mem : b[1] \in AddressesFrom(assumes[c], 0, char_count[c])}
  IN IF Cardinality(bits) > 2 THEN 2 ELSE Cardinality(bits)

(***************************************************************************)
(* The functions of KLEE.  make_in leaves a chunk behind that nobody can   *)
(* free; the copy from it ends the path at the first byte out of bounds,   *)
(* and then close_scope is not reached.                                    *)
(***************************************************************************)
Symbolic(addr, nbytes, v, scopes) ==
  LET t == MallocPtr(heap, nbytes)
      h == Malloc(heap, nbytes)
      filled == IF nbytes = 0 THEN h ELSE SetBytes(h, AddressesFrom(t, 0, nbytes), v)
      good == {k \in 0 .. nbytes - 1 : Access(h, addr, k, 1) = "ok"}
      bad == 0 .. nbytes - 1 \ good
      copied == {(addr + k) % AddressSpace : k \in good}
  IN /\ Step /\ UNCHANGED contractVars
     /\ Gives(heap, nbytes, "klee")
     /\ heap' = SetBytes(filled, copied, v)
     /\ IF bad = {}
          THEN UNCHANGED <<status, depth>>
          ELSE /\ \E k \in bad : Least(k, bad) /\ status' = Access(h, addr, k, 1)
               /\ depth' = depth + scopes

klee_make_symbolic(addr, nbytes, v) == Symbolic(addr, nbytes, v, 1)
klee_define_fixed_object(addr, nbytes, v) == Symbolic(addr, nbytes, v, 0)

(* Faulty: the scope is never closed. *)
klee_range_NoClose(begin, end) ==
  /\ Step /\ UNCHANGED <<heap, contractVars, owner, given, sound>>
  /\ status' = IF begin >= end THEN "stop" ELSE status
  /\ depth' = depth + 1

(* The scope is closed again, unless the range is empty: then the           *)
(* assumption of owi_range ends the path.                                   *)
klee_range(begin, end) ==
  /\ Step /\ UNCHANGED <<heap, contractVars, owner, given, sound>>
  /\ status' = IF begin >= end THEN "stop" ELSE status
  /\ depth' = IF begin >= end THEN depth + 1 ELSE depth

klee_int ==
  Step /\ UNCHANGED <<heap, status, depth, contractVars, owner, given, sound>>

(***************************************************************************)
(* The ends of a path: an assertion that can fail, of the program or of a  *)
(* function of KLEE that owi does not support, an assumption that cannot   *)
(* hold, abort and exit.                                                   *)
(***************************************************************************)
EndPath(how) ==
  /\ Step /\ HeapOnly /\ UNCHANGED <<heap, owner, given, sound>>
  /\ status' = how

klee_assert == EndPath("assert")
klee_unsupported == EndPath("assert")
e_acsl_assert == EndPath("assert")
klee_assume == EndPath("stop")
abort == EndPath("stop")
exit == EndPath("stop")

-----------------------------------------------------------------------------

Init ==
  /\ heap = NoChunks
  /\ status = "running" /\ depth = 0 /\ calls = 0
  /\ open = {}
  /\ char_count = [a \in Addresses |-> 0]
  /\ assumes = [a \in Addresses |-> Null]
  /\ declared = [a \in Addresses |-> 0]
  /\ said = [a \in Addresses |-> {}]
  /\ owner = [a \in Addresses |-> "none"]
  /\ given = [a \in Addresses |-> 0]
  /\ sound = TRUE

Allocates == \E n \in Sizes : malloc(n) \/ alloca(n) \/ \E m \in Sizes : calloc(m, n)

Frees == free(Null) \/ \E p \in Pointers : free(p)

Reallocates ==
  \E n \in Sizes : \/ realloc(Null, 0, n)
                   \/ \E p \in Pointers, i \in Offsets : realloc(p, i, n)

Accesses ==
  \E p \in Pointers, i \in Offsets, n \in {1, 4} :
    Load(p, i, n) \/ \E v \in Values : Store(p, i, n, v)

Duplicates == \E p \in Pointers : strdup(p)

Behaviours(c) == 0 .. declared[c] - 1

UsesContracts ==
  \/ \E size \in Contracts : contract_init(size)
  \/ \E c \in open :
       \/ contract_clean(c)
       \/ \E i \in Behaviours(c), active \in BOOLEAN : set_behavior_assumes(c, i, active)

MakesSymbols ==
  \/ \E p \in Pointers, n \in Sizes, v \in Values :
       klee_make_symbolic(p, n, v) \/ klee_define_fixed_object(p, n, v)
  \/ \E begin, end \in Sizes : klee_range(begin, end)
  \/ klee_int

Ended ==
  klee_assert \/ klee_unsupported \/ e_acsl_assert \/ klee_assume \/ abort \/ exit

Next ==
  /\ calls < MaxCalls
  /\ \/ Allocates \/ Frees \/ Reallocates \/ Accesses \/ Duplicates
     \/ UsesContracts \/ MakesSymbols \/ Ended

Spec == Init /\ [][Next]_vars

-----------------------------------------------------------------------------

(* Every variable has values of its type. *)
TypeOK ==
  /\ heap \in HeapType
  /\ status \in {"running"} \cup Ends
  /\ depth \in Nat /\ calls \in Nat
  /\ open \subseteq Addresses
  /\ char_count \in [Addresses -> Nat]
  /\ assumes \in [Addresses -> Addresses \cup {Null}]
  /\ declared \in [Addresses -> Nat]
  /\ said \in [Addresses -> SUBSET Nat]
  /\ owner \in [Addresses -> Owners]
  /\ given \in [Addresses -> Addresses]
  /\ sound \in BOOLEAN

(* malloc, which only moves a pointer and aligns it by hand, never gives    *)
(* bytes that are in use: the chunks in use are disjoint and lie between    *)
(* the base of the heap and the pointer, save the one that realloc(NULL, n) *)
(* makes at address 0, which lies below.  This is so until a sum of malloc  *)
(* wraps around, or realloc makes a chunk larger in place, makes the one at *)
(* 0 so large that it reaches the heap, or is given a pointer into a chunk: *)
(* nothing in the code keeps the chunks apart then.                         *)
ChunksDisjoint ==
  sound =>
    \A a \in heap.live :
      /\ HeapBase <= a \/ (a = 0 /\ heap.size[a] <= HeapBase)
      /\ a + heap.size[a] <= heap.bump
      /\ \A b \in heap.live : a < b => a + heap.size[a] <= b

(* A pointer that was freed is never valid again, so every use after a free *)
(* and every double free is found, and what the program still owns is never *)
(* taken for freed.  What is in use beside is the contracts', which clean   *)
(* gives back, and the copies klee_make_symbolic forgets.                   *)
LiveIsOwned ==
  sound => heap.live = {a \in Addresses : owner[a] \in {"program", "contract", "klee"}}

(* calloc and contract_init clear nothing and rely on what malloc gives     *)
(* never having been written to.                                            *)
FreshIsZero ==
  sound => \A c \in heap.mem : c[1] < heap.bump

(* The bits of a contract say which behaviours were declared active since   *)
(* it was made, whatever the program did to its own memory in between; the  *)
(* counts that decide completeness and disjointness follow, and no call on  *)
(* a contract in use ends the path.                                         *)
ContractsExact ==
  sound => \A c \in open :
    /\ FieldAccess(c) = "ok"
    /\ \A i \in Behaviours(c) :
         CellAccess(c, i) = "ok" /\ (get_behavior_assumes(c, i) = 1 <=> i \in said[c])
    /\ partial_count_all_behaviors(c) =
         IF Cardinality(said[c]) > 2 THEN 2 ELSE Cardinality(said[c])
    /\ \A i, j \in Behaviours(c) :
         i /= j => partial_count_behaviors(c, <<i, j>>) = Cardinality({i, j} \cap said[c])

(* A report lists the symbols by scope and cannot be printed while a scope  *)
(* is open: one is left open only by a copy of symbolic bytes out of bounds *)
(* and by a path that stops in klee_range, which is not reported.           *)
ScopesClosed ==
  depth > 0 =>
    \/ status = "stop"
    \/ status \in {"use_after_free", "heap_overflow"} /\ \E a \in Addresses : owner[a] = "klee"

-----------------------------------------------------------------------------
(* What makes the properties inductive.                                     *)
InUse == {"program", "contract", "klee"}

(* A chunk is in the heap, or it is the program's and fills what is below.  *)
InPlace(x, room, who) ==
  HeapBase <= x \/ (x = 0 /\ room = HeapBase /\ who \in {"program", "freed"})

(* The chunks ever given lie behind each other under the pointer, what is   *)
(* in use is owned and no larger than its room, and nothing was written     *)
(* above the pointer.                                                       *)
HeapGood(h, own, giv) ==
  /\ HeapBase <= h.bump
  /\ \A x \in Addresses :
       own[x] /= "none" =>
         InPlace(x, giv[x], own[x]) /\ giv[x] > 0 /\ x + giv[x] <= h.bump
  /\ \A x, y \in Addresses :
       own[x] /= "none" /\ own[y] /= "none" /\ x < y => x + giv[x] <= y
  /\ \A x \in h.live : h.size[x] <= giv[x]
  /\ h.live = {x \in Addresses : own[x] \in InUse}
  /\ \A c \in h.mem : c[1] < h.bump

(* A contract in use has its two chunks, and the bits of the second are the *)
(* behaviours said to be active.                                            *)
ContractGood(c) ==
  /\ owner[c] = "contract" /\ heap.size[c] = StructSize
  /\ char_count[c] = find_char_count(declared[c])
  /\ said[c] \subseteq Behaviours(c)
  /\ char_count[c] = 0 => assumes[c] = Null
  /\ char_count[c] > 0 =>
       /\ assumes[c] \in Addresses /\ owner[assumes[c]] = "contract"
       /\ heap.size[assumes[c]] = char_count[c]
       /\ \A x \in 0 .. char_count[c] - 1, b \in ByteBits :
            <<assumes[c] + x, b>> \in heap.mem <=> 8 * x + b \in said[c]

(* No two contracts share a chunk.                                          *)
ContractsApart ==
  \A c, d \in open :
    char_count[c] > 0 =>
      /\ assumes[c] /= d
      /\ c /= d /\ char_count[d] > 0 => assumes[c] /= assumes[d]

RuntimeInv ==
  /\ TypeOK
  /\ sound => /\ HeapGood(heap, owner, given)
              /\ \A c \in open : ContractGood(c)
              /\ ContractsApart
  /\ \A c \in open : declared[c] > 0 => assumes[c] \in Addresses
  /\ status = "running" => depth = 0
  /\ ScopesClosed
=============================================================================
