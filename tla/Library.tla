------------------------------ MODULE Library -------------------------------
(***************************************************************************)
(* The functions of lang_c whose results depend on their arguments alone,  *)
(* called by a program: qsort step by step (QuickSort), the others in one  *)
(* step each, against what they are for.                                   *)
(***************************************************************************)
EXTENDS QuickSort, Numbers, Strings, Time, Inputs, Stubs

CONSTANTS
  NumberCalls,          \* [fn, text, base]
  DecimalCalls,         \* the parts of the text, see DecimalText
  ByteCalls,            \* [fn, m, d, s, n, c]
  Words, ByteSize,      \* words of four bytes with ByteSize values each
  TimeCalls             \* [items, tm, max]: a format is a sequence of items

(* The addresses from 1 on, as many as there are, hold bytes. *)
IsMemory(m) == Max(DOMAIN m) \in Nat /\ m \in [1 .. Max(DOMAIN m) -> 0 .. 255]

(* A date is in its normal ranges, in the years 1900 to 9999: out of them   *)
(* the standard leaves the characters open.  An item of a format is one     *)
(* character, or a % with the character of a directive, perhaps modified.   *)
IsTime(tm) ==
  /\ tm.wday \in 0 .. 6 /\ tm.mon \in 0 .. 11 /\ tm.yday \in 0 .. 365
  /\ tm.mday \in 1 .. 31 /\ tm.year \in 0 .. 8099
  /\ tm.hour \in 0 .. 23 /\ tm.min \in 0 .. 59 /\ tm.sec \in 0 .. 60
IsSequence(s) == s \in Seq({s[n] : n \in DOMAIN s})
IsItem(item) ==
  /\ IsSequence(item)
  /\ \/ Len(item) = 1 /\ item[1] /= "%"
     \/ Len(item) = 2 /\ item[1] = "%" /\ item[2] \notin {"O", "E"}
     \/ /\ Len(item) = 3 /\ item[1] = "%"
        /\ item[2] \in {"O", "E"} /\ item[3] \notin {"O", "E"}

ASSUME CallsAssumption ==
  /\ \A c \in NumberCalls :
       /\ c.fn \in {"atoi", "strtoul", "strtoull", "strtol", "strtoll"}
       /\ c.text \in Texts /\ c.base \in Int
  /\ \A d \in DecimalCalls : IsDecimal(d)
  /\ \A c \in ByteCalls :
       IsMemory(c.m) /\ c.d \in Nat /\ c.s \in Nat /\ c.n \in Nat /\ c.c \in Int
  /\ ByteSize \in Nat \ {0}
  /\ Words \subseteq 0 .. ByteSize * Weight(ByteSize)[4] - 1
  /\ \A c \in TimeCalls :
       /\ IsTime(c.tm) /\ c.max \in Nat
       /\ IsSequence(c.items) /\ \A n \in DOMAIN c.items : IsItem(c.items[n])

VARIABLES call, result

vars == <<sortVars, call, result>>

Sequences_ == INSTANCE SequencesExt

Block2(c) == Block(c.m, c.d, c.n) /\ Block(c.m, c.s, c.n)

(* Where the standard says what a call does. *)
Defined(c) ==
  LET m == c.m IN
  CASE c.fn \in {"memmove", "memcmp"} -> Block2(c)
    [] c.fn \in {"memcpy", "memccpy", "strncpy"} -> Block2(c) /\ Disjoint(c.d, c.s, c.n)
    [] c.fn \in {"memset", "memchr"} -> Block(m, c.s, c.n)
    [] c.fn = "strcpy" -> /\ Terminated(m, c.s) /\ Block(m, c.d, strlen(m, c.s) + 1)
                          /\ Disjoint(c.d, c.s, strlen(m, c.s) + 1)
    [] c.fn \in {"strcmp", "strncmp", "strstr"} -> Terminated(m, c.d) /\ Terminated(m, c.s)
    [] c.fn = "strlen" -> c.s = NULL \/ Terminated(m, c.s)
    [] OTHER -> Terminated(m, c.s)

Init ==
  /\ result = << >>
  /\ \/ SortInit /\ call = [lib |-> "qsort"]
     \/ /\ nmemb = 0 /\ key = << >> /\ a = << >> /\ pc = "done" /\ stack = << >>
        /\ l = 0 /\ r = 0 /\ i = 0 /\ j = 0 /\ p = 0 /\ q = 0 /\ k = 0
        /\ \/ \E c \in NumberCalls : call = [lib |-> "numbers", arg |-> c]
           \/ \E c \in DecimalCalls : call = [lib |-> "strtod", arg |-> c]
           \/ \E c \in -1 .. 255 : call = [lib |-> "ctype", arg |-> c]
           \/ \E c \in ByteCalls : Defined(c) /\ call = [lib |-> "bytes", arg |-> c]
           \/ \E w \in Words : call = [lib |-> "net", arg |-> w]
           \/ \E c \in TimeCalls : call = [lib |-> "time", arg |-> c]
           \/ \E type \in DOMAIN Verifier \cup Uncalled :
                call = [lib |-> "input", arg |-> type]
           \/ \E fn \in DOMAIN StubResult : call = [lib |-> "stub", arg |-> fn]
           \/ \E fn \in math_functions, x \in {-2, 0, 3} :
                call = [lib |-> "math", arg |-> [fn |-> fn, x |-> x]]
           \/ \E fn \in Silent : call = [lib |-> "silent", arg |-> fn]

Returns(lib, out) ==
  /\ call.lib = lib /\ result = << >>
  /\ result' = <<out>>
  /\ UNCHANGED <<sortVars, call>>

ConvertsText ==
  call.lib = "numbers" /\ LET c == call.arg IN
  \/ c.fn = "atoi" /\ Returns("numbers", atoi(c.text))
  \/ c.fn = "strtoul" /\ Returns("numbers", strtoul(c.text, c.base))
  \/ c.fn = "strtoull" /\ Returns("numbers", strtoull(c.text, c.base))
  \/ c.fn = "strtol" /\ Returns("numbers", strtol(c.text, c.base))
  \/ c.fn = "strtoll" /\ Returns("numbers", strtoll(c.text, c.base))

ConvertsDecimal == call.lib = "strtod" /\ Returns("strtod", strtod(DecimalText(call.arg)))

Classifies == call.lib = "ctype" /\ Returns("ctype", Classes(call.arg))

Writes(m, value) == Returns("bytes", [m |-> m, value |-> value])

HandlesBytes ==
  call.lib = "bytes" /\
  LET c == call.arg
      Reads(value) == Writes(c.m, value)
  IN
  \/ c.fn = "memcpy" /\ Writes(memcpy(c.m, c.d, c.s, c.n), c.d)
  \/ c.fn = "memmove" /\ Writes(memmove(c.m, c.d, c.s, c.n), c.d)
  \/ c.fn = "memset" /\ Writes(memset(c.m, c.s, c.c, c.n), c.s)
  \/ c.fn = "memccpy" /\ LET out == memccpy(c.m, c.d, c.s, c.c, c.n)
                         IN Writes(out.mem, out.result)
  \/ c.fn = "strcpy" /\ Writes(strcpy(c.m, c.d, c.s), c.d)
  \/ c.fn = "strncpy" /\ Writes(strncpy(c.m, c.d, c.s, c.n), c.d)
  \/ c.fn = "memcmp" /\ Reads(memcmp(c.m, c.d, c.s, c.n))
  \/ c.fn = "strcmp" /\ Reads(strcmp(c.m, c.d, c.s))
  \/ c.fn = "strncmp" /\ Reads(strncmp(c.m, c.d, c.s, c.n))
  \/ c.fn = "strstr" /\ Reads(strstr(c.m, c.d, c.s))
  \/ c.fn = "memchr" /\ Reads(memchr(c.m, c.s, c.c, c.n))
  \/ c.fn = "strchr" /\ Reads(strchr(c.m, c.s, c.c))
  \/ c.fn = "strrchr" /\ Reads(strrchr(c.m, c.s, c.c))
  \/ c.fn = "strlen" /\ Reads(strlen(c.m, c.s))

SwapsBytes ==
  call.lib = "net" /\ Returns("net", [htonl |-> htonl(call.arg, ByteSize),
                  htons |-> htons(call.arg % Weight(ByteSize)[3], ByteSize)])

Format(items) == Sequences_!FlattenSeq(items)

FormatsTime ==
  /\ call.lib = "time"
  /\ LET c == call.arg IN Returns("time", strftime(c.max, Format(c.items), c.tm))

MakesInput == call.lib = "input" /\ Returns("input", Nondet(call.arg))
DoesNothing ==
  \/ call.lib = "stub" /\ Returns("stub", StubResult[call.arg])
  \/ call.lib = "math" /\ Returns("math", math(call.arg.fn, call.arg.x))
  \/ call.lib = "silent" /\ Returns("silent", "nothing")

Sorts == call.lib = "qsort" /\ SortNext /\ UNCHANGED <<call, result>>

Next ==
  \/ Sorts \/ ConvertsText \/ ConvertsDecimal \/ Classifies \/ HandlesBytes
  \/ SwapsBytes \/ FormatsTime \/ MakesInput \/ DoesNothing

Spec == Init /\ [][Next]_vars

-----------------------------------------------------------------------------

Returned(lib) == call.lib = lib /\ result /= << >>

NumberDenotes(c, out) ==
  CASE c.fn = "strtoul" -> UnsignedDenotes(c.text, c.base, LongBits, out)
    [] c.fn = "strtoull" -> UnsignedDenotes(c.text, c.base, LongLongBits, out)
    [] c.fn = "strtol" -> SignedDenotes(c.text, c.base, LongBits, out)
    [] c.fn = "strtoll" -> SignedDenotes(c.text, c.base, LongLongBits, out)
    [] c.fn = "atoi" -> IntegerDenotes(c.text, out)

(* A conversion takes the longest part of the text that is a number in the *)
(* base, gives that number or the nearest there is, and tells which, over   *)
(* all the spaces, signs, prefixes, bases and widths.  strtod does where    *)
(* there is a digit in front of an exponent and one in it.                  *)
NumbersDenote ==
  /\ Returned("ctype") => Classified(call.arg, result[1])
  /\ Returned("strtod") /\ WellFormed(call.arg) => DecimalDenotes(call.arg, result[1])
  /\ Returned("numbers") => NumberDenotes(call.arg, result[1])

(* A word comes out with its bytes the other way round. *)
WordAgrees(w, out) ==
  LET one == Weight(ByteSize) IN
  /\ \A n \in 1 .. 4 :
       (out.htonl \div one[n]) % ByteSize = (w \div one[5 - n]) % ByteSize
  /\ htons(out.htons, ByteSize) = w % one[3]

(* How many bytes a call is to copy. *)
ToCopy(c, out) ==
  CASE c.fn = "strcpy" -> strlen(c.m, c.s) + 1
    [] c.fn = "strncpy" -> Min({c.n} \cup {x \in 1 .. c.n : c.m[c.s + x - 1] = 0})
    [] c.fn = "memccpy" /\ out.value /= NULL -> out.value - c.d
    [] OTHER -> c.n

BytesAgree(c, out) ==
  LET m == c.m
      Bytes(x) == [y \in 1 .. c.n |-> m[x + y - 1]]
      string == Text(m, c.s) \o <<0>>
      Is(byte) == {x \in 0 .. c.n - 1 : m[c.s + x] = byte}
  IN
  CASE c.fn \in {"memcpy", "memmove", "strcpy", "strncpy"} ->
         Copied(m, out.m, c.d, c.s, ToCopy(c, out)) /\ out.value = c.d
    [] c.fn = "memccpy" ->
         /\ Copied(m, out.m, c.d, c.s, ToCopy(c, out))
         /\ c.c \in -128 .. 127 => IsFirst(out.value, c.d + 1, Is(c.c % 256))
    [] c.fn = "memset" ->
         \A x \in DOMAIN m :
           out.m[x] = IF x \in c.s .. c.s + c.n - 1 THEN c.c % 256 ELSE m[x]
    [] c.fn = "memcmp" -> Orders(out.value, Bytes(c.d), Bytes(c.s), Unsigned)
    [] c.fn = "strcmp" -> Orders(out.value, Text(m, c.d), Text(m, c.s), SignedChar)
    [] c.fn = "strncmp" ->
         Orders(out.value, AtMost(Text(m, c.d), c.n), AtMost(Text(m, c.s), c.n), Unsigned)
    [] c.fn = "strstr" ->
         IsFirst(out.value, c.d, Occurrences(Text(m, c.d), Text(m, c.s)))
    [] c.fn = "memchr" -> c.c \in 0 .. 255 => IsFirst(out.value, c.s, Is(c.c))
    [] c.fn = "strchr" -> IsFirst(out.value, c.s, Occurrences(string, <<c.c % 256>>))
    [] c.fn = "strrchr" -> IsLast(out.value, c.s, Occurrences(string, <<c.c % 256>>))
    [] c.fn = "strlen" -> out.value = IF c.s = NULL THEN 0 ELSE Len(Text(m, c.s))

(* Bytes arrive where they were to go, unchanged, and nothing else changes, *)
(* blocks that overlap included; the first place that was looked for, or    *)
(* the last, is found, if there is one; and the comparisons are orders on   *)
(* bytes.  This is what the standard says but where the code is known to    *)
(* depart from it: strcmp orders signed bytes and not unsigned ones;        *)
(* strncpy changes nothing behind the string, where it is to write zeros;   *)
(* memchr and memccpy do not convert the byte that is looked for, so that   *)
(* nothing is said of one outside of 0 .. 255 and of -128 .. 127.           *)
StringsAgree ==
  /\ Returned("net") => WordAgrees(call.arg, result[1])
  /\ Returned("bytes") => BytesAgree(call.arg, result[1])

(***************************************************************************)
(* What the C standard says of the directives in the C locale, and glibc   *)
(* of %k, %l and %P: numbers in decimal, in so many digits.                *)
(***************************************************************************)
Units == <<1, 10, 100, 1000>>
InDigits(x, width) ==
  [n \in 1 .. width |-> <<"digit", (x \div Units[width - n + 1]) % 10>>]
BlankPadded(x) == [InDigits(x, 2) EXCEPT ![1] = IF x < 10 THEN SPACE ELSE @]

Year(tm) == 1900 + tm.year
Hour12(tm) == IF tm.hour % 12 = 0 THEN 12 ELSE tm.hour % 12

(* The days of a week day up to tm in its year: %U and %W are the weeks     *)
(* begun on a Sunday and on a Monday.                                       *)
DaysUpTo(tm, wday) == {d \in 0 .. tm.yday : (tm.wday - (tm.yday - d)) % 7 = wday}

Standard(c, tm) ==
  CASE c = "n" -> <<"\n">>
    [] c = "t" -> <<"\t">>
    [] c = "a" -> Name("sweekdays", tm.wday, 3)
    [] c = "A" -> Name("weekdays", tm.wday, weekdays[tm.wday + 1])
    [] c \in {"b", "h"} -> Name("smonths", tm.mon, 3)
    [] c = "B" -> Name("months", tm.mon, months[tm.mon + 1])
    [] c = "p" -> Name("AMPM", tm.hour >= 12, 2)
    [] c = "P" -> Name("ampm", tm.hour >= 12, 2)
    [] c = "C" -> InDigits(Year(tm) \div 100, 2)
    [] c = "y" -> InDigits(Year(tm) % 100, 2)
    [] c = "Y" -> InDigits(Year(tm), 4)
    [] c = "d" -> InDigits(tm.mday, 2)
    [] c = "e" -> BlankPadded(tm.mday)
    [] c = "H" -> InDigits(tm.hour, 2)
    [] c = "k" -> BlankPadded(tm.hour)
    [] c = "I" -> InDigits(Hour12(tm), 2)
    [] c = "l" -> BlankPadded(Hour12(tm))
    [] c = "m" -> InDigits(tm.mon + 1, 2)
    [] c = "M" -> InDigits(tm.min, 2)
    [] c = "S" -> InDigits(tm.sec, 2)
    [] c = "U" -> InDigits(Cardinality(DaysUpTo(tm, 0)), 2)
    [] c = "W" -> InDigits(Cardinality(DaysUpTo(tm, 1)), 2)

(* The formats that a directive is short for. *)
Equivalent ==
  [r |-> <<"%", "I", ":", "%", "M", ":", "%", "S", SPACE, "%", "p">>,
   R |-> <<"%", "H", ":", "%", "M">>,
   X |-> <<"%", "H", ":", "%", "M", ":", "%", "S">>,
   D |-> <<"%", "m", "/", "%", "d", "/", "%", "y">>,
   F |-> <<"%", "Y", "-", "%", "m", "-", "%", "d">>,
   T |-> <<"%", "H", ":", "%", "M", ":", "%", "S">>]

InFull(f, tm) ==
  [n \in 1 .. Len(f) |->
     IF f[n] = "%" THEN << >>
     ELSE IF n > 1 /\ f[n - 1] = "%" THEN Standard(f[n], tm) ELSE <<f[n]>>]

ItemStandard(item, tm) ==
  LET c == item[Len(item)] IN
  IF Len(item) = 1 THEN item
  ELSE IF item = <<"%", "%">> THEN <<"%">>
  ELSE IF c \in DOMAIN Equivalent
    THEN Sequences_!FlattenSeq(InFull(Equivalent[c], tm))
    ELSE Standard(c, tm)

(* The items that the code is known to write otherwise, or not at all:      *)
(* %j counts from 0 and in two digits, %u and %w have two digits, %c and %x *)
(* have another order, %s is 0, %Z has a name of its own, the others are    *)
(* left out; on a 12-hour clock the hour 12 is 00 and noon is AM; and %X    *)
(* has a blank in front of an early hour.                                   *)
Simples ==
  {"n", "t", "a", "A", "b", "h", "B", "p", "P", "C", "y", "Y", "d", "e", "H", "k",
   "I", "l", "m", "M", "S", "U", "W"}
Departs(item, tm) ==
  LET c == item[Len(item)] IN
  /\ Len(item) /= 1 /\ item /= <<"%", "%">>
  /\ \/ c \notin Simples \cup DOMAIN Equivalent
     \/ c \in {"I", "l", "r"} /\ tm.hour % 12 = 0
     \/ c \in {"p", "P", "r"} /\ tm.hour = 12
     \/ c = "X" /\ tm.hour < 10

(* A text in its buffer: not behind the end, and with NUL at its end. *)
InBuffer(max, out) ==
  /\ Len(out.cells) \in 1 .. max /\ out.cells[Len(out.cells)] = NUL
  /\ out.length \in {Len(out.cells) - 1, max}

(* The length that is returned tells a text that fits from one that does   *)
(* not.                                                                     *)
WritesAsMuch(full, max, out) ==
  /\ out.cells = SubSeq(full, 1, Min({Len(full), max - 1})) \o <<NUL>>
  /\ IF Len(full) < max THEN out.length = Len(full) ELSE out.length >= max

TimeAgrees(c, out) ==
  IF c.max = 0 THEN out = [cells |-> << >>, length |-> 0]
  ELSE /\ InBuffer(c.max, out)
       /\ (\A n \in DOMAIN c.items : ~ Departs(c.items[n], c.tm)) =>
            WritesAsMuch(Sequences_!FlattenSeq([n \in 1 .. Len(c.items) |->
                                                  ItemStandard(c.items[n], c.tm)]),
                         c.max, out)

(* strftime never writes behind the end of the buffer, also when the buffer *)
(* ends inside a format inside the format, and marks the end of the text.   *)
(* It writes the beginning of what the standard says, as much as there is   *)
(* room for, in every format without an item where it is known to depart.   *)
(* A text that does not fit is told by a length of max, where the standard  *)
(* has 0: a caller that tests for 0 does not see it.                        *)
TimeBounded == Returned("time") => TimeAgrees(call.arg, result[1])

(***************************************************************************)
(* The types of C, and where each bit of a value comes from as the compiler *)
(* expects it to be returned: with its sign in the bits in front of it.     *)
(***************************************************************************)
CType ==
  [bool |-> [bits |-> 1, signed |-> FALSE],
   char |-> [bits |-> 8, signed |-> TRUE],      uchar |-> [bits |-> 8, signed |-> FALSE],
   short |-> [bits |-> 16, signed |-> TRUE],    ushort |-> [bits |-> 16, signed |-> FALSE],
   int |-> [bits |-> 32, signed |-> TRUE],      uint |-> [bits |-> 32, signed |-> FALSE],
   long |-> [bits |-> 32, signed |-> TRUE],     ulong |-> [bits |-> 32, signed |-> FALSE],
   longlong |-> [bits |-> 64, signed |-> TRUE], ulonglong |-> [bits |-> 64, signed |-> FALSE],
   charp |-> [bits |-> 32, signed |-> FALSE],   int128 |-> [bits |-> 128, signed |-> TRUE],
   float |-> [bits |-> 32, signed |-> FALSE],   double |-> [bits |-> 64, signed |-> FALSE]]

Expected(bits, signed) ==
  [n \in 0 .. (IF bits < 32 THEN 32 ELSE bits) - 1 |->
     IF n < bits THEN n ELSE IF signed THEN bits - 1 ELSE ZeroBit]

(* An input is one symbol, every bit of the type is one of the symbol, and  *)
(* the bits in front are those of an unsigned type.  So every value of a    *)
(* type is tried, but not the negative ones of a signed char or short; and  *)
(* an unsigned __int128 is none.                                            *)
InputsComplete ==
  Returned("input") =>
    IF call.arg \in Uncalled THEN result[1] = << >>
    ELSE LET type == CType[call.arg] IN
         result[1] = Expected(type.bits, type.signed /\ type.bits >= 32)
=============================================================================
