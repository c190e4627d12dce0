------------------------------ MODULE Numbers ------------------------------
(***************************************************************************)
(* The conversions of text to numbers of lang_c/libc/src/stdlib.c and the  *)
(* classes of characters of lang_c/libc/src/ctype.c they rest on.          *)
(*                                                                         *)
(* A text is a sequence of character codes without its NUL, and a pointer  *)
(* into it is the number of characters before it.  A char is taken as      *)
(* unsigned: from 128 on it is in no class, as a negative one is.  A       *)
(* double is an exact decimal, a mantissa and an exponent of ten: rounding *)
(* is left out.                                                            *)
(***************************************************************************)
EXTENDS Integers, Sequences

CONSTANTS
  LongBits,             \* of a long, 32 in the code
  LongLongBits          \* of a long long, 64 in the code

ASSUME WidthAssumption ==
  /\ LongBits \in Nat /\ LongLongBits \in Nat
  /\ 8 <= LongBits /\ LongBits <= LongLongBits

Ascii ==
  [tab |-> 9, space |-> 32, plus |-> 43, minus |-> 45, dot |-> 46, zero |-> 48,
   nine |-> 57, A |-> 65, E |-> 69, X |-> 88, a |-> 97, e |-> 101, x |-> 120,
   del |-> 127]

-----------------------------------------------------------------------------
(* ctype.c: classes are differences taken as unsigned, here ranges. *)

LowerBit(c) == IF (c \div 32) % 2 = 1 THEN c ELSE c + 32
Within(c, first, count) == c - first \in 0 .. count - 1

isascii(c) == c \in 0 .. 127
isblank(c) == c \in {Ascii.space, Ascii.tab}
isalpha(c) == Within(LowerBit(c), Ascii.a, 26)
isdigit(c) == Within(c, Ascii.zero, 10)
isalnum(c) == isalpha(c) \/ isdigit(c)
isspace(c) == c = Ascii.space \/ Within(c, Ascii.tab, 5)
isupper(c) == Within(c, Ascii.A, 26)
islower(c) == Within(c, Ascii.a, 26)
tolower(c) == IF isupper(c) THEN LowerBit(c) ELSE c
toupper(c) == IF islower(c) THEN c - 32 ELSE c
toascii(c) == c % 128
isprint(c) == Within(c, 32, 95)
isgraph(c) == Within(c, 33, 94)
ispunct(c) == isgraph(c) /\ ~ isalnum(c)
iscntrl(c) == c \in 0 .. 31 \cup {Ascii.del}
isxdigit(c) == isdigit(c) \/ Within(LowerBit(c), Ascii.a, 6)

Classes(c) ==
  [ascii |-> isascii(c), blank |-> isblank(c), alpha |-> isalpha(c),
   digit |-> isdigit(c), alnum |-> isalnum(c), space |-> isspace(c),
   upper |-> isupper(c), lower |-> islower(c), print |-> isprint(c),
   graph |-> isgraph(c), punct |-> ispunct(c), cntrl |-> iscntrl(c),
   xdigit |-> isxdigit(c), toupper |-> toupper(c), tolower |-> tolower(c),
   toascii |-> toascii(c)]

-----------------------------------------------------------------------------
(* The character a pointer is at, and where a loop over a class ends. *)

At(s, n) == IF n < Len(s) THEN s[n + 1] ELSE 0

Spaces == {c \in 0 .. 255 : isspace(c)}
Digits10 == {c \in 0 .. 255 : isdigit(c)}

Skip(s, n, class) ==
  CHOOSE m \in n .. Len(s) :
    At(s, m) \notin class /\ \A x \in n .. m - 1 : At(s, x) \in class

Power(base, n) ==
  LET power[x \in 0 .. n] == IF x = 0 THEN 1 ELSE power[x - 1] * base
  IN power[n]

Positional(digits, base) ==
  LET value[n \in 0 .. Len(digits)] ==
        IF n = 0 THEN 0 ELSE value[n - 1] * base + digits[n]
  IN value[Len(digits)]

Decimal(s, from, to) ==
  Positional([n \in 1 .. to - from |-> At(s, from + n - 1) - Ascii.zero], 10)

ULongMax(bits) == Power(2, bits) - 1
LongMax(bits) == Power(2, bits - 1) - 1
LongMin(bits) == - Power(2, bits - 1)
AsSigned(v, bits) == IF v > LongMax(bits) THEN v - Power(2, bits) ELSE v

atoi(s) ==
  LET n == Skip(s, 0, Spaces)
      m == IF At(s, n) \in {Ascii.minus, Ascii.plus} THEN n + 1 ELSE n
      v == Decimal(s, m, Skip(s, m, Digits10))
  IN AsSigned((IF At(s, n) = Ascii.minus THEN -v ELSE v) % Power(2, LongBits), LongBits)

-----------------------------------------------------------------------------
(* strtoul and strtoull differ in their widths, and strtoull accumulates in *)
(* a signed variable.                                                       *)

Unset == -1             \* endptr is not written
Kept == "kept"

(* As an unsigned char; what is no digit of any base comes out too large. *)
DigitOf(c) ==
  IF c >= Ascii.a THEN c - Ascii.a + 10
  ELSE IF c >= Ascii.A THEN c - Ascii.A + 10
  ELSE IF c <= Ascii.nine THEN (c - Ascii.zero) % 256
  ELSE 255

DigitsOf(base) == {c \in 1 .. 255 : DigitOf(c) < base}

HexFollows(s, n) ==
  At(s, n + 1) \in {Ascii.x, Ascii.X} /\ isxdigit(At(s, n + 2))

(* Faulty: x is taken for a prefix whatever follows. *)
Prefix_NoDigit(s, n, base) ==
  IF base \in {0, 16} /\ At(s, n) = Ascii.zero
    THEN IF At(s, n + 1) \in {Ascii.x, Ascii.X} THEN [at |-> n + 2, base |-> 16]
         ELSE [at |-> n, base |-> IF base = 0 THEN 8 ELSE base]
    ELSE [at |-> n, base |-> IF base = 0 THEN 10 ELSE base]

(* Where the digits begin and their base. *)
Prefix(s, n, base) ==
  IF base \in {0, 16} /\ At(s, n) = Ascii.zero
    THEN IF HexFollows(s, n) THEN [at |-> n + 2, base |-> 16]
         ELSE [at |-> n, base |-> IF base = 0 THEN 8 ELSE base]
    ELSE [at |-> n, base |-> IF base = 0 THEN 10 ELSE base]

(* One digit more, in two halves so that the carry out of the high one     *)
(* shows: high is v >> 8.                                                  *)
AddDigit(acc, high, base, digit, bits) ==
  LET x == ((acc.v % 256) * base) + digit
      w == ((high * base) + (x \div 256)) % Power(2, bits)
  IN [v |-> (w * 256 + (x % 256)) % Power(2, bits),
      overflow |-> acc.overflow \/ w > ULongMax(bits) \div 256]

High(v, bits, signed) == (IF signed THEN AsSigned(v, bits) ELSE v) \div 256

Accumulate(s, from, to, base, bits, signed) ==
  LET acc[n \in 0 .. to - from] ==
        IF n = 0 THEN [v |-> 0, overflow |-> FALSE]
        ELSE LET before == acc[n - 1]
             IN AddDigit(before, High(before.v, bits, signed), base,
                         DigitOf(At(s, from + n - 1)), bits)
  IN acc[to - from]

Convert(s, base, bits, signed) ==
  LET n == Skip(s, 0, Spaces)
      neg == At(s, n) = Ascii.minus
      orig == IF At(s, n) \in {Ascii.minus, Ascii.plus} THEN n + 1 ELSE n
      prefix == Prefix(s, orig, base)
      end == Skip(s, prefix.at, DigitsOf(prefix.base))
      acc == Accumulate(s, prefix.at, end, prefix.base, bits, signed)
  IN IF base /= 0 /\ base \notin 2 .. 36
       THEN [value |-> 0, end |-> Unset, errno |-> "EINVAL"]
     ELSE IF end = orig
       THEN [value |-> 0, end |-> 0, errno |-> "EINVAL"]
     ELSE IF acc.overflow
       THEN [value |-> ULongMax(bits), end |-> end, errno |-> "ERANGE"]
       ELSE [value |-> (IF neg THEN -acc.v ELSE acc.v) % Power(2, bits),
             end |-> end, errno |-> Kept]

strtoul(s, base) == Convert(s, base, LongBits, FALSE)
strtoull(s, base) == Convert(s, base, LongLongBits, TRUE)

(* strtol and strtoll take the sign off, when a number may follow it, and   *)
(* look at the range themselves.                                            *)
Clamp(sub, neg, bits) ==
  IF sub.value <= LongMax(bits)
    THEN [value |-> IF neg THEN -sub.value ELSE sub.value, errno |-> sub.errno]
  ELSE IF neg /\ sub.value = -LongMin(bits)
    THEN [value |-> LongMin(bits), errno |-> "zero"]
    ELSE [value |-> IF neg THEN LongMin(bits) ELSE LongMax(bits), errno |-> "ERANGE"]

ConvertSigned(s, base, bits, Unsigned(_, _)) ==
  LET n == Skip(s, 0, Spaces)
      neg == At(s, n) = Ascii.minus /\ isalnum(At(s, n + 1))
      m == IF neg THEN n + 1 ELSE n
      sub == Unsigned(SubSeq(s, m + 1, Len(s)), base)
      clamped == Clamp(sub, neg, bits)
  IN [value |-> clamped.value, errno |-> clamped.errno,
      end |-> IF sub.end \in {0, Unset} THEN sub.end ELSE m + sub.end]

strtol(s, base) == ConvertSigned(s, base, LongBits, strtoul)
strtoll(s, base) == ConvertSigned(s, base, LongLongBits, strtoull)

-----------------------------------------------------------------------------
(* strtod: the digits before the point, those after it, and an exponent in *)
(* an unsigned int, whose power of ten is multiplied up by squaring:       *)
(* factor and the result are exponents of ten here.                        *)

Scaled(expo, factor) ==
  LET round[n \in 0 .. expo] ==
        IF n = 0 THEN [expo |-> expo, factor |-> factor, exponent |-> 0]
        ELSE LET x == round[n - 1]
             IN IF x.expo = 0 THEN x
                ELSE [expo |-> x.expo \div 2, factor |-> 2 * x.factor,
                      exponent |-> IF x.expo % 2 = 1 THEN x.exponent + x.factor
                                   ELSE x.exponent]
  IN round[expo].exponent

strtod(s) ==
  LET n0 == Skip(s, 0, Spaces)
      n1 == IF At(s, n0) \in {Ascii.plus, Ascii.minus} THEN n0 + 1 ELSE n0
      n2 == Skip(s, n1, Digits10)
      n3 == IF At(s, n2) = Ascii.dot THEN Skip(s, n2 + 1, Digits10) ELSE n2
      fraction == IF n3 > n2 THEN n3 - n2 - 1 ELSE 0
      value == (Decimal(s, n1, n2) * Power(10, fraction)) + Decimal(s, n3 - fraction, n3)
      sign == IF At(s, n0) = Ascii.minus THEN -1 ELSE 1
      n4 == n3 + 1
      factor == IF At(s, n4) = Ascii.minus THEN -1 ELSE 1
      n5 == IF At(s, n4) \in {Ascii.plus, Ascii.minus} THEN n4 + 1 ELSE n4
      n6 == Skip(s, n5, Digits10)
      expo == Decimal(s, n5, n6) % Power(2, LongBits)
  IN IF LowerBit(At(s, n3)) /= Ascii.e
       THEN [mantissa |-> sign * value, exponent |-> -fraction, end |-> n3]
     ELSE IF n5 = n4 /\ ~ isdigit(At(s, n4))
       THEN [mantissa |-> 0, exponent |-> 0, end |-> 0]
       ELSE [mantissa |-> sign * value,
             exponent |-> Scaled(expo, factor) - fraction, end |-> n6]

-----------------------------------------------------------------------------
(***************************************************************************)
(* What the texts denote: the longest part of a text that has the form of  *)
(* a number, and that number.                                              *)
(***************************************************************************)
DigitValue ==
  [c \in 0 .. 255 |->
     IF c \in 48 .. 57 THEN c - 48
     ELSE IF c \in 65 .. 90 THEN c - 55
     ELSE IF c \in 97 .. 122 THEN c - 87
     ELSE 36]

(* Every character of ASCII is a control character, the space, a letter or  *)
(* digit, or punctuation, and letters have one other case.                  *)
Classified(c, out) ==
  /\ out.ascii <=> c \in 0 .. 127
  /\ out.print <=> out.graph \/ c = 32
  /\ out.ascii <=> out.cntrl \/ out.print
  /\ ~ (out.cntrl /\ out.print) /\ ~ (out.punct /\ out.alnum)
  /\ out.graph <=> out.punct \/ out.alnum
  /\ out.alpha <=> out.upper \/ out.lower
  /\ out.alnum <=> DigitValue[c % 128] < 36 /\ out.ascii
  /\ out.xdigit <=> DigitValue[c % 128] < 16 /\ out.ascii
  /\ out.blank => out.space
  /\ out.upper <=> out.tolower /= c
  /\ out.lower <=> out.toupper /= c
  /\ out.upper => toupper(out.tolower) = c
  /\ out.ascii <=> out.toascii = c

Blank(s, n) == \A x \in 1 .. n : s[x] \in {9, 10, 11, 12, 13, 32}

(* Blanks, a sign or none, 0x or nothing, and digits. *)
Numerals(s, base) ==
  {f \in [blanks : 0 .. Len(s), sign : {0, 1}, prefix : {0, 2}, base : {base, 8, 10, 16} \ {0},
          end : 1 .. Len(s)] :
     LET digits == f.blanks + f.sign + f.prefix IN
     /\ Blank(s, f.blanks)
     /\ digits < f.end
     /\ f.sign = 1 => s[f.blanks + 1] \in {43, 45}
     /\ f.prefix = 2 => /\ base \in {0, 16}
                        /\ s[digits - 1] = 48 /\ s[digits] \in {88, 120}
     /\ f.base = (IF f.prefix = 2 THEN 16
                  ELSE IF base /= 0 THEN base
                  ELSE IF s[digits + 1] = 48 THEN 8 ELSE 10)
     /\ \A x \in digits + 1 .. f.end : DigitValue[s[x]] < f.base}

Longest(forms) == CHOOSE f \in forms : \A g \in forms : g.end <= f.end

Magnitude(s, f) ==
  LET from == f.blanks + f.sign + f.prefix
  IN Positional([n \in 1 .. f.end - from |-> DigitValue[s[from + n]]], f.base)

Negative(s, f) == f.sign = 1 /\ s[f.blanks + 1] = 45
Value(s, f) == IF Negative(s, f) THEN -Magnitude(s, f) ELSE Magnitude(s, f)

UnsignedDenotes(s, base, bits, out) ==
  LET forms == Numerals(s, base) IN
  IF base \notin {0} \cup 2 .. 36 THEN out.value = 0 /\ out.errno = "EINVAL"
  ELSE IF forms = {} THEN out = [value |-> 0, end |-> 0, errno |-> "EINVAL"]
  ELSE LET f == Longest(forms)
           m == Magnitude(s, f)
       IN /\ out.end = f.end
          /\ out.errno = "ERANGE" <=> m >= Power(2, bits)
          /\ out.value = IF m >= Power(2, bits) THEN Power(2, bits) - 1
                         ELSE IF Negative(s, f) /\ m > 0 THEN Power(2, bits) - m ELSE m

SignedDenotes(s, base, bits, out) ==
  LET forms == Numerals(s, base) IN
  IF base \notin {0} \cup 2 .. 36 THEN out.value = 0 /\ out.errno = "EINVAL"
  ELSE IF forms = {} THEN out = [value |-> 0, end |-> 0, errno |-> "EINVAL"]
  ELSE LET f == Longest(forms)
           m == Value(s, f)
           fits == m \in LongMin(bits) .. LongMax(bits)
       IN /\ out.end = f.end
          /\ out.errno = "ERANGE" <=> ~ fits
          /\ out.value = IF fits THEN m
                         ELSE IF m < 0 THEN LongMin(bits) ELSE LongMax(bits)

IntegerDenotes(s, out) ==
  LET forms == Numerals(s, 10) IN
  IF forms = {} THEN out = 0
  ELSE LET v == Value(s, Longest(forms))
       IN v \in LongMin(LongBits) .. LongMax(LongBits) => out = v

(* A text is of characters other than NUL.  The parts of a decimal are of   *)
(* the characters they are made of.                                         *)
Texts == Seq(1 .. 255)
Signs == {<< >>, <<Ascii.plus>>, <<Ascii.minus>>}
IsDecimal(d) ==
  /\ d.blanks \in Seq(Spaces) /\ d.rest \in Texts
  /\ {d.whole, d.fraction, d.expo} \subseteq Seq(Digits10)
  /\ {d.sign, d.expoSign} \subseteq Signs
  /\ d.point \in {<< >>, <<Ascii.dot>>} /\ d.e \in {<< >>, <<Ascii.E>>, <<Ascii.e>>}

(* A decimal written out: blanks, a sign, digits, a point, digits and an    *)
(* exponent with a sign and digits, or parts of that, and a rest that does   *)
(* not continue it.  strtod follows the standard where there is a digit      *)
(* before the exponent and one after the e, and an unsigned int holds it.    *)
DecimalText(d) ==
  d.blanks \o d.sign \o d.whole \o d.point \o d.fraction \o d.e \o d.expoSign \o d.expo
    \o d.rest

Number(digits) == Positional([n \in 1 .. Len(digits) |-> DigitValue[digits[n]]], 10)

WellFormed(d) ==
  /\ d.whole \o d.fraction /= << >>
  /\ d.point = << >> => d.fraction = << >>
  /\ d.e = << >> => d.expoSign \o d.expo = << >>
  /\ d.e /= << >> => d.expo /= << >> /\ Number(d.expo) < Power(2, LongBits)
  /\ At(d.rest, 0) \notin
       Digits10 \cup (IF d.e = << >> THEN {Ascii.E, Ascii.e} ELSE {})
                \cup (IF d.point \o d.e = << >> THEN {Ascii.dot} ELSE {})

DecimalDenotes(d, out) ==
  LET m == Number(d.whole \o d.fraction)
      x == Number(d.expo)
  IN out = [mantissa |-> IF d.sign = <<45>> THEN -m ELSE m,
            exponent |-> (IF d.expoSign = <<45>> THEN -x ELSE x) - Len(d.fraction),
            end |-> Len(DecimalText(d)) - Len(d.rest)]
=============================================================================
