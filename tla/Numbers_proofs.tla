--------------------------- MODULE Numbers_proofs ---------------------------
(***************************************************************************)
(* The conversions of text to numbers, for texts of any length and of any  *)
(* characters, any base and any widths of the words.                       *)
(*                                                                         *)
(* The loops of the code are functions on the numbers up to the length of  *)
(* what they run over (IsRun); two that agree at 0 and step alike are the  *)
(* same (SameRun).  So a loop over a class ends where the class does       *)
(* (SkipIs), what is accumulated is the number that the digits denote or   *)
(* an overflow (AccumulateIs), and squaring adds an exponent up            *)
(* (ScaledIs).  What a conversion parses (ParsedIs) is then the longest    *)
(* form of a number there is (FoundDenotes), and the parts of a decimal    *)
(* are where strtod looks for them (ScannedIs).                            *)
(***************************************************************************)
EXTENDS Numbers, WellFoundedInduction, SequenceTheorems, FiniteSetTheorems, FunctionTheorems,
        TLAPS

(* Some natural numbers have a least one. *)
LEMMA LeastNatural ==
  ASSUME NEW S \in SUBSET Nat, S /= {}
  PROVE  \E x \in S : \A y \in S : x <= y
<1> DEFINE R == {ss \in Nat \X Nat : ss[1] < ss[2]}
<1>1. IsWellFoundedOn(R, Nat)
  BY NatLessThanWellFounded DEF OpToRel
<1>2. \E x \in S : \A y \in S : ~ (<<y, x>> \in R)
  <2> HIDE DEF R
  <2> QED BY <1>1, WFMin
<1>3. ASSUME NEW x \in S, NEW y \in S, ~ (<<y, x>> \in R) PROVE x <= y
  BY <1>3
<1> QED BY <1>2, <1>3

(* What is true of 0, and of a number when of the one before, is true of all. *)
LEMMA UpTo ==
  ASSUME NEW n \in Nat, NEW P, 0 \in P, \A x \in 1 .. n : x - 1 \in P => x \in P
  PROVE  \A x \in 0 .. n : x \in P
<1> DEFINE Without == {x \in 0 .. n : x \notin P}
<1> SUFFICES ASSUME Without # {} PROVE FALSE
  OBVIOUS
<1>1. PICK m \in Without : \A y \in Without : m <= y
  <2>1. Without \in SUBSET Nat
    OBVIOUS
  <2> HIDE DEF Without
  <2> QED BY <2>1, LeastNatural
<1>2. m # 0
  OBVIOUS
<1>3. m \in 1 .. n /\ m - 1 \in 0 .. n /\ m - 1 \notin Without
  BY <1>1, <1>2
<1> QED BY <1>1, <1>3

(* A function on the numbers up to n whose value at each follows from the   *)
(* value before.                                                            *)
IsRun(g, S, n, first, F) ==
  /\ g \in [0 .. n -> S] /\ g[0] = first
  /\ \A x \in 1 .. n : g[x] = F[<<g[x - 1], x>>]

(* There is such a function. *)
LEMMA RunExists ==
  ASSUME NEW S, NEW n \in Nat, NEW first \in S, NEW F \in [S \X (1 .. n) -> S]
  PROVE  \E g : IsRun(g, S, n, first, F)
<1> DEFINE Has == {m \in 0 .. n : \E g : IsRun(g, S, m, first, F)}
<1>1. 0 \in Has
  <2>1. [x \in 0 .. 0 |-> first] \in [0 .. 0 -> S] /\ [x \in 0 .. 0 |-> first][0] = first
    OBVIOUS
  <2>2. IsRun([x \in 0 .. 0 |-> first], S, 0, first, F)
    BY <2>1 DEF IsRun
  <2> QED BY <2>2
<1>2. ASSUME NEW m \in 1 .. n, m - 1 \in Has PROVE m \in Has
  <2>1. PICK e \in Nat : m = e + 1 /\ e = m - 1 /\ e \in 0 .. n
    BY <1>2
  <2>2. PICK g : IsRun(g, S, e, first, F)
    BY <1>2, <2>1
  <2>3. PICK h : h = [x \in 0 .. m |-> IF x = m THEN F[<<g[e], m>>] ELSE g[x]]
    OBVIOUS
  <2>4. /\ h \in [0 .. m -> S] /\ h[m] = F[<<g[e], m>>]
        /\ \A x \in 0 .. e : h[x] = g[x]
    <3>1. m \in 1 .. n /\ g[e] \in S /\ \A x \in 0 .. e : g[x] \in S
      BY <2>1, <2>2 DEF IsRun
    <3>2. F[<<g[e], m>>] \in S
      BY ONLY <3>1, F \in [S \X (1 .. n) -> S]
    <3>3. \A x \in 0 .. m : (x = m \/ x \in 0 .. e) /\ ~ (x = m /\ x \in 0 .. e)
      BY <2>1
    <3>4. \A x \in 0 .. e : x \in 0 .. m
      BY <2>1
    <3>5. m \in 0 .. m
      BY <2>1
    <3> QED BY ONLY <2>3, <3>1, <3>2, <3>3, <3>4, <3>5
  <2>5. h[0] = first
    <3>1. 0 \in 0 .. e
      BY <2>1
    <3> QED BY <2>2, <2>4, <3>1 DEF IsRun
  <2>6. ASSUME NEW x \in 1 .. m PROVE h[x] = F[<<h[x - 1], x>>]
    <3>1. CASE x = m
      <4>1. x - 1 = e /\ e \in 0 .. e
        BY <2>1, <3>1
      <4> QED BY ONLY <2>4, <3>1, <4>1
    <3>2. CASE x # m
      <4>1. x \in 1 .. e /\ x \in 0 .. e /\ x - 1 \in 0 .. e
        BY <2>1, <3>2
      <4> QED BY <2>2, <2>4, <4>1 DEF IsRun
    <3> QED BY <3>1, <3>2
  <2>7. IsRun(h, S, m, first, F)
    BY <2>4, <2>5, <2>6 DEF IsRun
  <2>8. m \in 0 .. n
    OBVIOUS
  <2> QED BY <2>7, <2>8
<1> HIDE DEF Has
<1>3. n \in Has
  <2>1. n \in 0 .. n
    OBVIOUS
  <2> QED BY <1>1, <1>2, <2>1, UpTo
<1> QED BY <1>3 DEF Has

(* Two functions whose values follow from the value before are the same. *)
LEMMA SameRun ==
  ASSUME NEW n \in Nat, NEW g, NEW h, h[0] = g[0],
         \A x \in 1 .. n : h[x - 1] = g[x - 1] => h[x] = g[x]
  PROVE  \A x \in 0 .. n : h[x] = g[x]
<1> DEFINE P == {x \in 0 .. n : h[x] = g[x]}
<1>1. 0 \in P /\ \A x \in 1 .. n : x - 1 \in P => x \in P
  OBVIOUS
<1> HIDE DEF P
<1>2. \A x \in 0 .. n : x \in P
  BY <1>1, UpTo
<1> QED BY <1>2 DEF P

(* The quotient of a number by a positive one. *)
LEMMA Divides ==
  ASSUME NEW C \in Nat \ {0}, NEW f \in Nat, NEW e \in 0 .. C - 1
  PROVE  (f * C + e) \div C = f /\ (f * C + e) % C = e
OBVIOUS

-----------------------------------------------------------------------------
(* Characters. *)

(* Setting the bit of lower case adds 32 where it is not set. *)
LEMMA LowerBitIs ==
  ASSUME NEW c \in -1 .. 255
  PROVE  LowerBit(c) = IF c \in 0 .. 31 \cup 64 .. 95 \cup 128 .. 159 \cup 192 .. 223
                       THEN c + 32 ELSE c
<1>1. PICK h \in -1 .. 7 : 32 * h <= c /\ c < 32 * h + 32
  <2>1. 32 * (c \div 32) <= c /\ c < 32 * (c \div 32) + 32 /\ c \div 32 \in -1 .. 7
    OBVIOUS
  <2> QED BY <2>1
<1>2. c \div 32 = h
  BY <1>1
<1>3. (h % 2 = 1) <=> h \in {-1, 1, 3, 5, 7}
  OBVIOUS
<1> QED BY <1>1, <1>2, <1>3 DEF LowerBit

(* The classes of characters as ranges. *)
ClassRanges(c) ==
  /\ isascii(c) <=> c \in 0 .. 127
  /\ isalpha(c) <=> c \in 65 .. 90 \/ c \in 97 .. 122
  /\ isupper(c) <=> c \in 65 .. 90
  /\ islower(c) <=> c \in 97 .. 122
  /\ isdigit(c) <=> c \in 48 .. 57
  /\ isalnum(c) <=> c \in 48 .. 57 \/ c \in 65 .. 90 \/ c \in 97 .. 122
  /\ isxdigit(c) <=> c \in 48 .. 57 \/ c \in 65 .. 70 \/ c \in 97 .. 102
  /\ isspace(c) <=> c \in {9, 10, 11, 12, 13, 32}
  /\ isblank(c) <=> c \in {9, 32}
  /\ isprint(c) <=> c \in 32 .. 126
  /\ isgraph(c) <=> c \in 33 .. 126
  /\ iscntrl(c) <=> c \in 0 .. 31 \/ c = 127
  /\ tolower(c) = IF c \in 65 .. 90 THEN c + 32 ELSE c
  /\ toupper(c) = IF c \in 97 .. 122 THEN c - 32 ELSE c

(* Each class is the ranges of characters it should be. *)
LEMMA ClassesAre ==
  ASSUME NEW c \in -1 .. 255
  PROVE  ClassRanges(c)
<1>1. isascii(c) <=> c \in 0 .. 127
  BY DEF isascii
<1>2. isupper(c) <=> c \in 65 .. 90
  BY DEF isupper, Within, Ascii
<1>3. islower(c) <=> c \in 97 .. 122
  BY DEF islower, Within, Ascii
<1>4. isdigit(c) <=> c \in 48 .. 57
  BY DEF isdigit, Within, Ascii
<1>5. PICK b : b = LowerBit(c)
  OBVIOUS
<1>6. b = IF c \in 0 .. 31 \cup 64 .. 95 \cup 128 .. 159 \cup 192 .. 223 THEN c + 32 ELSE c
  BY <1>5, LowerBitIs
<1>7. isalpha(c) <=> b \in 97 .. 122
  BY <1>5, <1>6 DEF isalpha, Within, Ascii
<1>8. isxdigit(c) <=> c \in 48 .. 57 \/ b \in 97 .. 102
  BY <1>4, <1>5, <1>6 DEF isxdigit, Within, Ascii
<1>9. isalpha(c) <=> c \in 65 .. 90 \/ c \in 97 .. 122
  BY <1>6, <1>7
<1>10. isxdigit(c) <=> c \in 48 .. 57 \/ c \in 65 .. 70 \/ c \in 97 .. 102
  BY <1>6, <1>8
<1>11. isalnum(c) <=> c \in 48 .. 57 \/ c \in 65 .. 90 \/ c \in 97 .. 122
  BY <1>4, <1>9 DEF isalnum
<1>12. isspace(c) <=> c \in {9, 10, 11, 12, 13, 32}
  BY DEF isspace, Within, Ascii
<1>13. isblank(c) <=> c \in {9, 32}
  BY DEF isblank, Ascii
<1>14. (isprint(c) <=> c \in 32 .. 126) /\ (isgraph(c) <=> c \in 33 .. 126)
  BY DEF isprint, isgraph, Within
<1>15. iscntrl(c) <=> c \in 0 .. 31 \/ c = 127
  BY DEF iscntrl, Ascii
<1>16. tolower(c) = IF c \in 65 .. 90 THEN c + 32 ELSE c
  BY <1>2, <1>5, <1>6 DEF tolower
<1>17. toupper(c) = IF c \in 97 .. 122 THEN c - 32 ELSE c
  BY <1>3 DEF toupper
<1> QED BY ONLY <1>1, <1>2, <1>3, <1>4, <1>9, <1>10, <1>11, <1>12, <1>13, <1>14, <1>15,
                <1>16, <1>17 DEF ClassRanges

(* The classes agree with each other and with the values of digits. *)
LEMMA CharactersClassified ==
  ASSUME NEW c \in -1 .. 255, NEW out, out = Classes(c)
  PROVE  Classified(c, out)
<1>1. ClassRanges(c) /\ \A d \in -1 .. 255 : ClassRanges(d)
  BY ClassesAre
<1>2. PICK t : t = c % 128
  OBVIOUS
<1>3. t \in 0 .. 127 /\ t \in 0 .. 255 /\ (t = c <=> c \in 0 .. 127)
  BY <1>2
<1>4. /\ out.ascii <=> c \in 0 .. 127
      /\ out.alpha <=> c \in 65 .. 90 \/ c \in 97 .. 122
      /\ out.upper <=> c \in 65 .. 90
      /\ out.lower <=> c \in 97 .. 122
  BY ONLY <1>1, out = Classes(c) DEF Classes, ClassRanges
<1>5. /\ out.alnum <=> c \in 48 .. 57 \/ c \in 65 .. 90 \/ c \in 97 .. 122
      /\ out.xdigit <=> c \in 48 .. 57 \/ c \in 65 .. 70 \/ c \in 97 .. 102
  BY ONLY <1>1, out = Classes(c) DEF Classes, ClassRanges
<1>6. /\ out.space <=> c \in {9, 10, 11, 12, 13, 32}
      /\ out.blank <=> c \in {9, 32}
      /\ out.print <=> c \in 32 .. 126
      /\ out.graph <=> c \in 33 .. 126
      /\ out.cntrl <=> c \in 0 .. 31 \/ c = 127
  BY ONLY <1>1, out = Classes(c) DEF Classes, ClassRanges
<1>7. /\ out.tolower = IF c \in 65 .. 90 THEN c + 32 ELSE c
      /\ out.toupper = IF c \in 97 .. 122 THEN c - 32 ELSE c
      /\ out.toascii = t
  BY ONLY <1>1, <1>2, out = Classes(c) DEF Classes, ClassRanges, toascii
<1>8. out.punct <=> c \in 33 .. 126 /\ ~ (c \in 48 .. 57 \/ c \in 65 .. 90 \/ c \in 97 .. 122)
  <2>1. out.punct <=> isgraph(c) /\ ~ isalnum(c)
    BY DEF Classes, ispunct
  <2>2. isgraph(c) <=> c \in 33 .. 126
    BY <1>1 DEF ClassRanges
  <2>3. isalnum(c) <=> c \in 48 .. 57 \/ c \in 65 .. 90 \/ c \in 97 .. 122
    BY <1>1 DEF ClassRanges
  <2> QED BY ONLY <2>1, <2>2, <2>3
<1>9. /\ out.alnum <=> DigitValue[t] < 36 /\ out.ascii
      /\ out.xdigit <=> DigitValue[t] < 16 /\ out.ascii
  <2>1. /\ DigitValue[t] < 36 <=> t \in 48 .. 57 \/ t \in 65 .. 90 \/ t \in 97 .. 122
        /\ DigitValue[t] < 16 <=> t \in 48 .. 57 \/ t \in 65 .. 70 \/ t \in 97 .. 102
    BY ONLY <1>3 DEF DigitValue
  <2>2. DigitValue[t] \in Nat
    BY ONLY <1>3 DEF DigitValue
  <2> QED BY ONLY c \in -1 .. 255, <1>3, <1>4, <1>5, <2>1, <2>2
<1>10. out.upper => toupper(out.tolower) = c
  <2> SUFFICES ASSUME out.upper PROVE toupper(out.tolower) = c
    OBVIOUS
  <2>1. PICK d \in -1 .. 255 : d = c + 32 /\ d \in 97 .. 122
    BY <1>4
  <2>2. toupper(d) = d - 32
    BY ONLY <1>1, <2>1 DEF ClassRanges
  <2>3. out.tolower = d
    BY <1>4, <1>7, <2>1
  <2> QED BY <2>1, <2>2, <2>3
<1>11. /\ out.ascii <=> c \in 0 .. 127
       /\ out.print <=> out.graph \/ c = 32
       /\ out.ascii <=> out.cntrl \/ out.print
       /\ ~ (out.cntrl /\ out.print) /\ ~ (out.punct /\ out.alnum)
       /\ out.graph <=> out.punct \/ out.alnum
       /\ out.alpha <=> out.upper \/ out.lower
  BY ONLY c \in -1 .. 255, <1>4, <1>5, <1>6, <1>8
<1>12. /\ out.blank => out.space
       /\ out.upper <=> out.tolower /= c
       /\ out.lower <=> out.toupper /= c
       /\ out.ascii <=> out.toascii = c
  BY ONLY c \in -1 .. 255, <1>3, <1>4, <1>6, <1>7
<1> QED BY ONLY <1>2, <1>9, <1>10, <1>11, <1>12 DEF Classified

-----------------------------------------------------------------------------
(* Numbers in a base, and powers. *)

(* The values of the first x digits in a base. *)
IsValue(g, digits, base, n) ==
  /\ g \in [0 .. n -> Nat] /\ g[0] = 0
  /\ \A x \in 1 .. n : g[x] = g[x - 1] * base + digits[x]

(* Positional computes them. *)
LEMMA PositionalIs ==
  ASSUME NEW n \in Nat, NEW digits \in [1 .. n -> Nat], Len(digits) = n, NEW base \in Nat
  PROVE  \E g : IsValue(g, digits, base, n) /\ Positional(digits, base) = g[n]
<1>1. PICK F : F = [z \in Nat \X (1 .. n) |-> z[1] * base + digits[z[2]]]
  OBVIOUS
<1>2. /\ F \in [Nat \X (1 .. n) -> Nat]
      /\ \A v \in Nat, x \in 1 .. n : F[<<v, x>>] = v * base + digits[x]
  <2>1. \A v \in Nat, x \in 1 .. n : v * base + digits[x] \in Nat
    <3>1. \A v \in Nat : v * base \in Nat
      OBVIOUS
    <3> QED BY <3>1
  <2> QED BY ONLY <1>1, <2>1
<1>3. PICK g : IsRun(g, Nat, n, 0, F)
  BY <1>2, RunExists
<1>4. \A x \in 1 .. n : x - 1 \in 0 .. n
  OBVIOUS
<1>5. IsValue(g, digits, base, n)
  BY ONLY <1>2, <1>3, <1>4 DEF IsRun, IsValue
<1> DEFINE Step(h) == [x \in 0 .. n |-> IF x = 0 THEN 0 ELSE h[x - 1] * base + digits[x]]
           value == CHOOSE h : h = Step(h)
<1>6. Positional(digits, base) = value[n]
  BY DEF Positional
<1>7. g = Step(g)
  <2>1. \A x \in 0 .. n : x = 0 \/ x \in 1 .. n
    OBVIOUS
  <2> QED BY ONLY <1>5, <2>1 DEF IsValue
<1>8. value = Step(value)
  BY <1>7
<1> HIDE DEF value
<1>9. value[0] = 0 /\ \A x \in 1 .. n : value[x] = value[x - 1] * base + digits[x]
  <2>1. 0 \in 0 .. n /\ \A x \in 1 .. n : x \in 0 .. n /\ x # 0
    OBVIOUS
  <2> QED BY ONLY <1>8, <2>1
<1>10. \A x \in 0 .. n : value[x] = g[x]
  <2> DEFINE P == {x \in 0 .. n : value[x] = g[x]}
  <2>1. 0 \in P /\ \A x \in 1 .. n : x - 1 \in P => x \in P
    BY ONLY <1>5, <1>9, n \in Nat DEF IsValue
  <2> HIDE DEF P
  <2>2. \A x \in 0 .. n : x \in P
    BY ONLY <2>1, n \in Nat, UpTo
  <2> QED BY ONLY <2>2 DEF P
<1> QED BY <1>5, <1>6, <1>10

(* There is one value. *)
LEMMA SameValue ==
  ASSUME NEW n \in Nat, NEW g, NEW h, NEW digits, NEW others, NEW base,
         IsValue(g, digits, base, n), IsValue(h, others, base, n),
         \A x \in 1 .. n : others[x] = digits[x]
  PROVE  \A x \in 0 .. n : h[x] = g[x]
<1>1. h[0] = g[0] /\ \A x \in 1 .. n : h[x - 1] = g[x - 1] => h[x] = g[x]
  BY DEF IsValue
<1> QED BY ONLY <1>1, n \in Nat, SameRun

(* The powers up to the n-th. *)
ArePowers(g, base, n) ==
  g \in [0 .. n -> Nat] /\ g[0] = 1 /\ \A x \in 1 .. n : g[x] = g[x - 1] * base

(* Power is the last of the powers up to it. *)
LEMMA PowerIs ==
  ASSUME NEW base \in Nat, NEW n \in Nat
  PROVE  \E g : ArePowers(g, base, n) /\ Power(base, n) = g[n]
<1>1. PICK F : F = [z \in Nat \X (1 .. n) |-> z[1] * base]
  OBVIOUS
<1>2. F \in [Nat \X (1 .. n) -> Nat] /\ \A v \in Nat, x \in 1 .. n : F[<<v, x>>] = v * base
  <2>1. \A v \in Nat : v * base \in Nat
    OBVIOUS
  <2> QED BY ONLY <1>1, <2>1
<1>3. PICK g : IsRun(g, Nat, n, 1, F)
  BY <1>2, RunExists
<1>4. \A x \in 1 .. n : x - 1 \in 0 .. n
  OBVIOUS
<1>5. ArePowers(g, base, n)
  BY ONLY <1>2, <1>3, <1>4 DEF IsRun, ArePowers
<1> DEFINE Step(h) == [x \in 0 .. n |-> IF x = 0 THEN 1 ELSE h[x - 1] * base]
           power == CHOOSE h : h = Step(h)
<1>6. Power(base, n) = power[n]
  BY DEF Power
<1>7. g = Step(g)
  <2>1. \A x \in 0 .. n : x = 0 \/ x \in 1 .. n
    OBVIOUS
  <2> QED BY ONLY <1>5, <2>1 DEF ArePowers
<1>8. power = Step(power)
  BY <1>7
<1> HIDE DEF power
<1>9. power[0] = 1 /\ \A x \in 1 .. n : power[x] = power[x - 1] * base
  <2>1. 0 \in 0 .. n /\ \A x \in 1 .. n : x \in 0 .. n /\ x # 0
    OBVIOUS
  <2> QED BY ONLY <1>8, <2>1
<1>10. \A x \in 0 .. n : power[x] = g[x]
  <2>1. power[0] = g[0] /\ \A x \in 1 .. n : power[x - 1] = g[x - 1] => power[x] = g[x]
    BY ONLY <1>5, <1>9 DEF ArePowers
  <2> QED BY ONLY <2>1, n \in Nat, SameRun
<1> QED BY <1>5, <1>6, <1>10

(* A power is the one before times the base. *)
LEMMA PowerNext ==
  ASSUME NEW base \in Nat, NEW n \in Nat
  PROVE  /\ Power(base, 0) = 1 /\ Power(base, n) \in Nat
         /\ Power(base, n + 1) = Power(base, n) * base
<1>1. PICK g : ArePowers(g, base, n) /\ Power(base, n) = g[n]
  BY PowerIs
<1>2. PICK m \in Nat : m = n + 1
  OBVIOUS
<1>3. PICK h : ArePowers(h, base, m) /\ Power(base, m) = h[m]
  BY PowerIs
<1>4. \A x \in 0 .. n : h[x] = g[x]
  <2>1. h[0] = g[0] /\ \A x \in 1 .. n : h[x - 1] = g[x - 1] => h[x] = g[x]
    <3>1. \A x \in 1 .. n : x \in 1 .. m
      BY <1>2
    <3> QED BY ONLY <1>1, <1>3, <3>1 DEF ArePowers
  <2> QED BY ONLY <2>1, n \in Nat, SameRun
<1>5. Power(base, m) = Power(base, n) * base
  <2>1. m \in 1 .. m /\ m - 1 = n /\ n \in 0 .. n
    BY <1>2
  <2> QED BY ONLY <1>1, <1>3, <1>4, <2>1 DEF ArePowers
<1>6. PICK f : ArePowers(f, base, 0) /\ Power(base, 0) = f[0]
  BY PowerIs
<1>7. Power(base, n) \in Nat
  <2>1. n \in 0 .. n
    OBVIOUS
  <2> QED BY ONLY <1>1, <2>1 DEF ArePowers
<1> QED BY ONLY <1>2, <1>5, <1>6, <1>7 DEF ArePowers

(* A power of a positive base is positive. *)
LEMMA PowerPositive ==
  ASSUME NEW base \in Nat \ {0}, NEW n \in Nat
  PROVE  Power(base, n) \in Nat \ {0}
<1>1. PICK g : ArePowers(g, base, n) /\ Power(base, n) = g[n]
  BY PowerIs
<1> DEFINE P == {x \in 0 .. n : g[x] \in Nat /\ g[x] > 0}
<1>2. 0 \in P
  BY <1>1 DEF ArePowers
<1>3. ASSUME NEW x \in 1 .. n, x - 1 \in P PROVE x \in P
  <2>1. PICK v \in Nat : v = g[x - 1] /\ v > 0
    BY <1>3
  <2>2. v * base \in Nat /\ v * base > 0
    BY <2>1
  <2>3. g[x] = v * base
    BY <1>1, <2>1 DEF ArePowers
  <2> QED BY <2>2, <2>3
<1> HIDE DEF P
<1>4. \A x \in 0 .. n : x \in P
  BY ONLY <1>2, <1>3, n \in Nat, UpTo
<1>5. n \in P
  BY <1>4
<1> QED BY <1>1, <1>5 DEF P

(* A word of so many bits is bytes, and half of them are negative. *)
IsWidth(bits, M) ==
  M \in Nat \ {0} /\ Power(2, bits) = 256 * M /\ Power(2, bits - 1) = 128 * M

(* A word of eight bits or more has a width. *)
LEMMA WidthIs ==
  ASSUME NEW bits \in Nat, 8 <= bits
  PROVE  \E M : IsWidth(bits, M)
<1>1. \A n \in Nat : Power(2, n) \in Nat \ {0} /\ Power(2, n + 1) = 2 * Power(2, n)
  <2> SUFFICES ASSUME NEW n \in Nat
               PROVE  Power(2, n) \in Nat \ {0} /\ Power(2, n + 1) = 2 * Power(2, n)
    OBVIOUS
  <2>1. Power(2, n) \in Nat \ {0}
    BY PowerPositive
  <2>2. Power(2, n + 1) = Power(2, n) * 2
    BY PowerNext
  <2> QED BY <2>1, <2>2
<1>2. PICK m \in Nat : bits = m + 8
  <2>1. bits - 8 \in Nat /\ bits = (bits - 8) + 8
    OBVIOUS
  <2> QED BY <2>1
<1>3. PICK M : M = Power(2, m)
  OBVIOUS
<1>4. M \in Nat \ {0} /\ Power(2, m + 1) = 2 * M
  BY <1>1, <1>3
<1>5. Power(2, m + 2) = 4 * M
  <2>1. m + 1 \in Nat /\ (m + 1) + 1 = m + 2
    OBVIOUS
  <2> QED BY <1>1, <1>4, <2>1
<1>6. Power(2, m + 3) = 8 * M
  <2>1. m + 2 \in Nat /\ (m + 2) + 1 = m + 3
    OBVIOUS
  <2> QED BY <1>1, <1>4, <1>5, <2>1
<1>7. Power(2, m + 4) = 16 * M
  <2>1. m + 3 \in Nat /\ (m + 3) + 1 = m + 4
    OBVIOUS
  <2> QED BY <1>1, <1>4, <1>6, <2>1
<1>8. Power(2, m + 5) = 32 * M
  <2>1. m + 4 \in Nat /\ (m + 4) + 1 = m + 5
    OBVIOUS
  <2> QED BY <1>1, <1>4, <1>7, <2>1
<1>9. Power(2, m + 6) = 64 * M
  <2>1. m + 5 \in Nat /\ (m + 5) + 1 = m + 6
    OBVIOUS
  <2> QED BY <1>1, <1>4, <1>8, <2>1
<1>10. Power(2, m + 7) = 128 * M
  <2>1. m + 6 \in Nat /\ (m + 6) + 1 = m + 7
    OBVIOUS
  <2> QED BY <1>1, <1>4, <1>9, <2>1
<1>11. Power(2, m + 8) = 256 * M
  <2>1. m + 7 \in Nat /\ (m + 7) + 1 = m + 8
    OBVIOUS
  <2> QED BY <1>1, <1>4, <1>10, <2>1
<1>12. bits - 1 = m + 7
  BY <1>2
<1>13. IsWidth(bits, M)
  BY ONLY <1>2, <1>4, <1>10, <1>11, <1>12 DEF IsWidth
<1> QED BY <1>13

-----------------------------------------------------------------------------
(* Digits and halves of words. *)

(* The character taken for a digit is one, and has its value. *)
LEMMA DigitOfIs ==
  ASSUME NEW c \in 1 .. 255, NEW base \in 2 .. 36
  PROVE  /\ DigitOf(c) \in Nat /\ DigitValue[c] \in Nat
         /\ DigitOf(c) < base <=> DigitValue[c] < base
         /\ DigitOf(c) < base => DigitOf(c) = DigitValue[c]
<1>1. CASE c < 48
  <2>1. (c - 48) % 256 = c + 208
    BY <1>1
  <2>2. DigitOf(c) = c + 208 /\ DigitValue[c] = 36
    BY <1>1, <2>1 DEF DigitOf, DigitValue, Ascii
  <2> QED BY <2>2
<1>2. CASE c \in 48 .. 57
  <2>1. (c - 48) % 256 = c - 48
    BY <1>2
  <2>2. DigitOf(c) = c - 48 /\ DigitValue[c] = c - 48
    BY <1>2, <2>1 DEF DigitOf, DigitValue, Ascii
  <2> QED BY <1>2, <2>2
<1>3. CASE c \in 58 .. 64
  <2>1. DigitOf(c) = 255 /\ DigitValue[c] = 36
    BY <1>3 DEF DigitOf, DigitValue, Ascii
  <2> QED BY <2>1
<1>4. CASE c \in 65 .. 96
  <2>1. DigitOf(c) = c - 55 /\ DigitValue[c] = IF c <= 90 THEN c - 55 ELSE 36
    BY <1>4 DEF DigitOf, DigitValue, Ascii
  <2> QED BY <1>4, <2>1
<1>5. CASE c \in 97 .. 255
  <2>1. DigitOf(c) = c - 87 /\ DigitValue[c] = IF c <= 122 THEN c - 87 ELSE 36
    BY <1>5 DEF DigitOf, DigitValue, Ascii
  <2> QED BY <1>5, <2>1
<1> QED BY <1>1, <1>2, <1>3, <1>4, <1>5

(* A number and its two halves. *)
LEMMA Halves ==
  ASSUME NEW v \in Int
  PROVE  /\ v = 256 * (v \div 256) + (v % 256)
         /\ v \div 256 \in Int /\ v % 256 \in 0 .. 255
OBVIOUS

(* What is added to the high half. *)
LEMMA CarryIs ==
  ASSUME NEW low \in 0 .. 255, NEW base \in 2 .. 36, NEW digit \in 0 .. base - 1
  PROVE  /\ low * base + digit \in Nat
         /\ (low * base + digit) \div 256 \in 0 .. base - 1
<1>1. PICK y : y = low * base
  OBVIOUS
<1>2. y \in Nat /\ y <= 255 * base
  BY <1>1
<1>3. y + digit \in Nat /\ y + digit < 256 * base
  BY <1>2
<1>4. (y + digit) \div 256 \in 0 .. base - 1
  BY <1>3
<1> QED BY <1>1, <1>3, <1>4

(* Remainders near the modulus. *)
LEMMA RemainderIs ==
  ASSUME NEW N \in Nat \ {0}, NEW v \in Int
  PROVE  /\ 0 <= v /\ v < N => v % N = v
         /\ - N <= v /\ v < 0 => v % N = v + N
         /\ v % N \in 0 .. N - 1
<1>1. v % N \in 0 .. N - 1
  OBVIOUS
<1>2. ASSUME 0 <= v, v < N PROVE v % N = v
  BY <1>2
<1>3. ASSUME - N <= v, v < 0 PROVE v % N = v + N
  <2>1. v = (-1) * N + (v + N) /\ v + N \in 0 .. N - 1
    BY <1>3
  <2> QED BY <2>1
<1> QED BY <1>1, <1>2, <1>3

-----------------------------------------------------------------------------
(* A digit more. *)

(* The high half of an accumulator: as a signed number it is negative when  *)
(* the upper bit is set.                                                    *)
LEMMA HighIs ==
  ASSUME NEW bits, NEW M, IsWidth(bits, M), NEW signed \in BOOLEAN,
         NEW v \in 0 .. 256 * M - 1, NEW h, h = v \div 256
  PROVE  /\ h \in 0 .. M - 1
         /\ High(v, bits, signed) = IF signed /\ v >= 128 * M THEN h - M ELSE h
<1>1. M \in Nat /\ M > 0 /\ Power(2, bits) = 256 * M /\ LongMax(bits) = 128 * M - 1
  BY DEF IsWidth, LongMax
<1>2. h \in 0 .. M - 1
  BY <1>1
<1>3. CASE signed /\ v >= 128 * M
  <2>1. AsSigned(v, bits) = v - 256 * M
    BY <1>1, <1>3 DEF AsSigned
  <2>2. (v - 256 * M) \div 256 = h - M
    BY <1>1
  <2> QED BY <1>2, <1>3, <2>1, <2>2 DEF High
<1>4. CASE ~ (signed /\ v >= 128 * M)
  <2>1. signed => AsSigned(v, bits) = v
    BY <1>1, <1>4 DEF AsSigned
  <2> QED BY <1>2, <1>4, <2>1 DEF High
<1> QED BY <1>3, <1>4

(* A product with the base is at most 36 times as much. *)
LEMMA ProductBounds ==
  ASSUME NEW h \in Nat, NEW base \in 2 .. 36
  PROVE  h * base \in Nat /\ 2 * h <= h * base /\ h * base <= 36 * h
OBVIOUS

(* A digit more is right as long as the number fits, and that it does not   *)
(* fit is noticed, in the signed accumulator of strtoull too.               *)
AccIs(acc, v, overflow) == acc.v = v /\ overflow \in BOOLEAN /\ acc.overflow = overflow
IsAdded(out, overflow, sum, M) ==
  /\ out.overflow <=> overflow \/ sum >= 256 * M
  /\ sum < 256 * M => out.v = sum
  /\ out.v \in 0 .. 256 * M - 1

(* A digit more is a digit more of the number, until it overflows. *)
LEMMA AddDigitIs ==
  ASSUME NEW bits, NEW M, IsWidth(bits, M), NEW signed \in BOOLEAN,
         NEW v \in 0 .. 256 * M - 1, NEW base \in 2 .. 36, NEW digit \in 0 .. base - 1,
         NEW acc, NEW overflow, AccIs(acc, v, overflow),
         NEW out, out = AddDigit(acc, High(v, bits, signed), base, digit, bits)
  PROVE  IsAdded(out, overflow, v * base + digit, M)
<1>1. M \in Nat /\ M > 0 /\ Power(2, bits) = 256 * M /\ ULongMax(bits) \div 256 = M - 1
  BY DEF IsWidth, ULongMax
<1>2. PICK h \in 0 .. M - 1, low \in 0 .. 255 :
        v = 256 * h + low /\ h = v \div 256 /\ low = v % 256
  <2>1. v \div 256 \in 0 .. M - 1 /\ v % 256 \in 0 .. 255
        /\ v = 256 * (v \div 256) + (v % 256)
    BY <1>1
  <2> QED BY <2>1
<1>3. PICK x \in Nat : x = low * base + digit
  BY CarryIs
<1>4. PICK up \in 0 .. base - 1 : up = x \div 256
  BY <1>3, CarryIs
<1>5. PICK down \in 0 .. 255 : down = x % 256
  BY <1>3
<1>6. x = 256 * up + down
  BY <1>4, <1>5
<1>7. PICK g \in Nat : g = h * base /\ 2 * h <= g /\ g <= 36 * h
  BY ProductBounds
<1>8. v * base + digit = 256 * (g + up) + down
  <2>1. v * base = 256 * (h * base) + low * base
    BY <1>2
  <2> QED BY <1>3, <1>6, <1>7, <2>1
<1>9. v * base + digit >= 256 * M <=> g + up >= M
  BY <1>1, <1>8
<1>10. PICK high \in Int : high = High(v, bits, signed)
         /\ high = IF signed /\ v >= 128 * M THEN h - M ELSE h
  <2>1. v \div 256 = h
    BY <1>2
  <2>2. High(v, bits, signed) = IF signed /\ v >= 128 * M THEN h - M ELSE h
    BY ONLY <1>2, <2>1, IsWidth(bits, M), signed \in BOOLEAN, v \in 0 .. 256 * M - 1, HighIs
  <2>3. (IF signed /\ v >= 128 * M THEN h - M ELSE h) \in Int
    BY <1>1
  <2> QED BY ONLY <2>2, <2>3
<1>11. PICK N \in Nat \ {0} : N = 256 * M
  BY <1>1
<1>12. PICK y, w : y = (high * base) + up /\ w = y % N
  OBVIOUS
<1>13. out = [v |-> (w * 256 + down) % N, overflow |-> overflow \/ w > M - 1]
  <2>1. /\ v % 256 = low /\ (low * base) + digit = x /\ x \div 256 = up /\ x % 256 = down
        /\ Power(2, bits) = N /\ ULongMax(bits) \div 256 = M - 1 /\ High(v, bits, signed) = high
    BY ONLY <1>1, <1>2, <1>3, <1>4, <1>5, <1>10, <1>11
  <2>2. out = AddDigit(acc, high, base, digit, bits)
    BY ONLY <2>1, out = AddDigit(acc, High(v, bits, signed), base, digit, bits)
  <2> QED BY ONLY <2>1, <2>2, <1>12, AccIs(acc, v, overflow) DEF AddDigit, AccIs
<1>14. w \in 0 .. N - 1 /\ (w > M - 1 <=> g + up >= M) /\ (g + up < M => w = g + up)
  <2>1. CASE ~ (signed /\ v >= 128 * M)
    <3>1. y = g + up
      BY <1>7, <1>10, <1>12, <2>1
    <3>2. y \in Int /\ 0 <= y /\ y < N
      BY <1>1, <1>2, <1>4, <1>7, <1>11, <3>1
    <3>3. w = y
      BY ONLY <1>12, <3>2, N \in Nat \ {0}, RemainderIs
    <3> QED BY ONLY <1>1, <3>1, <3>2, <3>3
  <2>2. CASE signed /\ v >= 128 * M
    <3>1. high = h - M /\ 2 * h + 1 >= M
      <4>1. high = h - M /\ v >= 128 * M
        BY <1>10, <2>2
      <4>2. v = 256 * h + low /\ h \in Nat /\ low \in 0 .. 255 /\ M \in Nat
        BY <1>1, <1>2
      <4> QED BY ONLY <4>1, <4>2
    <3>2. PICK e \in Nat : e = M - h /\ e >= 1 /\ 2 * e <= M + 1
      BY <1>1, <3>1
    <3>3. PICK f \in Nat : f = e * base /\ base <= f /\ f <= 36 * e
      <4>1. e * base \in Nat /\ e * base <= 36 * e
        BY ProductBounds
      <4>2. base <= e * base
        BY <3>2
      <4> QED BY <4>1, <4>2
    <3>4. y = up - f
      <4>1. high = -e
        BY <1>1, <3>1, <3>2
      <4>2. (-e) * base = -(e * base)
        OBVIOUS
      <4> QED BY <1>12, <3>3, <4>1, <4>2
    <3>5. - N <= up - f /\ up - f < 0
      BY <1>1, <1>4, <1>11, <3>2, <3>3
    <3>6. w = up - f + N
      <4>1. up - f \in Int
        OBVIOUS
      <4> QED BY ONLY <1>12, <3>4, <3>5, <4>1, N \in Nat \ {0}, RemainderIs
    <3>7. w > M - 1
      BY <1>1, <1>4, <1>11, <3>2, <3>3, <3>6
    <3>8. g + up >= M
      <4>1. 2 * h + 1 >= M /\ g >= 2 * h /\ M >= 1
        BY <3>1, <1>7, <1>1
      <4>2. v * base + digit >= 2 * v
        BY <2>2
      <4> QED BY <1>1, <1>9, <2>2, <4>2
    <3> QED BY ONLY <1>1, <1>4, <1>11, <3>3, <3>5, <3>6, <3>7, <3>8, base \in 2 .. 36, g \in Nat, f \in Nat, up \in 0 .. base - 1
  <2> QED BY <2>1, <2>2
<1>15. g + up < M => (w * 256 + down) % N = 256 * (g + up) + down
  <2> SUFFICES ASSUME g + up < M PROVE (w * 256 + down) % N = 256 * (g + up) + down
    OBVIOUS
  <2>1. w * 256 + down = 256 * (g + up) + down /\ w * 256 + down \in Int
    BY <1>14
  <2>2. 0 <= w * 256 + down /\ w * 256 + down < N
    BY <1>1, <1>11, <2>1
  <2> QED BY ONLY <2>1, <2>2, N \in Nat \ {0}, RemainderIs
<1>16. (w * 256 + down) % N \in 0 .. N - 1
  <2>1. w * 256 + down \in Int
    BY <1>14
  <2> QED BY ONLY <2>1, N \in Nat \ {0}, RemainderIs
<1>19. overflow \in BOOLEAN
  BY ONLY AccIs(acc, v, overflow) DEF AccIs
<1>17. /\ out.v = (w * 256 + down) % N
       /\ out.overflow <=> overflow \/ w > M - 1
  BY ONLY <1>13, <1>19
<1>18. v * base + digit \in Nat /\ v * base \in Nat
  OBVIOUS
<1> QED BY ONLY <1>1, <1>8, <1>9, <1>11, <1>14, <1>15, <1>16, <1>17, <1>18, M \in Nat,
                g \in Nat, up \in 0 .. base - 1, base \in 2 .. 36 DEF IsAdded

-----------------------------------------------------------------------------
(* Loops over classes, and digits in a row. *)

(* The characters of a text, and the NUL behind it. *)
LEMMA AtIs ==
  ASSUME NEW s \in Texts, NEW n \in Nat
  PROVE  /\ Len(s) \in Nat /\ At(s, n) \in 0 .. 255
         /\ n < Len(s) => At(s, n) = s[n + 1] /\ At(s, n) \in 1 .. 255
         /\ n >= Len(s) => At(s, n) = 0
<1>1. Len(s) \in Nat /\ \A x \in 1 .. Len(s) : s[x] \in 1 .. 255
  <2>1. PICK C : C = 1 .. 255
    OBVIOUS
  <2>2. s \in Seq(C)
    BY <2>1 DEF Texts
  <2>3. Len(s) \in Nat /\ \A x \in 1 .. Len(s) : s[x] \in C
    <3>1. Len(s) \in Nat
      BY ONLY <2>2, LenProperties
    <3>2. \A x \in 1 .. Len(s) : s[x] \in C
      BY ONLY <2>2, ElementOfSeq
    <3> QED BY ONLY <3>1, <3>2
  <2> QED BY ONLY <2>1, <2>3
<1>2. CASE n < Len(s)
  <2>1. n + 1 \in 1 .. Len(s)
    BY <1>1, <1>2
  <2> QED BY <1>1, <1>2, <2>1 DEF At
<1>3. CASE n >= Len(s)
  BY <1>1, <1>3 DEF At
<1> QED BY <1>1, <1>2, <1>3

(* A loop over a class ends where it stops. *)
SkipsTo(s, n, class, m) ==
  /\ m \in n .. Len(s) /\ At(s, m) \notin class
  /\ \A x \in n .. m - 1 : At(s, x) \in class

(* Skip ends at the first character out of the class. *)
LEMMA SkipIs ==
  ASSUME NEW s \in Texts, NEW n \in 0 .. Len(s), NEW class, 0 \notin class
  PROVE  SkipsTo(s, n, class, Skip(s, n, class)) /\ Skip(s, n, class) \in 0 .. Len(s)
<1>1. Len(s) \in Nat
  BY DEF Texts
<1> DEFINE Out == {m \in n .. Len(s) : At(s, m) \notin class}
<1>2. PICK m \in Out : \A y \in Out : m <= y
  <2>1. Len(s) \in Out
    BY <1>1, AtIs
  <2>2. Out \in SUBSET Nat
    BY <1>1
  <2> HIDE DEF Out
  <2> QED BY <2>1, <2>2, LeastNatural
<1>3. \A x \in n .. m - 1 : At(s, x) \in class
  BY <1>1, <1>2
<1>4. \E y \in n .. Len(s) :
        At(s, y) \notin class /\ \A x \in n .. y - 1 : At(s, x) \in class
  BY <1>2, <1>3
<1>5. PICK e : e = Skip(s, n, class)
  OBVIOUS
<1>6. e \in n .. Len(s) /\ At(s, e) \notin class /\ \A x \in n .. e - 1 : At(s, x) \in class
  BY ONLY <1>4, <1>5 DEF Skip
<1> QED BY ONLY <1>1, <1>5, <1>6, n \in 0 .. Len(s) DEF SkipsTo

(* It stops at one place. *)
LEMMA StopsOnce ==
  ASSUME NEW s \in Texts, NEW n \in 0 .. Len(s), NEW class, 0 \notin class,
         NEW m, SkipsTo(s, n, class, m)
  PROVE  Skip(s, n, class) = m
<1>1. PICK e : e = Skip(s, n, class)
  OBVIOUS
<1>2. SkipsTo(s, n, class, e)
  BY <1>1, SkipIs
<1>3. Len(s) \in Nat
  BY DEF Texts
<1>4. ~ (e < m) /\ ~ (m < e)
  BY <1>2, <1>3 DEF SkipsTo
<1> QED BY <1>1, <1>2, <1>3, <1>4 DEF SkipsTo

(* The classes that are skipped. *)
LEMMA SpacesAre == Spaces = {9, 10, 11, 12, 13, 32} /\ Digits10 = 48 .. 57
<1>1. \A c \in 0 .. 255 : isspace(c) <=> c \in {9, 10, 11, 12, 13, 32}
  <2> TAKE c \in 0 .. 255
  <2> QED BY DEF isspace, Within, Ascii
<1>2. \A c \in 0 .. 255 : isdigit(c) <=> c \in 48 .. 57
  <2> TAKE c \in 0 .. 255
  <2> QED BY DEF isdigit, Within, Ascii
<1> QED BY <1>1, <1>2 DEF Spaces, Digits10

(* The digits of a text from a place on. *)
DigitsAt(s, from, n) == [x \in 1 .. n |-> DigitValue[At(s, from + x - 1)]]

(* Digits in a row are natural numbers. *)
LEMMA DigitsAtIs ==
  ASSUME NEW s \in Texts, NEW from \in Nat, NEW n \in Nat
  PROVE  /\ DigitsAt(s, from, n) \in [1 .. n -> Nat] /\ Len(DigitsAt(s, from, n)) = n
         /\ \A x \in 1 .. n : DigitsAt(s, from, n)[x] = DigitValue[At(s, from + x - 1)]
<1>1. \A c \in 0 .. 255 : DigitValue[c] \in Nat
  BY DEF DigitValue
<1>2. \A x \in 1 .. n : DigitValue[At(s, from + x - 1)] \in Nat
  <2> SUFFICES ASSUME NEW x \in 1 .. n PROVE DigitValue[At(s, from + x - 1)] \in Nat
    OBVIOUS
  <2>1. from + x - 1 \in Nat
    OBVIOUS
  <2>2. At(s, from + x - 1) \in 0 .. 255
    BY ONLY <2>1, s \in Texts, AtIs
  <2> QED BY <1>1, <2>2
<1>3. PICK f : f = [x \in 1 .. n |-> DigitValue[At(s, from + x - 1)]]
  OBVIOUS
<1>4. f \in [1 .. n -> Nat] /\ \A x \in 1 .. n : f[x] = DigitValue[At(s, from + x - 1)]
  BY ONLY <1>2, <1>3
<1>5. Len(f) = n
  BY ONLY <1>4, n \in Nat
<1>6. f = DigitsAt(s, from, n)
  BY ONLY <1>3 DEF DigitsAt
<1> QED BY ONLY <1>4, <1>5, <1>6

(* The accumulator has the value of the digits while it fits. *)
AreDigits(s, from, n, base) == \A x \in 1 .. n : DigitOf(At(s, from + x - 1)) < base
IsTotal(out, value, M) ==
  value \in Nat /\ (out.overflow <=> value >= 256 * M) /\ (value < 256 * M => out.v = value)

(* What is accumulated is the number the digits make, or an overflow. *)
LEMMA AccumulateIs ==
  ASSUME NEW s \in Texts, NEW from \in Nat, NEW n \in Nat, from + n <= Len(s),
         NEW base \in 2 .. 36, AreDigits(s, from, n, base),
         NEW bits, NEW M, IsWidth(bits, M), NEW signed \in BOOLEAN,
         NEW value, value = Positional(DigitsAt(s, from, n), base),
         NEW out, out = Accumulate(s, from, from + n, base, bits, signed)
  PROVE  IsTotal(out, value, M)
<1>1. M \in Nat /\ M > 0
  BY DEF IsWidth
<1>2. PICK digits : digits = DigitsAt(s, from, n)
  OBVIOUS
<1>3. /\ digits \in [1 .. n -> Nat] /\ Len(digits) = n
      /\ \A x \in 1 .. n : digits[x] = DigitValue[At(s, from + x - 1)]
  BY <1>2, DigitsAtIs
<1>4. \A x \in 1 .. n : DigitOf(At(s, from + x - 1)) = digits[x] /\ digits[x] \in 0 .. base - 1
  <2> SUFFICES ASSUME NEW x \in 1 .. n
               PROVE  DigitOf(At(s, from + x - 1)) = digits[x] /\ digits[x] \in 0 .. base - 1
    OBVIOUS
  <2>1. Len(s) \in Nat /\ from + x - 1 \in Nat /\ from + x - 1 < Len(s)
    BY DEF Texts
  <2>2. PICK c \in 1 .. 255 : c = At(s, from + x - 1)
    BY ONLY <2>1, s \in Texts, AtIs
  <2>3. DigitOf(c) < base
    BY ONLY <2>2, x \in 1 .. n, AreDigits(s, from, n, base) DEF AreDigits
  <2>4. DigitOf(c) = DigitValue[c] /\ DigitValue[c] \in Nat
    BY ONLY <2>3, c \in 1 .. 255, base \in 2 .. 36, DigitOfIs
  <2> QED BY <1>3, <2>2, <2>3, <2>4
<1>5. PICK g : IsValue(g, digits, base, n) /\ value = g[n]
  BY ONLY <1>2, <1>3, n \in Nat, base \in 2 .. 36, 2 .. 36 \subseteq Nat, PositionalIs,
          value = Positional(DigitsAt(s, from, n), base)
<1>6. PICK S : S = [v : 0 .. 256 * M - 1, overflow : BOOLEAN]
  OBVIOUS
<1> DEFINE Add(z, x) == AddDigit(z, High(z.v, bits, signed), base, DigitOf(At(s, from + x - 1)), bits)
<1>7. \A z \in S, x \in 1 .. n :
        /\ Add(z, x).overflow <=> z.overflow \/ z.v * base + digits[x] >= 256 * M
        /\ z.v * base + digits[x] < 256 * M => Add(z, x).v = z.v * base + digits[x]
        /\ Add(z, x) \in S
  <2> SUFFICES ASSUME NEW z \in S, NEW x \in 1 .. n
               PROVE  /\ Add(z, x).overflow <=> z.overflow \/ z.v * base + digits[x] >= 256 * M
                      /\ z.v * base + digits[x] < 256 * M => Add(z, x).v = z.v * base + digits[x]
                      /\ Add(z, x) \in S
    OBVIOUS
  <2>1. PICK v \in 0 .. 256 * M - 1, overflow \in BOOLEAN : z.v = v /\ z.overflow = overflow
    BY <1>6
  <2>2. PICK digit \in 0 .. base - 1 : digit = digits[x] /\ digit = DigitOf(At(s, from + x - 1))
    BY <1>4
  <2>3. PICK o : o = AddDigit(z, High(v, bits, signed), base, digit, bits)
    OBVIOUS
  <2>4. /\ o.overflow <=> overflow \/ v * base + digit >= 256 * M
        /\ v * base + digit < 256 * M => o.v = v * base + digit
        /\ o.v \in 0 .. 256 * M - 1
    <3>1. AccIs(z, v, overflow)
      BY ONLY <2>1, overflow \in BOOLEAN DEF AccIs
    <3>2. IsAdded(o, overflow, v * base + digit, M)
      BY ONLY IsWidth(bits, M), signed \in BOOLEAN, v \in 0 .. 256 * M - 1, base \in 2 .. 36,
              digit \in 0 .. base - 1, <2>3, <3>1, AddDigitIs
    <3> QED BY ONLY <3>2 DEF IsAdded
  <2>5. o = Add(z, x)
    BY ONLY <2>1, <2>2, <2>3
  <2>6. o \in [v : {o.v}, overflow : BOOLEAN]
    BY ONLY <2>1, <2>3, overflow \in BOOLEAN DEF AddDigit
  <2>7. o \in S
    BY ONLY <1>6, <2>4, <2>6
  <2> HIDE DEF Add
  <2> QED BY ONLY <2>1, <2>2, <2>4, <2>5, <2>7
<1>8. PICK F : F = [z \in S \X (1 .. n) |-> Add(z[1], z[2])]
  OBVIOUS
<1>9. /\ F \in [S \X (1 .. n) -> S]
      /\ \A z \in S, x \in 1 .. n : F[<<z, x>>] = Add(z, x)
  <2> HIDE DEF Add
  <2> QED BY ONLY <1>7, <1>8
<1>10. PICK z0 \in S : z0 = [v |-> 0, overflow |-> FALSE]
  <2>1. PICK N \in Nat : N = 256 * M /\ N > 0
    BY <1>1
  <2>2. 0 \in 0 .. N - 1
    BY <2>1
  <2> QED BY ONLY <1>6, <2>1, <2>2
<1>11. PICK h : IsRun(h, S, n, z0, F)
  BY ONLY <1>9, n \in Nat, z0 \in S, RunExists
<1>12. /\ h \in [0 .. n -> S] /\ h[0] = z0
       /\ \A x \in 1 .. n : h[x] = Add(h[x - 1], x)
  <2> HIDE DEF Add
  <2>1. \A x \in 1 .. n : x - 1 \in 0 .. n
    OBVIOUS
  <2> QED BY ONLY <1>9, <1>11, <2>1 DEF IsRun
<1> DEFINE Step(acc) == [x \in 0 .. n |-> IF x = 0 THEN z0 ELSE Add(acc[x - 1], x)]
           run == CHOOSE acc : acc = Step(acc)
<1>13. out = run[n]
  <2>1. (from + n) - from = n
    OBVIOUS
  <2> QED BY ONLY <1>10, <2>1, out = Accumulate(s, from, from + n, base, bits, signed) DEF Accumulate
<1>14. run = Step(run)
  <2>1. \A x \in 0 .. n : x = 0 \/ x \in 1 .. n
    OBVIOUS
  <2>2. h = Step(h)
    <3> HIDE DEF Add
    <3> QED BY ONLY <1>12, <2>1
  <2> QED BY ONLY <2>2
<1> HIDE DEF run
<1>15. run[n] = h[n]
  <2> DEFINE P == {x \in 0 .. n : run[x] = h[x]}
  <2> HIDE DEF Add
  <2>1. \A x \in 1 .. n : x \in 0 .. n /\ x - 1 \in 0 .. n /\ x # 0
    OBVIOUS
  <2>2. 0 \in 0 .. n /\ n \in 0 .. n
    OBVIOUS
  <2>3. 0 \in P /\ \A x \in 1 .. n : x - 1 \in P => x \in P
    BY ONLY <1>12, <1>14, <2>1, <2>2
  <2> HIDE DEF P
  <2>4. \A x \in 0 .. n : x \in P
    BY ONLY <2>3, n \in Nat, UpTo
  <2> QED BY ONLY <2>2, <2>4 DEF P
<1> DEFINE Right == {x \in 0 .. n : /\ h[x].overflow <=> g[x] >= 256 * M
                                    /\ g[x] < 256 * M => h[x].v = g[x]}
<1>16. 0 \in Right
  BY ONLY <1>1, <1>5, <1>10, <1>12, n \in Nat DEF IsValue
<1>17. ASSUME NEW x \in 1 .. n, x - 1 \in Right PROVE x \in Right
  <2>1. PICK u \in Nat : u = g[x - 1] /\ g[x] = u * base + digits[x]
    <3>1. x - 1 \in 0 .. n
      OBVIOUS
    <3> QED BY ONLY <1>5, <3>1, x \in 1 .. n DEF IsValue
  <2>2. PICK z \in S : z = h[x - 1] /\ h[x] = Add(z, x)
    <3> HIDE DEF Add, Right
    <3>1. x - 1 \in 0 .. n
      OBVIOUS
    <3> QED BY <1>12, <3>1
  <2>3. (z.overflow <=> u >= 256 * M) /\ (u < 256 * M => z.v = u)
    BY <1>17, <2>1, <2>2
  <2>4. PICK o : o = Add(z, x)
    OBVIOUS
  <2>5. /\ o.overflow <=> z.overflow \/ z.v * base + digits[x] >= 256 * M
        /\ z.v * base + digits[x] < 256 * M => o.v = z.v * base + digits[x]
    <3> HIDE DEF Add
    <3> QED BY ONLY <1>7, <2>4, z \in S, x \in 1 .. n
  <2>6. PICK digit \in Nat : digit = digits[x]
    BY <1>3
  <2>7. u * base \in Nat /\ u <= u * base
    OBVIOUS
  <2>8. PICK N \in Nat : N = 256 * M
    BY <1>1
  <2>9. z.overflow \in BOOLEAN
    BY <1>6
  <2>10. (o.overflow <=> u * base + digit >= N) /\ (u * base + digit < N => o.v = u * base + digit)
    <3>1. CASE u >= N
      <4>1. o.overflow /\ u * base + digit >= N
        BY <2>3, <2>5, <2>7, <2>8, <3>1
      <4> QED BY <2>7, <4>1
    <3>2. CASE u < N
      BY <2>3, <2>5, <2>6, <2>8, <3>2
    <3> QED BY <3>1, <3>2
  <2>11. h[x] = o /\ g[x] = u * base + digit /\ x \in 0 .. n
    BY <2>1, <2>2, <2>4, <2>6
  <2> HIDE DEF Add
  <2> QED BY ONLY <2>8, <2>10, <2>11
<1>18. n \in Right
  <2> HIDE DEF Right
  <2>1. n \in 0 .. n
    OBVIOUS
  <2> QED BY ONLY <1>16, <1>17, <2>1, n \in Nat, UpTo
<1>19. value \in Nat
  BY ONLY <1>5, n \in Nat DEF IsValue
<1> QED BY ONLY <1>5, <1>13, <1>15, <1>18, <1>19 DEF IsTotal

-----------------------------------------------------------------------------
(* Where the digits of a number are. *)

(* The digit at a place of a text, 36 if there is none. *)
DigitAt(s, x) == DigitValue[At(s, x)]

(* A character is a digit of a base if its value is below the base. *)
LEMMA DigitAtIs ==
  ASSUME NEW s \in Texts, NEW x \in Nat
  PROVE  DigitAt(s, x) \in Nat /\ DigitAt(s, x) <= 36
<1>1. PICK c \in 0 .. 255 : c = At(s, x)
  BY AtIs
<1>2. DigitValue[c] \in Nat /\ DigitValue[c] <= 36
  BY DEF DigitValue
<1> QED BY <1>1, <1>2 DEF DigitAt

(* NUL is no digit. *)
LEMMA NoDigitAt ==
  ASSUME NEW s, NEW x, At(s, x) \in {0, 9, 10, 11, 12, 13, 32, 43, 45, 46}
  PROVE  DigitAt(s, x) = 36
BY DEF DigitAt, DigitValue

(* What Prefix says, in numbers. *)
LEMMA PrefixAt ==
  ASSUME NEW s, NEW x
  PROVE  /\ At(s, x) = 48 => DigitAt(s, x) = 0
         /\ At(s, x) \in {88, 120} => DigitAt(s, x) = 33
BY DEF DigitAt, DigitValue

(* What is behind the 0 of a prefix. *)
LEMMA HexAt ==
  ASSUME NEW s \in Texts, NEW x \in Nat
  PROVE  isxdigit(At(s, x)) <=> DigitAt(s, x) < 16
<1>1. PICK c \in 0 .. 255 : c = At(s, x)
  BY AtIs
<1>2. ClassRanges(c)
  BY ClassesAre
<1>3. isxdigit(c) <=> c \in 48 .. 57 \/ c \in 65 .. 70 \/ c \in 97 .. 102
  BY ONLY <1>2 DEF ClassRanges
<1>4. (c \in 48 .. 57 \/ c \in 65 .. 70 \/ c \in 97 .. 102) <=> DigitValue[c] < 16
  BY DEF DigitValue
<1> QED BY ONLY <1>1, <1>3, <1>4 DEF DigitAt

(* How Convert takes a text apart: n blanks, a sign up to orig, a prefix up *)
(* to at and the digits of base b up to end.                                *)
Parsed(s, base, n, orig, at, b, end) ==
  /\ n \in 0 .. Len(s) /\ orig \in 0 .. Len(s) /\ at \in 0 .. Len(s) /\ end \in at .. Len(s)
  /\ \A x \in 0 .. n - 1 : At(s, x) \in {9, 10, 11, 12, 13, 32}
  /\ At(s, n) \notin {9, 10, 11, 12, 13, 32}
  /\ orig = IF At(s, n) \in {43, 45} THEN n + 1 ELSE n
  /\ at \in {orig, orig + 2}
  /\ at = orig + 2 <=> /\ base \in {0, 16} /\ At(s, orig) = 48
                       /\ At(s, orig + 1) \in {88, 120} /\ DigitAt(s, orig + 2) < 16
  /\ b = IF at = orig + 2 THEN 16
         ELSE IF base /= 0 THEN base ELSE IF At(s, orig) = 48 THEN 8 ELSE 10
  /\ \A x \in at .. end - 1 : DigitAt(s, x) < b
  /\ DigitAt(s, end) >= b

(* The digits end where DigitOf is not less than the base. *)
LEMMA DigitsEnd ==
  ASSUME NEW s \in Texts, NEW at \in 0 .. Len(s), NEW b \in 2 .. 36,
         NEW end, end = Skip(s, at, DigitsOf(b))
  PROVE  /\ end \in at .. Len(s) /\ DigitAt(s, end) >= b
         /\ \A x \in at .. end - 1 : DigitAt(s, x) < b /\ DigitOf(At(s, x)) < b
<1>1. Len(s) \in Nat
  BY DEF Texts
<1>2. \A x \in Nat : At(s, x) \in DigitsOf(b) <=> DigitAt(s, x) < b
  <2> SUFFICES ASSUME NEW x \in Nat
               PROVE  At(s, x) \in DigitsOf(b) <=> DigitAt(s, x) < b
    OBVIOUS
  <2>1. PICK c \in 0 .. 255 : c = At(s, x)
    BY AtIs
  <2>2. CASE c = 0
    <3>1. DigitAt(s, x) = 36
      <4>1. At(s, x) = 0
        BY ONLY <2>1, <2>2
      <4> QED BY ONLY <4>1, NoDigitAt
    <3>2. At(s, x) \notin DigitsOf(b)
      BY ONLY <2>1, <2>2 DEF DigitsOf
    <3> QED BY ONLY <3>1, <3>2, b \in 2 .. 36
  <2>3. CASE c \in 1 .. 255
    <3>1. DigitOf(c) < b <=> DigitValue[c] < b
      BY ONLY <2>3, b \in 2 .. 36, DigitOfIs
    <3> QED BY ONLY <2>1, <2>3, <3>1 DEF DigitsOf, DigitAt
  <2> QED BY <2>2, <2>3
<1>3. SkipsTo(s, at, DigitsOf(b), end)
  <2>1. 0 \notin DigitsOf(b)
    BY DEF DigitsOf
  <2> QED BY <2>1, SkipIs
<1>4. end \in at .. Len(s) /\ at \in Nat /\ end \in Nat
  BY <1>1, <1>3 DEF SkipsTo
<1>5. DigitAt(s, end) \in Nat /\ ~ (DigitAt(s, end) < b)
  BY <1>2, <1>3, <1>4, DigitAtIs DEF SkipsTo
<1>6. \A x \in at .. end - 1 : DigitAt(s, x) < b /\ DigitOf(At(s, x)) < b
  <2> SUFFICES ASSUME NEW x \in at .. end - 1
               PROVE  DigitAt(s, x) < b /\ DigitOf(At(s, x)) < b
    OBVIOUS
  <2>1. x \in Nat /\ At(s, x) \in DigitsOf(b)
    BY ONLY <1>3, <1>4, x \in at .. end - 1 DEF SkipsTo
  <2> QED BY <1>2, <2>1 DEF DigitsOf
<1> QED BY <1>4, <1>5, <1>6

(* A conversion parses the text. *)
LEMMA ParsedIs ==
  ASSUME NEW s \in Texts, NEW base \in {0} \cup 2 .. 36,
         NEW n, n = Skip(s, 0, Spaces),
         NEW orig, orig = IF At(s, n) \in {Ascii.minus, Ascii.plus} THEN n + 1 ELSE n,
         NEW prefix, prefix = Prefix(s, orig, base), NEW at, at = prefix.at, NEW b, b = prefix.base,
         NEW end, end = Skip(s, at, DigitsOf(b))
  PROVE  /\ Parsed(s, base, n, orig, at, b, end) /\ b \in 2 .. 36
         /\ \A x \in at .. end - 1 : DigitOf(At(s, x)) < b
<1>1. Len(s) \in Nat
  BY DEF Texts
<1>3. SkipsTo(s, 0, Spaces, n) /\ n \in 0 .. Len(s)
  <2>1. 0 \notin Spaces
    BY SpacesAre
  <2>2. 0 \in 0 .. Len(s)
    BY <1>1
  <2> QED BY ONLY n = Skip(s, 0, Spaces), <2>1, <2>2, s \in Texts, SkipIs
<1>4. orig = IF At(s, n) \in {43, 45} THEN n + 1 ELSE n
  BY DEF Ascii
<1>5. orig \in 0 .. Len(s)
  <2>1. At(s, n) \in {43, 45} => n < Len(s)
    BY <1>1, <1>3, AtIs
  <2> QED BY <1>1, <1>3, <1>4, <2>1
<1>6. at = Prefix(s, orig, base).at /\ b = Prefix(s, orig, base).base
  OBVIOUS
<1>7. HexFollows(s, orig) <=> At(s, orig + 1) \in {88, 120} /\ DigitAt(s, orig + 2) < 16
  <2>1. isxdigit(At(s, orig + 2)) <=> DigitAt(s, orig + 2) < 16
    BY <1>5, HexAt
  <2> QED BY <2>1 DEF HexFollows, Ascii
<1>8. PICK hex \in BOOLEAN : hex <=> base \in {0, 16} /\ At(s, orig) = 48 /\ HexFollows(s, orig)
  OBVIOUS
<1>9. /\ at = IF hex THEN orig + 2 ELSE orig
      /\ b = IF hex THEN 16
             ELSE IF base /= 0 THEN base ELSE IF At(s, orig) = 48 THEN 8 ELSE 10
  <2>1. CASE hex
    BY <1>6, <1>8, <2>1 DEF Prefix, Ascii
  <2>2. CASE ~ hex /\ base \in {0, 16} /\ At(s, orig) = 48
    BY <1>6, <1>8, <2>2 DEF Prefix, Ascii
  <2>3. CASE ~ (base \in {0, 16} /\ At(s, orig) = 48)
    BY <1>6, <1>8, <2>3 DEF Prefix, Ascii
  <2> QED BY <2>1, <2>2, <2>3
<1>10. at \in 0 .. Len(s) /\ b \in 2 .. 36
  <2>1. hex => orig + 2 < Len(s)
    <3> SUFFICES ASSUME hex, ~ (orig + 2 < Len(s)) PROVE FALSE
      BY <1>1, <1>5
    <3>1. orig + 2 \in Nat /\ orig + 2 >= Len(s)
      BY <1>1, <1>5
    <3>2. At(s, orig + 2) = 0
      BY ONLY <3>1, s \in Texts, AtIs
    <3>3. DigitAt(s, orig + 2) = 36
      BY ONLY <3>2, NoDigitAt
    <3> QED BY <1>7, <1>8, <3>3
  <2>2. at \in 0 .. Len(s)
    BY ONLY <1>1, <1>5, <1>9, <2>1
  <2>3. b \in 2 .. 36
    BY ONLY <1>9, base \in {0} \cup 2 .. 36
  <2> QED BY ONLY <2>2, <2>3
<1>12. /\ end \in at .. Len(s) /\ DigitAt(s, end) >= b
       /\ \A x \in at .. end - 1 : DigitAt(s, x) < b /\ DigitOf(At(s, x)) < b
  BY ONLY <1>10, end = Skip(s, at, DigitsOf(b)), s \in Texts, DigitsEnd
<1>13. Parsed(s, base, n, orig, at, b, end)
  <2>1. /\ \A x \in 0 .. n - 1 : At(s, x) \in {9, 10, 11, 12, 13, 32}
        /\ At(s, n) \notin {9, 10, 11, 12, 13, 32}
    BY ONLY <1>3, SpacesAre DEF SkipsTo
  <2>2. at \in {orig, orig + 2} /\ (at = orig + 2 <=> hex)
    BY <1>5, <1>9
  <2>3. hex <=> /\ base \in {0, 16} /\ At(s, orig) = 48
                /\ At(s, orig + 1) \in {88, 120} /\ DigitAt(s, orig + 2) < 16
    BY ONLY <1>7, <1>8
  <2> QED BY ONLY <1>3, <1>4, <1>5, <1>9, <1>10, <1>12, <2>1, <2>2, <2>3 DEF Parsed
<1> QED BY ONLY <1>10, <1>12, <1>13

-----------------------------------------------------------------------------
(* The forms a number may have. *)

(* The characters of a text are counted from 1 on, places from 0 on. *)
LEMMA FormAt ==
  ASSUME NEW s \in Texts, NEW x \in Nat, x < Len(s)
  PROVE  s[x + 1] = At(s, x) /\ DigitValue[s[x + 1]] = DigitAt(s, x)
BY AtIs DEF DigitAt

(* The conditions on a form, by the places of the text. *)
IsForm(s, base, blanks, sign, prefix, b, end) ==
  /\ blanks \in 0 .. Len(s) /\ sign \in {0, 1} /\ prefix \in {0, 2} /\ end \in 1 .. Len(s)
  /\ blanks + sign + prefix < end
  /\ \A x \in 0 .. blanks - 1 : At(s, x) \in {9, 10, 11, 12, 13, 32}
  /\ sign = 1 => At(s, blanks) \in {43, 45}
  /\ prefix = 2 => /\ base \in {0, 16} /\ At(s, blanks + sign) = 48
                   /\ At(s, blanks + sign + 1) \in {88, 120}
  /\ b = (IF prefix = 2 THEN 16
          ELSE IF base /= 0 THEN base ELSE IF At(s, blanks + sign) = 48 THEN 8 ELSE 10)
  /\ \A x \in blanks + sign + prefix .. end - 1 : DigitAt(s, x) < b

(* The forms of a number are those of Numerals. *)
LEMMA NumeralIs ==
  ASSUME NEW s \in Texts, NEW base \in {0} \cup 2 .. 36,
         NEW blanks \in 0 .. Len(s), NEW sign \in {0, 1}, NEW prefix \in {0, 2},
         NEW b \in {base, 8, 10, 16} \ {0}, NEW end \in 1 .. Len(s),
         NEW f, f = [blanks |-> blanks, sign |-> sign, prefix |-> prefix, base |-> b, end |-> end]
  PROVE  f \in Numerals(s, base) <=> IsForm(s, base, blanks, sign, prefix, b, end)
<1>1. Len(s) \in Nat
  BY DEF Texts
<1>2. PICK from \in Nat : from = blanks + sign + prefix
  BY <1>1
<1>3. Blank(s, blanks) <=> \A x \in 0 .. blanks - 1 : At(s, x) \in {9, 10, 11, 12, 13, 32}
  <2>1. \A x \in 0 .. blanks - 1 : s[x + 1] = At(s, x)
    BY <1>1, FormAt
  <2>2. \A x \in 1 .. blanks : x - 1 \in 0 .. blanks - 1 /\ (x - 1) + 1 = x
    BY <1>1
  <2>3. \A x \in 0 .. blanks - 1 : x + 1 \in 1 .. blanks
    BY <1>1
  <2>4. ASSUME \A x \in 0 .. blanks - 1 : At(s, x) \in {9, 10, 11, 12, 13, 32}
        PROVE  \A x \in 1 .. blanks : s[x] \in {9, 10, 11, 12, 13, 32}
    <3> TAKE x \in 1 .. blanks
    <3>1. PICK y \in 0 .. blanks - 1 : y = x - 1 /\ y + 1 = x
      BY ONLY <2>2, x \in 1 .. blanks
    <3> QED BY ONLY <2>1, <2>4, <3>1
  <2>5. ASSUME Blank(s, blanks)
        PROVE  \A x \in 0 .. blanks - 1 : At(s, x) \in {9, 10, 11, 12, 13, 32}
    BY ONLY <2>1, <2>3, <2>5 DEF Blank
  <2> QED BY ONLY <2>4, <2>5 DEF Blank
<1> DEFINE Inside == from < end
<1>4. ASSUME Inside
      PROVE  /\ s[blanks + 1] = At(s, blanks) /\ s[from + 1] = At(s, from)
             /\ prefix = 2 => s[from - 1] = At(s, from - 2) /\ s[from] = At(s, from - 1)
  <2>1. blanks < Len(s) /\ from < Len(s)
    BY <1>1, <1>2, <1>4
  <2>2. ASSUME prefix = 2 PROVE s[from - 1] = At(s, from - 2) /\ s[from] = At(s, from - 1)
    <3>1. PICK x \in Nat, y \in Nat : /\ x = from - 2 /\ y = from - 1 /\ x < Len(s) /\ y < Len(s)
                                   /\ x + 1 = from - 1 /\ y + 1 = from
      <4>1. from - 2 \in Nat /\ from - 1 \in Nat
        BY ONLY <1>1, <1>2, <2>2, blanks \in 0 .. Len(s), sign \in {0, 1}
      <4> QED BY ONLY <1>1, <2>1, <4>1, from \in Nat
    <3>2. s[x + 1] = At(s, x) /\ s[y + 1] = At(s, y)
      BY ONLY <3>1, s \in Texts, FormAt
    <3> QED BY ONLY <3>1, <3>2
  <2> QED BY <1>1, <2>1, <2>2, FormAt
<1>5. ASSUME Inside
      PROVE  (\A x \in from + 1 .. end : DigitValue[s[x]] < b)
               <=> \A x \in from .. end - 1 : DigitAt(s, x) < b
  <2>1. \A x \in from .. end - 1 : DigitValue[s[x + 1]] = DigitAt(s, x)
    BY <1>1, FormAt
  <2>2. \A x \in from + 1 .. end : x - 1 \in from .. end - 1 /\ (x - 1) + 1 = x
    BY <1>1
  <2>3. \A x \in from .. end - 1 : x + 1 \in from + 1 .. end
    BY <1>1
  <2> QED BY ONLY <2>1, <2>2, <2>3
<1>6. prefix = 0 => from = blanks + sign
  BY <1>1, <1>2
<1>7. prefix = 2 => from - 2 = blanks + sign /\ from - 1 = blanks + sign + 1
  BY <1>1, <1>2
<1>9. /\ f \in [blanks : 0 .. Len(s), sign : {0, 1}, prefix : {0, 2},
                base : {base, 8, 10, 16} \ {0}, end : 1 .. Len(s)]
      /\ f.blanks = blanks /\ f.sign = sign /\ f.prefix = prefix /\ f.base = b /\ f.end = end
  BY ONLY f = [blanks |-> blanks, sign |-> sign, prefix |-> prefix, base |-> b, end |-> end],
          blanks \in 0 .. Len(s), sign \in {0, 1}, prefix \in {0, 2},
          b \in {base, 8, 10, 16} \ {0}, end \in 1 .. Len(s)
<1>10. f \in Numerals(s, base)
         <=> /\ Blank(s, blanks) /\ from < end
             /\ sign = 1 => s[blanks + 1] \in {43, 45}
             /\ prefix = 2 => base \in {0, 16} /\ s[from - 1] = 48 /\ s[from] \in {88, 120}
             /\ b = (IF prefix = 2 THEN 16
                     ELSE IF base /= 0 THEN base ELSE IF s[from + 1] = 48 THEN 8 ELSE 10)
             /\ \A x \in from + 1 .. end : DigitValue[s[x]] < b
  BY ONLY <1>2, <1>9 DEF Numerals
<1>11. CASE ~ Inside
  BY ONLY <1>2, <1>10, <1>11 DEF IsForm
<1>12. CASE Inside
  <2>1. (prefix = 2 => base \in {0, 16} /\ s[from - 1] = 48 /\ s[from] \in {88, 120})
          <=> (prefix = 2 => /\ base \in {0, 16} /\ At(s, blanks + sign) = 48
                             /\ At(s, blanks + sign + 1) \in {88, 120})
    BY ONLY <1>4, <1>7, <1>12
  <2>2. (IF prefix = 2 THEN 16
         ELSE IF base /= 0 THEN base ELSE IF s[from + 1] = 48 THEN 8 ELSE 10)
        = (IF prefix = 2 THEN 16
           ELSE IF base /= 0 THEN base ELSE IF At(s, blanks + sign) = 48 THEN 8 ELSE 10)
    BY ONLY <1>4, <1>6, <1>12, prefix \in {0, 2}
  <2>3. s[blanks + 1] = At(s, blanks)
    BY <1>4, <1>12
  <2>4. (\A x \in from + 1 .. end : DigitValue[s[x]] < b)
          <=> \A x \in from .. end - 1 : DigitAt(s, x) < b
    BY ONLY <1>5, <1>12
  <2> QED BY ONLY <1>2, <1>3, <1>10, <1>12, <2>1, <2>2, <2>3, <2>4,
              blanks \in 0 .. Len(s), sign \in {0, 1}, prefix \in {0, 2}, end \in 1 .. Len(s)
              DEF IsForm
<1> QED BY <1>11, <1>12

(* Every form of a text is the form that Convert finds, or is shorter. *)
LEMMA FormsAre ==
  ASSUME NEW s \in Texts, NEW base \in {0} \cup 2 .. 36,
         NEW n, NEW orig, NEW at, NEW b \in 2 .. 36, NEW end, Parsed(s, base, n, orig, at, b, end),
         NEW blanks, NEW sign, NEW prefix, NEW digits, NEW last,
         IsForm(s, base, blanks, sign, prefix, digits, last)
  PROVE  /\ blanks = n /\ sign = orig - n
         /\ \/ prefix = at - orig /\ digits = b /\ last <= end
            \/ at = orig + 2 /\ last <= orig + 1
<1>1. /\ Len(s) \in Nat /\ n \in 0 .. Len(s) /\ orig \in 0 .. Len(s) /\ at \in 0 .. Len(s)
      /\ end \in at .. Len(s) /\ blanks \in 0 .. Len(s) /\ sign \in {0, 1} /\ prefix \in {0, 2}
      /\ last \in 1 .. Len(s)
  BY DEF Parsed, IsForm, Texts
<1>2. PICK from \in Nat : from = blanks + sign + prefix /\ from < last
  BY <1>1 DEF IsForm
<1>3. digits <= 36 /\ DigitAt(s, from) < digits /\ digits \in Nat
  <2>1. digits \in {8, 10, 16} \cup {base} /\ (digits = base => base /= 0) /\ digits \in Nat
    BY DEF IsForm
  <2>2. from \in blanks + sign + prefix .. last - 1
    BY <1>1, <1>2
  <2> QED BY ONLY <2>1, <2>2, base \in {0} \cup 2 .. 36,
                  IsForm(s, base, blanks, sign, prefix, digits, last) DEF IsForm
<1>4. DigitAt(s, from) /= 36
  BY <1>3
<1>5. At(s, from) \notin {9, 10, 11, 12, 13, 32, 43, 45}
  BY <1>4, NoDigitAt
<1>6. blanks = n
  <2>1. ~ (n < blanks)
    <3>1. n < blanks => n \in 0 .. blanks - 1
      BY <1>1
    <3> QED BY ONLY <3>1, Parsed(s, base, n, orig, at, b, end),
                    IsForm(s, base, blanks, sign, prefix, digits, last) DEF Parsed, IsForm
  <2>2. ~ (blanks < n)
    <3> SUFFICES ASSUME blanks < n PROVE FALSE
      OBVIOUS
    <3>1. At(s, blanks) \in {9, 10, 11, 12, 13, 32}
      <4>1. blanks \in 0 .. n - 1
        BY <1>1
      <4> QED BY ONLY <4>1, Parsed(s, base, n, orig, at, b, end) DEF Parsed
    <3>2. sign = 0
      BY ONLY <3>1, <1>1, IsForm(s, base, blanks, sign, prefix, digits, last) DEF IsForm
    <3>3. blanks + sign = blanks
      BY <1>1, <3>2
    <3>4. prefix = 0
      BY ONLY <3>1, <3>3, <1>1, IsForm(s, base, blanks, sign, prefix, digits, last) DEF IsForm
    <3>5. from = blanks
      BY <1>1, <1>2, <3>2, <3>4
    <3> QED BY ONLY <1>5, <3>1, <3>5
  <2> QED BY ONLY <1>1, <2>1, <2>2
<1>7. sign = orig - n
  <2>1. orig = IF At(s, n) \in {43, 45} THEN n + 1 ELSE n
    BY DEF Parsed
  <2>2. sign = 1 => At(s, n) \in {43, 45}
    BY <1>6 DEF IsForm
  <2>3. At(s, n) \in {43, 45} => sign /= 0
    <3> SUFFICES ASSUME At(s, n) \in {43, 45}, sign = 0 PROVE FALSE
      OBVIOUS
    <3>1. blanks + sign = n
      BY <1>1, <1>6
    <3>2. prefix = 0
      BY ONLY <3>1, <1>1, At(s, n) \in {43, 45},
              IsForm(s, base, blanks, sign, prefix, digits, last) DEF IsForm
    <3>3. from = n
      BY <1>1, <1>2, <3>1, <3>2
    <3> QED BY ONLY <1>5, <3>3, At(s, n) \in {43, 45}
  <2> QED BY ONLY <1>1, <2>1, <2>2, <2>3
<1>8. blanks + sign = orig
  BY <1>1, <1>6, <1>7
<1>9. from = orig + prefix
  BY <1>1, <1>2, <1>8
<1>10. \A x \in from .. last - 1 : DigitAt(s, x) < digits
  BY ONLY <1>2, IsForm(s, base, blanks, sign, prefix, digits, last) DEF IsForm
<1>11. at = orig + 2 <=> /\ base \in {0, 16} /\ At(s, orig) = 48
                         /\ At(s, orig + 1) \in {88, 120} /\ DigitAt(s, orig + 2) < 16
  BY DEF Parsed
<1>12. /\ at \in {orig, orig + 2} /\ DigitAt(s, end) >= b
       /\ b = IF at = orig + 2 THEN 16
              ELSE IF base /= 0 THEN base ELSE IF At(s, orig) = 48 THEN 8 ELSE 10
  BY DEF Parsed
<1>13. digits = IF prefix = 2 THEN 16
                ELSE IF base /= 0 THEN base ELSE IF At(s, orig) = 48 THEN 8 ELSE 10
  BY ONLY <1>8, IsForm(s, base, blanks, sign, prefix, digits, last) DEF IsForm
<1>14. ASSUME from = at, digits = b PROVE last <= end
  <2> SUFFICES ASSUME end < last PROVE FALSE
    BY <1>1
  <2>1. end \in from .. last - 1 /\ end \in Nat
    BY <1>1, <1>14
  <2>2. DigitAt(s, end) \in Nat
    BY <2>1, DigitAtIs
  <2> QED BY ONLY <1>10, <1>12, <1>14, <2>1, <2>2, b \in 2 .. 36
<1>15. CASE prefix = 2
  <2>1. base \in {0, 16} /\ At(s, orig) = 48 /\ At(s, orig + 1) \in {88, 120}
    BY ONLY <1>8, <1>15, IsForm(s, base, blanks, sign, prefix, digits, last) DEF IsForm
  <2>2. digits = 16 /\ from = orig + 2
    BY <1>9, <1>13, <1>15
  <2>3. at = orig + 2
    BY ONLY <1>3, <1>11, <2>1, <2>2
  <2> QED BY ONLY <1>1, <1>6, <1>7, <1>12, <1>14, <1>15, <2>2, <2>3
<1>16. CASE prefix = 0 /\ at = orig
  <2>1. digits = b /\ from = at
    BY ONLY <1>1, <1>9, <1>12, <1>13, <1>16
  <2> QED BY ONLY <1>1, <1>6, <1>7, <1>14, <1>16, <2>1
<1>17. CASE prefix = 0 /\ at = orig + 2
  <2>1. DigitAt(s, orig + 1) = 33
    BY <1>11, <1>17, PrefixAt
  <2>2. digits \in {8, 16}
    BY ONLY <1>11, <1>13, <1>17, base \in {0} \cup 2 .. 36
  <2>3. last <= orig + 1
    <3> SUFFICES ASSUME orig + 1 < last PROVE FALSE
      BY <1>1
    <3>1. orig + 1 \in from .. last - 1
      BY <1>1, <1>9, <1>17
    <3> QED BY ONLY <1>10, <2>1, <2>2, <3>1
  <2> QED BY <1>6, <1>7, <1>17, <2>3
<1> QED BY <1>1, <1>12, <1>15, <1>16, <1>17

-----------------------------------------------------------------------------
(* The form that is found is the longest. *)

(* The form that Convert finds, and the number it stands for. *)
Found(n, orig, at, b, end) ==
  [blanks |-> n, sign |-> orig - n, prefix |-> at - orig, base |-> b, end |-> end]
Amount(s, at, b, end) == Positional(DigitsAt(s, at, end - at), b)

(* A form is a record of its fields. *)
LEMMA NumeralFields ==
  ASSUME NEW s \in Texts, NEW base \in {0} \cup 2 .. 36, NEW f \in Numerals(s, base)
  PROVE  /\ f = [blanks |-> f.blanks, sign |-> f.sign, prefix |-> f.prefix, base |-> f.base,
                 end |-> f.end]
         /\ IsForm(s, base, f.blanks, f.sign, f.prefix, f.base, f.end)
         /\ f.end \in Nat
<1>1. f \in [blanks : 0 .. Len(s), sign : {0, 1}, prefix : {0, 2}, base : {base, 8, 10, 16} \ {0},
             end : 1 .. Len(s)]
  BY ONLY f \in Numerals(s, base) DEF Numerals
<1>2. PICK blanks \in 0 .. Len(s), sign \in {0, 1}, prefix \in {0, 2},
           b \in {base, 8, 10, 16} \ {0}, end \in 1 .. Len(s) :
        /\ f.blanks = blanks /\ f.sign = sign /\ f.prefix = prefix /\ f.base = b /\ f.end = end
        /\ f = [blanks |-> blanks, sign |-> sign, prefix |-> prefix, base |-> b, end |-> end]
  BY ONLY <1>1
<1>3. IsForm(s, base, blanks, sign, prefix, b, end)
  BY ONLY <1>2, NumeralIs, s \in Texts, base \in {0} \cup 2 .. 36, f \in Numerals(s, base)
<1>4. end \in Nat
  BY DEF Texts
<1> QED BY ONLY <1>2, <1>3, <1>4

(* What is parsed of a text: the prefix has a digit behind it. *)
FormPlaces(s, n, orig, at, end) ==
  /\ Len(s) \in Nat /\ n \in 0 .. Len(s) /\ orig \in 0 .. Len(s) /\ at \in 0 .. Len(s)
  /\ end \in at .. Len(s) /\ n \in Nat /\ orig \in Nat /\ at \in Nat /\ end \in Nat
  /\ orig - n \in {0, 1} /\ at - orig \in {0, 2}
  /\ end /= orig => end > at
  /\ end = orig => at = orig

(* What has been parsed, in numbers. *)
LEMMA ParsedFields ==
  ASSUME NEW s \in Texts, NEW base \in {0} \cup 2 .. 36,
         NEW n, NEW orig, NEW at, NEW b \in 2 .. 36, NEW end, Parsed(s, base, n, orig, at, b, end)
  PROVE  FormPlaces(s, n, orig, at, end)
<1>1. /\ Len(s) \in Nat /\ n \in 0 .. Len(s) /\ orig \in 0 .. Len(s) /\ at \in 0 .. Len(s)
      /\ end \in at .. Len(s)
  BY DEF Parsed, Texts
<1>2. orig = (IF At(s, n) \in {43, 45} THEN n + 1 ELSE n) /\ at \in {orig, orig + 2}
  BY DEF Parsed
<1>3. ~ (at = orig + 2 /\ end = at)
  <2>1. at = orig + 2 => b = 16 /\ DigitAt(s, at) < 16
    BY DEF Parsed
  <2>2. DigitAt(s, end) >= b /\ DigitAt(s, end) \in Nat
    <3>1. end \in Nat
      BY <1>1
    <3> QED BY ONLY <3>1, s \in Texts, Parsed(s, base, n, orig, at, b, end), DigitAtIs DEF Parsed
  <2> QED BY ONLY <2>1, <2>2
<1> QED BY <1>1, <1>2, <1>3 DEF FormPlaces

(* A digit behind the prefix makes what was parsed a form of the text. *)
LEMMA FoundIs ==
  ASSUME NEW s \in Texts, NEW base \in {0} \cup 2 .. 36,
         NEW n, NEW orig, NEW at, NEW b \in 2 .. 36, NEW end, Parsed(s, base, n, orig, at, b, end)
  PROVE  /\ end = orig => Numerals(s, base) = {}
         /\ end /= orig => /\ Numerals(s, base) /= {}
                           /\ Longest(Numerals(s, base)) = Found(n, orig, at, b, end)
<1>1. /\ Len(s) \in Nat /\ n \in 0 .. Len(s) /\ orig \in 0 .. Len(s) /\ at \in 0 .. Len(s)
      /\ end \in at .. Len(s) /\ n \in Nat /\ orig \in Nat /\ at \in Nat /\ end \in Nat
      /\ orig - n \in {0, 1} /\ at - orig \in {0, 2}
      /\ end /= orig => end > at
      /\ end = orig => at = orig
  <2>1. FormPlaces(s, n, orig, at, end)
    BY ParsedFields
  <2> QED BY ONLY <2>1 DEF FormPlaces
<1>2. \A f \in Numerals(s, base) :
        /\ f.blanks = n /\ f.sign = orig - n /\ f.end \in Nat
        /\ \/ f.prefix = at - orig /\ f.base = b /\ f.end <= end
           \/ at = orig + 2 /\ f.end <= orig + 1
        /\ f.blanks + f.sign + f.prefix < f.end /\ f.prefix \in {0, 2}
        /\ f = [blanks |-> f.blanks, sign |-> f.sign, prefix |-> f.prefix, base |-> f.base,
                end |-> f.end]
  <2> TAKE f \in Numerals(s, base)
  <2>1. /\ f = [blanks |-> f.blanks, sign |-> f.sign, prefix |-> f.prefix, base |-> f.base,
                end |-> f.end]
        /\ IsForm(s, base, f.blanks, f.sign, f.prefix, f.base, f.end)
        /\ f.end \in Nat
    BY ONLY NumeralFields, s \in Texts, base \in {0} \cup 2 .. 36, f \in Numerals(s, base)
  <2>2. /\ f.blanks = n /\ f.sign = orig - n
        /\ \/ f.prefix = at - orig /\ f.base = b /\ f.end <= end
           \/ at = orig + 2 /\ f.end <= orig + 1
    BY ONLY <2>1, FormsAre, s \in Texts, base \in {0} \cup 2 .. 36, b \in 2 .. 36,
            Parsed(s, base, n, orig, at, b, end)
  <2>3. f.blanks + f.sign + f.prefix < f.end /\ f.prefix \in {0, 2}
    BY ONLY <2>1 DEF IsForm
  <2> QED BY ONLY <2>1, <2>2, <2>3
<1>3. CASE end = orig
  <2>1. \A f \in Numerals(s, base) : FALSE
    <3> TAKE f \in Numerals(s, base)
    <3>1. /\ f.blanks = n /\ f.sign = orig - n /\ f.end \in Nat /\ f.end <= end
          /\ f.blanks + f.sign + f.prefix < f.end /\ f.prefix \in {0, 2}
      BY ONLY <1>1, <1>2, <1>3, f \in Numerals(s, base)
    <3> QED BY ONLY <1>1, <1>3, <3>1
  <2> QED BY <1>3, <2>1
<1>4. CASE end /= orig
  <2>1. PICK sign \in {0, 1}, prefix \in {0, 2} : sign = orig - n /\ prefix = at - orig
    BY <1>1
  <2>2. end \in 1 .. Len(s) /\ n + sign = orig /\ n + sign + prefix = at /\ at < end
        /\ n + sign + 1 = orig + 1
    BY <1>1, <1>4, <2>1
  <2>3. b \in {base, 8, 10, 16} \ {0}
    BY DEF Parsed
  <2>4. IsForm(s, base, n, sign, prefix, b, end)
    <3>1. sign = 1 => At(s, n) \in {43, 45}
      BY ONLY <1>1, <2>1, Parsed(s, base, n, orig, at, b, end) DEF Parsed
    <3>2. prefix = 2 <=> at = orig + 2
      BY <1>1, <2>1
    <3>3. prefix = 2 => base \in {0, 16} /\ At(s, orig) = 48 /\ At(s, orig + 1) \in {88, 120}
      BY ONLY <3>2, Parsed(s, base, n, orig, at, b, end) DEF Parsed
    <3>4. b = (IF prefix = 2 THEN 16
               ELSE IF base /= 0 THEN base ELSE IF At(s, orig) = 48 THEN 8 ELSE 10)
      BY ONLY <3>2, Parsed(s, base, n, orig, at, b, end) DEF Parsed
    <3>5. /\ \A x \in 0 .. n - 1 : At(s, x) \in {9, 10, 11, 12, 13, 32}
          /\ \A x \in at .. end - 1 : DigitAt(s, x) < b
      BY ONLY Parsed(s, base, n, orig, at, b, end) DEF Parsed
    <3> QED BY ONLY <1>1, <2>1, <2>2, <3>1, <3>3, <3>4, <3>5 DEF IsForm
  <2>5. PICK found : found = Found(n, orig, at, b, end)
    OBVIOUS
  <2>6. /\ found = [blanks |-> n, sign |-> sign, prefix |-> prefix, base |-> b, end |-> end]
        /\ found.end = end
    BY ONLY <2>1, <2>5 DEF Found
  <2>7. found \in Numerals(s, base)
    BY ONLY <2>2, <2>3, <2>4, <2>6, <1>1, NumeralIs, s \in Texts, base \in {0} \cup 2 .. 36
  <2>8. \A f \in Numerals(s, base) : f.end <= found.end
    <3> TAKE f \in Numerals(s, base)
    <3>1. f.end \in Nat /\ (f.end <= end \/ (at = orig + 2 /\ f.end <= orig + 1))
      BY ONLY <1>2, f \in Numerals(s, base)
    <3> QED BY ONLY <1>1, <2>6, <3>1
  <2>9. PICK longest : longest = Longest(Numerals(s, base))
    OBVIOUS
  <2>10. longest \in Numerals(s, base) /\ \A f \in Numerals(s, base) : f.end <= longest.end
    <3>1. \E f \in Numerals(s, base) : \A g \in Numerals(s, base) : g.end <= f.end
      BY ONLY <2>7, <2>8
    <3> QED BY ONLY <2>9, <3>1 DEF Longest
  <2>11. longest.end \in Nat /\ longest.end = end
    <3>1. longest.end \in Nat
      BY ONLY <1>2, <2>10
    <3> QED BY ONLY <1>1, <2>6, <2>7, <2>8, <2>10, <3>1
  <2>12. longest.prefix = prefix /\ longest.base = b
    <3>1. ~ (at = orig + 2 /\ longest.end <= orig + 1)
      BY ONLY <1>1, <2>2, <2>11
    <3> QED BY ONLY <1>2, <2>1, <2>10, <3>1
  <2>13. longest = found
    <3>1. longest.blanks = n /\ longest.sign = sign
      BY ONLY <1>2, <2>1, <2>10
    <3>2. longest = [blanks |-> longest.blanks, sign |-> longest.sign, prefix |-> longest.prefix,
                     base |-> longest.base, end |-> longest.end]
      BY ONLY <1>2, <2>10
    <3> QED BY ONLY <2>6, <2>11, <2>12, <3>1, <3>2
  <2> QED BY ONLY <1>4, <2>5, <2>7, <2>9, <2>13
<1> QED BY <1>3, <1>4

FormIs(s, f, end, m, neg) ==
  f.end = end /\ Magnitude(s, f) = m /\ (Negative(s, f) <=> neg)

(* The form that was parsed is the longest, and has the amount. *)
LEMMA FoundDenotes ==
  ASSUME NEW s \in Texts, NEW base \in {0} \cup 2 .. 36,
         NEW n, NEW orig, NEW at, NEW b \in 2 .. 36, NEW end, Parsed(s, base, n, orig, at, b, end),
         end /= orig, NEW f, f = Found(n, orig, at, b, end)
  PROVE  FormIs(s, f, end, Amount(s, at, b, end), At(s, n) = 45)
<1>1. /\ Len(s) \in Nat /\ n \in Nat /\ orig \in Nat /\ at \in Nat /\ end \in Nat /\ end <= Len(s)
      /\ orig - n \in {0, 1} /\ at - orig \in {0, 2} /\ end > at
  <2>1. FormPlaces(s, n, orig, at, end)
    BY ParsedFields
  <2>2. Len(s) \in Nat /\ end \in at .. Len(s) /\ at \in Nat => end <= Len(s)
    OBVIOUS
  <2> QED BY ONLY <2>1, <2>2, end /= orig DEF FormPlaces
<1>2. f.blanks = n /\ f.sign = orig - n /\ f.prefix = at - orig /\ f.base = b /\ f.end = end
  BY ONLY f = Found(n, orig, at, b, end) DEF Found
<1>3. f.blanks + f.sign + f.prefix = at
  BY ONLY <1>1, <1>2
<1>4. PICK m \in Nat : m = end - at
  BY <1>1
<1>5. \A x \in 1 .. m : s[at + x] = At(s, at + x - 1)
  <2> TAKE x \in 1 .. m
  <2>1. PICK y \in Nat : y = at + x - 1 /\ y < Len(s) /\ y + 1 = at + x
    <3>1. at + x - 1 \in Nat
      BY <1>1
    <3> QED BY ONLY <1>1, <1>4, <3>1, x \in 1 .. m
  <2>2. s[y + 1] = At(s, y)
    BY ONLY <2>1, s \in Texts, FormAt
  <2> QED BY ONLY <2>1, <2>2
<1>6. [x \in 1 .. m |-> DigitValue[s[at + x]]] = DigitsAt(s, at, m)
  BY ONLY <1>5 DEF DigitsAt
<1>7. Magnitude(s, f) = Amount(s, at, b, end)
  BY ONLY <1>2, <1>3, <1>4, <1>6 DEF Magnitude, Amount
<1>8. s[n + 1] = At(s, n)
  <2>1. n < Len(s)
    BY <1>1
  <2> QED BY ONLY <1>1, <2>1, s \in Texts, FormAt
<1>9. orig = IF At(s, n) \in {43, 45} THEN n + 1 ELSE n
  BY DEF Parsed
<1>10. Negative(s, f) <=> At(s, n) = 45
  BY ONLY <1>1, <1>2, <1>8, <1>9 DEF Negative
<1> QED BY ONLY <1>2, <1>7, <1>10 DEF FormIs

-----------------------------------------------------------------------------
(* strtoul and strtoull. *)

(* What Convert returns for a number and a sign. *)
Nothing == [value |-> 0, end |-> 0, errno |-> "EINVAL"]
Converted(v, neg, end, N) ==
  [value |-> IF v >= N THEN N - 1 ELSE IF neg /\ v > 0 THEN N - v ELSE v,
   end |-> end, errno |-> IF v >= N THEN "ERANGE" ELSE Kept]

ConvertsTo(s, n, orig, at, b, end, N, out) ==
  IF end = orig THEN out = Nothing
  ELSE /\ Amount(s, at, b, end) \in Nat
       /\ out = Converted(Amount(s, at, b, end), At(s, n) = 45, end, N)

(* A conversion gives what was accumulated. *)
LEMMA ConvertIs ==
  ASSUME NEW s \in Texts, NEW base \in {0} \cup 2 .. 36,
         NEW bits, NEW M, IsWidth(bits, M), NEW signed \in BOOLEAN,
         NEW out, out = Convert(s, base, bits, signed)
  PROVE  \E n, orig, at, b, end :
           /\ b \in 2 .. 36 /\ Parsed(s, base, n, orig, at, b, end)
           /\ ConvertsTo(s, n, orig, at, b, end, 256 * M, out)
<1>1. PICK n : n = Skip(s, 0, Spaces)
  OBVIOUS
<1>2. PICK orig : orig = IF At(s, n) \in {Ascii.minus, Ascii.plus} THEN n + 1 ELSE n
  OBVIOUS
<1>3. PICK prefix : prefix = Prefix(s, orig, base)
  OBVIOUS
<1>4. PICK at, b : at = prefix.at /\ b = prefix.base
  OBVIOUS
<1>5. PICK end : end = Skip(s, at, DigitsOf(b))
  OBVIOUS
<1>6. /\ Parsed(s, base, n, orig, at, b, end) /\ b \in 2 .. 36
      /\ \A x \in at .. end - 1 : DigitOf(At(s, x)) < b
  BY ONLY <1>1, <1>2, <1>3, <1>4, <1>5, ParsedIs, s \in Texts, base \in {0} \cup 2 .. 36
<1>7. FormPlaces(s, n, orig, at, end)
  BY ONLY <1>6, ParsedFields, s \in Texts, base \in {0} \cup 2 .. 36
<1>8. PICK neg \in BOOLEAN : neg <=> At(s, n) = 45
  OBVIOUS
<1>9. PICK acc : acc = Accumulate(s, at, end, b, bits, signed)
  OBVIOUS
<1>10. PICK N \in Nat \ {0} : N = 256 * M /\ Power(2, bits) = N /\ ULongMax(bits) = N - 1
  BY DEF IsWidth, ULongMax
<1>11. PICK v : v = Amount(s, at, b, end)
  OBVIOUS
<1>12. v \in Nat /\ (acc.overflow <=> v >= N) /\ (v < N => acc.v = v)
  <2>1. PICK m \in Nat : /\ m = end - at /\ at + m = end /\ at + m <= Len(s) /\ at \in Nat
                         /\ Len(s) \in Nat
    BY ONLY <1>7 DEF FormPlaces
  <2>2. AreDigits(s, at, m, b)
    <3>1. \A x \in 1 .. m : at + x - 1 \in at .. end - 1
      BY ONLY <2>1
    <3> QED BY ONLY <1>6, <3>1 DEF AreDigits
  <2>3. v = Positional(DigitsAt(s, at, m), b)
    BY ONLY <1>11, <2>1 DEF Amount
  <2>4. acc = Accumulate(s, at, at + m, b, bits, signed)
    BY ONLY <1>9, <2>1
  <2>5. IsTotal(acc, v, M)
    BY ONLY <1>6, <2>1, <2>2, <2>3, <2>4, AccumulateIs, s \in Texts, signed \in BOOLEAN,
            IsWidth(bits, M), m \in Nat
  <2> QED BY ONLY <1>10, <2>5 DEF IsTotal
<1>13. out = IF end = orig THEN Nothing
             ELSE IF acc.overflow
               THEN [value |-> N - 1, end |-> end, errno |-> "ERANGE"]
               ELSE [value |-> (IF neg THEN -acc.v ELSE acc.v) % N, end |-> end, errno |-> Kept]
  <2>1. ~ (base /= 0 /\ base \notin 2 .. 36)
    OBVIOUS
  <2>2. neg <=> At(s, n) = Ascii.minus
    BY ONLY <1>8 DEF Ascii
  <2>3. out = IF end = orig THEN Nothing
              ELSE IF acc.overflow
                THEN [value |-> ULongMax(bits), end |-> end, errno |-> "ERANGE"]
                ELSE [value |-> (IF At(s, n) = Ascii.minus THEN -acc.v ELSE acc.v) % Power(2, bits),
                      end |-> end, errno |-> Kept]
    BY ONLY <1>1, <1>2, <1>3, <1>4, <1>5, <1>9, <2>1, out = Convert(s, base, bits, signed)
       DEF Convert, Nothing
  <2> QED BY ONLY <1>10, <2>2, <2>3
<1>14. v < N => (IF neg THEN -v ELSE v) % N = IF neg /\ v > 0 THEN N - v ELSE v
  <2> SUFFICES ASSUME v < N
               PROVE  (IF neg THEN -v ELSE v) % N = IF neg /\ v > 0 THEN N - v ELSE v
    OBVIOUS
  <2>1. CASE neg /\ v > 0
    <3>1. PICK u \in Int : u = -v /\ - N <= u /\ u < 0 /\ u + N = N - v
      BY ONLY <1>12, v < N, N \in Nat, <2>1
    <3>2. u % N = u + N
      BY ONLY <3>1, N \in Nat \ {0}, RemainderIs
    <3> QED BY ONLY <2>1, <3>1, <3>2
  <2>2. CASE ~ (neg /\ v > 0)
    <3>1. (IF neg THEN -v ELSE v) = v
      BY ONLY <1>12, <2>2
    <3>2. v % N = v
      <4>1. v \in Int /\ 0 <= v
        BY ONLY <1>12
      <4> QED BY ONLY <4>1, v < N, N \in Nat \ {0}, RemainderIs
    <3> QED BY ONLY <2>2, <3>1, <3>2
  <2> QED BY ONLY <2>1, <2>2
<1>15. ConvertsTo(s, n, orig, at, b, end, 256 * M, out)
  <2>1. CASE end = orig
    BY ONLY <1>13, <2>1 DEF ConvertsTo
  <2>2. CASE end /= orig /\ v >= N
    <3>1. out = [value |-> N - 1, end |-> end, errno |-> "ERANGE"]
      BY ONLY <1>12, <1>13, <2>2
    <3>2. out = Converted(v, At(s, n) = 45, end, N)
      BY ONLY <2>2, <3>1 DEF Converted
    <3> QED BY ONLY <1>10, <1>11, <1>12, <2>2, <3>2 DEF ConvertsTo
  <2>3. CASE end /= orig /\ ~ (v >= N)
    <3>1. v < N
      BY ONLY <1>12, <2>3, N \in Nat
    <3>2. out = [value |-> IF neg /\ v > 0 THEN N - v ELSE v, end |-> end, errno |-> Kept]
      BY ONLY <1>12, <1>13, <1>14, <2>3, <3>1
    <3>3. out = Converted(v, At(s, n) = 45, end, N)
      BY ONLY <1>8, <2>3, <3>2 DEF Converted
    <3> QED BY ONLY <1>10, <1>11, <1>12, <2>3, <3>3 DEF ConvertsTo
  <2> QED BY ONLY <2>1, <2>2, <2>3
<1> QED BY ONLY <1>6, <1>15

(* strtoul and strtoull convert the longest numeral. *)
LEMMA UnsignedRight ==
  ASSUME NEW s \in Texts, NEW base \in Int, NEW bits, NEW M, IsWidth(bits, M),
         NEW signed \in BOOLEAN, NEW out, out = Convert(s, base, bits, signed)
  PROVE  UnsignedDenotes(s, base, bits, out)
<1>1. CASE base \notin {0} \cup 2 .. 36
  <2>1. out = [value |-> 0, end |-> Unset, errno |-> "EINVAL"]
    BY ONLY <1>1, out = Convert(s, base, bits, signed) DEF Convert
  <2>2. out.value = 0 /\ out.errno = "EINVAL"
    BY ONLY <2>1
  <2> QED BY ONLY <1>1, <2>2 DEF UnsignedDenotes
<1>2. CASE base \in {0} \cup 2 .. 36
  <2>1. PICK n, orig, at, b, end :
          /\ b \in 2 .. 36 /\ Parsed(s, base, n, orig, at, b, end)
          /\ ConvertsTo(s, n, orig, at, b, end, 256 * M, out)
    BY ONLY <1>2, ConvertIs, s \in Texts, IsWidth(bits, M), signed \in BOOLEAN,
            out = Convert(s, base, bits, signed)
  <2>2. CASE end = orig
    <3>1. Numerals(s, base) = {}
      BY ONLY <1>2, <2>1, <2>2, FoundIs, s \in Texts
    <3>2. out = Nothing
      BY ONLY <2>1, <2>2 DEF ConvertsTo
    <3> QED BY ONLY <1>2, <3>1, <3>2 DEF UnsignedDenotes, Nothing
  <2>3. CASE end /= orig
    <3>1. PICK f : f = Longest(Numerals(s, base))
      OBVIOUS
    <3>2. Numerals(s, base) /= {} /\ f = Found(n, orig, at, b, end)
      <4>1. Numerals(s, base) /= {} /\ Longest(Numerals(s, base)) = Found(n, orig, at, b, end)
        BY ONLY <1>2, <2>1, <2>3, FoundIs, s \in Texts
      <4> QED BY ONLY <3>1, <4>1
    <3>3. PICK m \in Nat : m = Amount(s, at, b, end)
      BY ONLY <2>1, <2>3 DEF ConvertsTo
    <3>4. f.end = end /\ Magnitude(s, f) = m /\ (Negative(s, f) <=> At(s, n) = 45)
      <4>1. FormIs(s, f, end, m, At(s, n) = 45)
        BY ONLY <1>2, <2>1, <2>3, <3>2, <3>3, FoundDenotes, s \in Texts
      <4> QED BY ONLY <4>1 DEF FormIs
    <3>5. PICK N : N = 256 * M /\ Power(2, bits) = N
      BY DEF IsWidth
    <3>6. out = Converted(m, At(s, n) = 45, end, N)
      BY ONLY <2>1, <2>3, <3>3, <3>5 DEF ConvertsTo
    <3>7. /\ out.end = end
          /\ out.errno = "ERANGE" <=> m >= N
          /\ out.value = IF m >= N THEN N - 1 ELSE IF At(s, n) = 45 /\ m > 0 THEN N - m ELSE m
      BY ONLY <3>6 DEF Converted, Kept
    <3>8. /\ out.end = f.end
          /\ out.errno = "ERANGE" <=> m >= N
          /\ out.value = IF m >= N THEN N - 1 ELSE IF Negative(s, f) /\ m > 0 THEN N - m ELSE m
      BY ONLY <3>4, <3>7
    <3> QED BY ONLY <1>2, <3>1, <3>2, <3>4, <3>5, <3>8 DEF UnsignedDenotes
  <2> QED BY ONLY <2>2, <2>3
<1> QED BY ONLY <1>1, <1>2

-----------------------------------------------------------------------------
(* A text behind its sign. *)

(* What is left of a text behind its first m characters. *)
IsTail(t, s, m) ==
  /\ t \in Texts /\ Len(t) \in Nat /\ Len(s) = Len(t) + m
  /\ \A x \in Nat : At(t, x) = At(s, x + m)

(* A text behind its sign, character by character. *)
LEMMA TailIs ==
  ASSUME NEW s \in Texts, NEW m \in 0 .. Len(s), NEW t, t = SubSeq(s, m + 1, Len(s))
  PROVE  IsTail(t, s, m)
<1>1. Len(s) \in Nat /\ m \in Nat /\ m <= Len(s)
  BY DEF Texts
<1>2. PICK C : C = 1 .. 255
  OBVIOUS
<1>3. s \in Seq(C)
  BY <1>2 DEF Texts
<1>4. /\ t \in Seq(C) /\ Len(t) = Len(s) - m
      /\ \A x \in 1 .. Len(s) - m : t[x] = s[m + x]
  <2>1. \A x \in m + 1 .. Len(s) : s[x] \in C
    <3>1. \A x \in m + 1 .. Len(s) : x \in 1 .. Len(s)
      BY ONLY <1>1
    <3> QED BY ONLY <1>3, <3>1, ElementOfSeq
  <2>2. PICK u \in 1 .. Len(s) + 1 : u = m + 1
    BY ONLY <1>1
  <2>3. /\ t \in Seq(C) /\ Len(t) = (IF u <= Len(s) THEN Len(s) - u + 1 ELSE 0)
        /\ \A x \in 1 .. Len(s) - u + 1 : t[x] = s[u + x - 1]
    BY ONLY <1>1, <1>3, <2>1, <2>2, t = SubSeq(s, m + 1, Len(s)), SubSeqProperties
  <2>4. Len(s) - u + 1 = Len(s) - m /\ \A x \in Int : u + x - 1 = m + x
    BY ONLY <1>1, <2>2
  <2>5. Len(t) = Len(s) - m
    BY ONLY <1>1, <2>2, <2>3
  <2>6. ASSUME NEW x \in 1 .. Len(s) - m PROVE t[x] = s[m + x]
    <3>1. x \in Int /\ x \in 1 .. Len(s) - u + 1
      BY ONLY <1>1, <2>4, x \in 1 .. Len(s) - m
    <3> QED BY ONLY <2>3, <2>4, <3>1
  <2> QED BY ONLY <2>3, <2>5, <2>6
<1>5. ASSUME NEW x \in Nat PROVE At(t, x) = At(s, x + m)
  <2>1. CASE x < Len(t)
    <3>1. x + 1 \in 1 .. Len(s) - m /\ x + m < Len(s) /\ m + (x + 1) = (x + m) + 1
      BY ONLY <1>1, <1>4, <2>1, x \in Nat
    <3>2. t[x + 1] = s[(x + m) + 1]
      BY ONLY <1>4, <3>1
    <3> QED BY ONLY <2>1, <3>1, <3>2 DEF At
  <2>2. CASE ~ (x < Len(t))
    <3>1. ~ (x + m < Len(s))
      BY ONLY <1>1, <1>4, <2>2, x \in Nat
    <3> QED BY ONLY <2>2, <3>1 DEF At
  <2> QED BY ONLY <2>1, <2>2
<1>6. t \in Texts
  BY ONLY <1>2, <1>4 DEF Texts
<1>7. Len(t) \in Nat /\ Len(s) = Len(t) + m
  BY ONLY <1>1, <1>4
<1> QED BY ONLY <1>5, <1>6, <1>7 DEF IsTail

(* A text is taken apart in one way. *)
LEMMA ParsedOnce ==
  ASSUME NEW s \in Texts, NEW base \in {0} \cup 2 .. 36,
         NEW n, NEW orig, NEW at, NEW b \in 2 .. 36, NEW end, Parsed(s, base, n, orig, at, b, end),
         NEW n_, NEW orig_, NEW at_, NEW b_, NEW end_, Parsed(s, base, n_, orig_, at_, b_, end_)
  PROVE  n_ = n /\ orig_ = orig /\ at_ = at /\ b_ = b /\ end_ = end
<1>1. /\ Len(s) \in Nat
      /\ n \in 0 .. Len(s) /\ orig \in 0 .. Len(s) /\ at \in 0 .. Len(s) /\ end \in at .. Len(s)
      /\ n_ \in 0 .. Len(s) /\ orig_ \in 0 .. Len(s) /\ at_ \in 0 .. Len(s)
      /\ end_ \in at_ .. Len(s)
  BY DEF Parsed, Texts
<1>2. n_ = n
  <2>1. n < n_ => n \in 0 .. n_ - 1
    BY <1>1
  <2>2. n_ < n => n_ \in 0 .. n - 1
    BY <1>1
  <2>3. ~ (n < n_) /\ ~ (n_ < n)
    BY ONLY <2>1, <2>2, Parsed(s, base, n, orig, at, b, end),
            Parsed(s, base, n_, orig_, at_, b_, end_) DEF Parsed
  <2> QED BY ONLY <1>1, <2>3
<1>3. orig_ = orig
  BY ONLY <1>2, Parsed(s, base, n, orig, at, b, end),
          Parsed(s, base, n_, orig_, at_, b_, end_) DEF Parsed
<1>4. at_ = at
  <2>1. at_ = orig + 2 <=> at = orig + 2
    BY ONLY <1>3, Parsed(s, base, n, orig, at, b, end),
            Parsed(s, base, n_, orig_, at_, b_, end_) DEF Parsed
  <2>2. at \in {orig, orig + 2} /\ at_ \in {orig, orig + 2}
    BY ONLY <1>3, Parsed(s, base, n, orig, at, b, end),
            Parsed(s, base, n_, orig_, at_, b_, end_) DEF Parsed
  <2> QED BY ONLY <2>1, <2>2
<1>5. b_ = b
  BY ONLY <1>3, <1>4, Parsed(s, base, n, orig, at, b, end),
          Parsed(s, base, n_, orig_, at_, b_, end_) DEF Parsed
<1>6. end_ = end
  <2>1. end < end_ => end \in at .. end_ - 1
    BY ONLY <1>1, <1>4
  <2>2. end_ < end => end_ \in at .. end - 1
    BY ONLY <1>1, <1>4
  <2>3. /\ \A x \in at .. end - 1 : DigitAt(s, x) < b
        /\ \A x \in at .. end_ - 1 : DigitAt(s, x) < b
        /\ DigitAt(s, end) >= b /\ DigitAt(s, end_) >= b
    BY ONLY <1>4, <1>5, Parsed(s, base, n, orig, at, b, end),
            Parsed(s, base, n_, orig_, at_, b_, end_) DEF Parsed
  <2>4. DigitAt(s, end) \in Nat /\ DigitAt(s, end_) \in Nat
    <3>1. end \in Nat /\ end_ \in Nat
      BY ONLY <1>1
    <3> QED BY ONLY <3>1, s \in Texts, DigitAtIs
  <2>5. ~ (end < end_) /\ ~ (end_ < end)
    BY ONLY <2>1, <2>2, <2>3, <2>4, b \in 2 .. 36
  <2> QED BY ONLY <1>1, <2>5
<1> QED BY <1>2, <1>3, <1>4, <1>5, <1>6

(* Without its blanks, or its sign in front of a digit, a text is taken apart *)
(* as before.                                                                *)
LEMMA ParsedTail ==
  ASSUME NEW s \in Texts, NEW base \in {0} \cup 2 .. 36,
         NEW n, NEW orig, NEW at, NEW b \in 2 .. 36, NEW end, Parsed(s, base, n, orig, at, b, end),
         NEW m \in Nat, NEW t, IsTail(t, s, m),
         m = n \/ (m = orig /\ At(s, m) \notin {9, 10, 11, 12, 13, 32, 43, 45})
  PROVE  /\ Parsed(t, base, 0, orig - m, at - m, b, end - m)
         /\ Amount(t, at - m, b, end - m) = Amount(s, at, b, end)
         /\ m <= orig
<1>1. /\ Len(s) \in Nat /\ n \in 0 .. Len(s) /\ orig \in 0 .. Len(s) /\ at \in 0 .. Len(s)
      /\ end \in at .. Len(s) /\ n \in Nat /\ orig \in Nat /\ at \in Nat /\ end \in Nat
      /\ orig - n \in {0, 1} /\ at - orig \in {0, 2}
  <2>1. FormPlaces(s, n, orig, at, end)
    BY ParsedFields
  <2> QED BY ONLY <2>1 DEF FormPlaces
<1>2. PICK o \in Nat, from \in Nat, to \in Nat :
        /\ o = orig - m /\ from = at - m /\ to = end - m
        /\ o + m = orig /\ from + m = at /\ to + m = end /\ to - from = end - at /\ m <= orig
  <2>1. m <= orig /\ orig <= at /\ at <= end
    BY <1>1
  <2>2. orig - m \in Nat /\ at - m \in Nat /\ end - m \in Nat
    BY <1>1, <2>1
  <2> QED BY ONLY <1>1, <2>1, <2>2, m \in Nat
<1>3. Len(t) \in Nat /\ Len(s) = Len(t) + m /\ \A x \in Nat : At(t, x) = At(s, x + m)
  BY DEF IsTail
<1>4. \A x \in Nat : DigitAt(t, x) = DigitAt(s, x + m)
  BY <1>3 DEF DigitAt
<1>5. 0 \in 0 .. Len(t) /\ o \in 0 .. Len(t) /\ from \in 0 .. Len(t) /\ to \in from .. Len(t)
  BY ONLY <1>1, <1>2, <1>3, m \in Nat
<1>6. At(t, 0) = At(s, m)
  BY ONLY <1>3, m \in Nat
<1>7. /\ At(s, n) \notin {9, 10, 11, 12, 13, 32}
      /\ orig = IF At(s, n) \in {43, 45} THEN n + 1 ELSE n
      /\ at \in {orig, orig + 2}
      /\ at = orig + 2 <=> /\ base \in {0, 16} /\ At(s, orig) = 48
                           /\ At(s, orig + 1) \in {88, 120} /\ DigitAt(s, orig + 2) < 16
      /\ b = IF at = orig + 2 THEN 16
             ELSE IF base /= 0 THEN base ELSE IF At(s, orig) = 48 THEN 8 ELSE 10
      /\ \A x \in at .. end - 1 : DigitAt(s, x) < b
      /\ DigitAt(s, end) >= b
  BY ONLY Parsed(s, base, n, orig, at, b, end) DEF Parsed
<1>8. At(t, 0) \notin {9, 10, 11, 12, 13, 32} /\ o = IF At(t, 0) \in {43, 45} THEN 0 + 1 ELSE 0
  <2>1. CASE m = n
    BY ONLY <1>1, <1>2, <1>6, <1>7, <2>1
  <2>2. CASE m = orig /\ At(s, m) \notin {9, 10, 11, 12, 13, 32, 43, 45}
    BY ONLY <1>1, <1>2, <1>6, <2>2
  <2> QED BY <2>1, <2>2
<1>9. from \in {o, o + 2} /\ (from = o + 2 <=> at = orig + 2)
  BY ONLY <1>1, <1>2, m \in Nat
<1>10. /\ At(t, o) = At(s, orig) /\ At(t, o + 1) = At(s, orig + 1)
       /\ DigitAt(t, o + 2) = DigitAt(s, orig + 2) /\ DigitAt(t, to) = DigitAt(s, end)
  <2>1. (o + 1) + m = orig + 1 /\ (o + 2) + m = orig + 2 /\ o + 1 \in Nat /\ o + 2 \in Nat
    BY ONLY <1>2, m \in Nat
  <2> QED BY ONLY <1>2, <1>3, <1>4, <2>1
<1>11. \A x \in from .. to - 1 : DigitAt(t, x) < b
  <2> TAKE x \in from .. to - 1
  <2>1. x \in Nat /\ x + m \in at .. end - 1
    BY ONLY <1>1, <1>2, m \in Nat, x \in from .. to - 1
  <2> QED BY ONLY <1>4, <1>7, <2>1
<1>12. Parsed(t, base, 0, o, from, b, to)
  <2>1. \A x \in 0 .. 0 - 1 : At(t, x) \in {9, 10, 11, 12, 13, 32}
    OBVIOUS
  <2>2. from = o + 2 <=> /\ base \in {0, 16} /\ At(t, o) = 48
                         /\ At(t, o + 1) \in {88, 120} /\ DigitAt(t, o + 2) < 16
    BY ONLY <1>7, <1>9, <1>10
  <2>3. b = IF from = o + 2 THEN 16
            ELSE IF base /= 0 THEN base ELSE IF At(t, o) = 48 THEN 8 ELSE 10
    BY ONLY <1>7, <1>9, <1>10
  <2>4. DigitAt(t, to) >= b
    BY ONLY <1>7, <1>10
  <2> QED BY ONLY <1>5, <1>8, <1>9, <1>11, <2>1, <2>2, <2>3, <2>4 DEF Parsed
<1>13. Amount(t, from, b, to) = Amount(s, at, b, end)
  <2>1. PICK d \in Nat : d = end - at /\ d = to - from
    BY ONLY <1>1, <1>2
  <2>2. \A x \in 1 .. d : At(t, from + x - 1) = At(s, at + x - 1)
    <3> TAKE x \in 1 .. d
    <3>1. PICK y \in Nat : y = from + x - 1 /\ y + m = at + x - 1
      <4>1. from + x - 1 \in Nat
        BY ONLY from \in Nat, x \in 1 .. d, d \in Nat
      <4> QED BY ONLY <1>2, <4>1, m \in Nat, x \in 1 .. d
    <3> QED BY ONLY <1>3, <3>1
  <2>3. DigitsAt(t, from, d) = DigitsAt(s, at, d)
    BY ONLY <2>2 DEF DigitsAt
  <2> QED BY ONLY <2>1, <2>3 DEF Amount
<1> QED BY ONLY <1>2, <1>12, <1>13

-----------------------------------------------------------------------------
(* strtol and strtoll. *)

(* A letter or a digit has a value below 36. *)
LEMMA AlnumAt ==
  ASSUME NEW s \in Texts, NEW x \in Nat
  PROVE  isalnum(At(s, x)) <=> DigitAt(s, x) < 36
<1>1. PICK c \in 0 .. 255 : c = At(s, x)
  BY AtIs
<1>2. ClassRanges(c)
  BY ClassesAre
<1>3. isalnum(c) <=> c \in 48 .. 57 \/ c \in 65 .. 90 \/ c \in 97 .. 122
  BY ONLY <1>2 DEF ClassRanges
<1>4. (c \in 48 .. 57 \/ c \in 65 .. 90 \/ c \in 97 .. 122) <=> DigitValue[c] < 36
  BY DEF DigitValue
<1> QED BY ONLY <1>1, <1>3, <1>4 DEF DigitAt

(* Clamping gives the number with its sign, or the nearest there is. *)
Clamped(v, neg, M) ==
  [value |-> IF v < 128 * M \/ (neg /\ v = 128 * M) THEN IF neg THEN -v ELSE v
             ELSE IF neg THEN - (128 * M) ELSE 128 * M - 1,
   errno |-> IF v < 128 * M THEN Kept ELSE IF neg /\ v = 128 * M THEN "zero" ELSE "ERANGE"]

IsClamped(out, v, neg, M) == out = Clamped(v, neg, M)

(* Clamp stays in the range of a signed word. *)
LEMMA ClampIs ==
  ASSUME NEW bits, NEW M, IsWidth(bits, M), NEW v \in Nat, NEW neg \in BOOLEAN, NEW end,
         NEW N, N = 256 * M, NEW sub, sub = Converted(v, FALSE, end, N),
         NEW out, out = Clamp(sub, neg, bits)
  PROVE  IsClamped(out, v, neg, M)
<1>1. M \in Nat /\ M > 0 /\ LongMax(bits) = 128 * M - 1 /\ LongMin(bits) = - (128 * M)
  BY DEF IsWidth, LongMax, LongMin
<1>2. /\ sub.value = IF v >= 256 * M THEN 256 * M - 1 ELSE v
      /\ sub.errno = IF v >= 256 * M THEN "ERANGE" ELSE Kept
  BY ONLY sub = Converted(v, FALSE, end, N), N = 256 * M DEF Converted
<1>3. ASSUME v < 128 * M PROVE Clamp(sub, neg, bits) = Clamped(v, neg, M)
  <2>1. sub.value = v /\ sub.errno = Kept
    <3>1. ~ (v >= 256 * M)
      BY ONLY <1>1, <1>3, v \in Nat
    <3> QED BY ONLY <1>2, <3>1
  <2>2. v <= 128 * M - 1
    BY <1>1, <1>3
  <2>3. Clamp(sub, neg, bits) = [value |-> IF neg THEN -v ELSE v, errno |-> Kept]
    BY ONLY <1>1, <2>1, <2>2 DEF Clamp
  <2> QED BY ONLY <1>3, <2>3 DEF Clamped
<1>4. ASSUME v >= 128 * M PROVE Clamp(sub, neg, bits) = Clamped(v, neg, M)
  <2>1. ~ (sub.value <= 128 * M - 1) /\ (sub.value = 128 * M <=> v = 128 * M) /\ ~ (v < 128 * M)
    <3>1. CASE v >= 256 * M
      <4>1. sub.value = 256 * M - 1
        BY ONLY <1>2, <3>1
      <4> QED BY ONLY <1>1, <3>1, <4>1, v \in Nat
    <3>2. CASE ~ (v >= 256 * M)
      <4>1. sub.value = v
        BY ONLY <1>2, <3>2
      <4> QED BY ONLY <1>1, <1>4, <3>2, <4>1, v \in Nat
    <3> QED BY ONLY <3>1, <3>2
  <2>2. - (- (128 * M)) = 128 * M
    BY <1>1
  <2>3. CASE neg /\ v = 128 * M
    <3>1. Clamp(sub, neg, bits) = [value |-> - (128 * M), errno |-> "zero"]
      BY ONLY <1>1, <2>1, <2>2, <2>3 DEF Clamp
    <3>2. -v = - (128 * M)
      BY ONLY <2>3
    <3> QED BY ONLY <2>1, <2>3, <3>1, <3>2 DEF Clamped
  <2>4. CASE ~ (neg /\ v = 128 * M)
    <3>1. Clamp(sub, neg, bits)
            = [value |-> IF neg THEN - (128 * M) ELSE 128 * M - 1, errno |-> "ERANGE"]
      BY ONLY <1>1, <2>1, <2>2, <2>4 DEF Clamp
    <3> QED BY ONLY <2>1, <2>4, <3>1 DEF Clamped
  <2> QED BY ONLY <2>3, <2>4
<1>5. Clamp(sub, neg, bits) = Clamped(v, neg, M)
  BY ONLY <1>1, <1>3, <1>4, v \in Nat
<1> QED BY ONLY <1>5, out = Clamp(sub, neg, bits) DEF IsClamped

SignOff(s, n) == At(s, n) = 45 /\ isalnum(At(s, n + 1))

(* strtol and strtoll convert the longest numeral with its sign. *)
LEMMA SignedRight ==
  ASSUME NEW s \in Texts, NEW base \in Int, NEW bits, NEW M, IsWidth(bits, M),
         NEW signed \in BOOLEAN, NEW n, n = Skip(s, 0, Spaces),
         NEW neg \in BOOLEAN, neg <=> SignOff(s, n), NEW m, m = IF neg THEN n + 1 ELSE n,
         NEW sub, sub = Convert(SubSeq(s, m + 1, Len(s)), base, bits, signed),
         NEW clamped, clamped = Clamp(sub, neg, bits),
         NEW out, out = [value |-> clamped.value, errno |-> clamped.errno,
                         end |-> IF sub.end \in {0, Unset} THEN sub.end ELSE m + sub.end]
  PROVE  SignedDenotes(s, base, bits, out)
<1>1. M \in Nat /\ M > 0 /\ LongMax(bits) = 128 * M - 1 /\ LongMin(bits) = - (128 * M)
  BY DEF IsWidth, LongMax, LongMin
<1>2. ASSUME sub.value = 0 PROVE clamped.value = 0 /\ clamped.errno = sub.errno
  <2>1. sub.value <= LongMax(bits) /\ -sub.value = 0
    <3>1. PICK z \in Int : 0 <= z /\ z <= 0 /\ z = sub.value
      BY ONLY <1>2
    <3>2. -z = 0
      BY ONLY <3>1
    <3>3. z <= LongMax(bits)
      BY ONLY <1>1, <3>1
    <3> QED BY ONLY <3>1, <3>2, <3>3
  <2>2. clamped = [value |-> IF neg THEN -sub.value ELSE sub.value, errno |-> sub.errno]
    BY ONLY <2>1, clamped = Clamp(sub, neg, bits) DEF Clamp
  <2> QED BY ONLY <1>2, <2>1, <2>2
<1>3. CASE base \notin {0} \cup 2 .. 36
  <2>1. sub = [value |-> 0, end |-> Unset, errno |-> "EINVAL"]
    BY ONLY <1>3, sub = Convert(SubSeq(s, m + 1, Len(s)), base, bits, signed) DEF Convert
  <2>2. sub.value = 0 /\ sub.errno = "EINVAL"
    BY ONLY <2>1
  <2>3. clamped.value = 0 /\ clamped.errno = "EINVAL"
    BY ONLY <1>2, <2>2
  <2>4. out.value = clamped.value /\ out.errno = clamped.errno
    BY ONLY out = [value |-> clamped.value, errno |-> clamped.errno,
                   end |-> IF sub.end \in {0, Unset} THEN sub.end ELSE m + sub.end]
  <2>5. out.value = 0 /\ out.errno = "EINVAL"
    BY ONLY <2>3, <2>4
  <2> QED BY ONLY <1>3, <2>5 DEF SignedDenotes
<1>4. CASE base \in {0} \cup 2 .. 36
  <2>1. PICK orig : orig = IF At(s, n) \in {Ascii.minus, Ascii.plus} THEN n + 1 ELSE n
    OBVIOUS
  <2>2. PICK prefix : prefix = Prefix(s, orig, base)
    OBVIOUS
  <2>3. PICK at, b : at = prefix.at /\ b = prefix.base
    OBVIOUS
  <2>4. PICK end : end = Skip(s, at, DigitsOf(b))
    OBVIOUS
  <2>5. Parsed(s, base, n, orig, at, b, end) /\ b \in 2 .. 36
    BY ONLY <1>4, n = Skip(s, 0, Spaces), <2>1, <2>2, <2>3, <2>4, ParsedIs, s \in Texts
  <2>6. /\ Len(s) \in Nat /\ n \in 0 .. Len(s) /\ orig \in Nat /\ at \in Nat /\ end \in Nat
        /\ end /= orig => end > at
        /\ end = orig => at = orig
    <3>1. FormPlaces(s, n, orig, at, end)
      BY ONLY <1>4, <2>5, ParsedFields, s \in Texts
    <3> QED BY ONLY <3>1 DEF FormPlaces
  <2>7. /\ orig = IF At(s, n) \in {43, 45} THEN n + 1 ELSE n
        /\ at \in {orig, orig + 2} /\ (at = orig + 2 => At(s, orig) = 48)
        /\ \A x \in at .. end - 1 : DigitAt(s, x) < b
    BY ONLY <2>5 DEF Parsed
  <2>8. SignOff(s, n) => /\ m = orig /\ At(s, n) = 45 /\ n < Len(s)
                         /\ At(s, m) \notin {9, 10, 11, 12, 13, 32, 43, 45}
    <3> SUFFICES ASSUME SignOff(s, n)
                 PROVE  /\ m = orig /\ At(s, n) = 45 /\ n < Len(s)
                        /\ At(s, m) \notin {9, 10, 11, 12, 13, 32, 43, 45}
      OBVIOUS
    <3>1. At(s, n) = 45 /\ isalnum(At(s, n + 1)) /\ m = n + 1
      BY DEF SignOff
    <3>2. n \in Nat /\ n + 1 \in Nat /\ m \in Nat
      BY ONLY <2>6, <3>1
    <3>3. DigitAt(s, m) < 36
      BY ONLY <3>1, <3>2, s \in Texts, AlnumAt
    <3>4. At(s, m) \notin {9, 10, 11, 12, 13, 32, 43, 45}
      <4> SUFFICES ASSUME At(s, m) \in {9, 10, 11, 12, 13, 32, 43, 45} PROVE FALSE
        OBVIOUS
      <4>1. DigitAt(s, m) = 36
        BY NoDigitAt
      <4> QED BY ONLY <3>3, <4>1
    <3>5. n < Len(s)
      <4>1. n >= Len(s) => At(s, n) = 0
        BY ONLY <3>2, s \in Texts, AtIs
      <4>2. ~ (n >= Len(s))
        BY ONLY <3>1, <4>1
      <4>3. Len(s) \in Nat
        BY ONLY <2>6
      <4> QED BY ONLY <3>2, <4>2, <4>3
    <3> QED BY ONLY <2>7, <3>1, <3>4, <3>5
  <2>9. ~ SignOff(s, n) => m = n
    OBVIOUS
  <2>10. m \in 0 .. Len(s) /\ m \in Nat
    BY ONLY <2>6, <2>7, <2>8, <2>9
  <2>11. m = n \/ (m = orig /\ At(s, m) \notin {9, 10, 11, 12, 13, 32, 43, 45})
    <3>1. CASE SignOff(s, n)
      BY ONLY <2>8, <3>1
    <3>2. CASE ~ SignOff(s, n)
      BY ONLY <2>9, <3>2
    <3> QED BY ONLY <3>1, <3>2
  <2>12. PICK t : t = SubSeq(s, m + 1, Len(s))
    OBVIOUS
  <2>13. IsTail(t, s, m)
    BY ONLY <2>10, <2>12, TailIs, s \in Texts
  <2>14. t \in Texts /\ At(t, 0) = At(s, m)
    BY ONLY <2>10, <2>13 DEF IsTail
  <2>15. PICK n2, o2, a2, b2, e2 :
           /\ b2 \in 2 .. 36 /\ Parsed(t, base, n2, o2, a2, b2, e2)
           /\ ConvertsTo(t, n2, o2, a2, b2, e2, 256 * M, sub)
    <3>1. sub = Convert(t, base, bits, signed)
      BY ONLY <2>12, sub = Convert(SubSeq(s, m + 1, Len(s)), base, bits, signed)
    <3> QED BY ONLY <1>4, <2>14, <3>1, ConvertIs, IsWidth(bits, M), signed \in BOOLEAN
  <2>16. /\ Parsed(t, base, 0, orig - m, at - m, b, end - m)
         /\ Amount(t, at - m, b, end - m) = Amount(s, at, b, end)
         /\ m <= orig
    BY ONLY <1>4, <2>5, <2>10, <2>11, <2>13, ParsedTail, s \in Texts
  <2>17. n2 = 0 /\ o2 = orig - m /\ a2 = at - m /\ b2 = b /\ e2 = end - m
    BY ONLY <1>4, <2>5, <2>14, <2>15, <2>16, ParsedOnce
  <2>18. e2 = o2 <=> end = orig
    BY ONLY <2>6, <2>10, <2>17
  <2>19. CASE end = orig
    <3>1. sub = Nothing
      BY ONLY <2>15, <2>18, <2>19 DEF ConvertsTo
    <3>2. sub.value = 0 /\ sub.end = 0 /\ sub.errno = "EINVAL"
      BY ONLY <3>1 DEF Nothing
    <3>3. clamped.value = 0 /\ clamped.errno = "EINVAL"
      BY ONLY <1>2, <3>2
    <3>4. out = [value |-> 0, end |-> 0, errno |-> "EINVAL"]
      BY ONLY <3>2, <3>3,
              out = [value |-> clamped.value, errno |-> clamped.errno,
                     end |-> IF sub.end \in {0, Unset} THEN sub.end ELSE m + sub.end]
    <3>5. Numerals(s, base) = {}
      BY ONLY <1>4, <2>5, <2>19, FoundIs, s \in Texts
    <3> QED BY ONLY <1>4, <3>4, <3>5 DEF SignedDenotes
  <2>20. CASE end /= orig
    <3>1. PICK f : f = Longest(Numerals(s, base))
      OBVIOUS
    <3>2. Numerals(s, base) /= {} /\ f = Found(n, orig, at, b, end)
      <4>1. Numerals(s, base) /= {} /\ Longest(Numerals(s, base)) = Found(n, orig, at, b, end)
        BY ONLY <1>4, <2>5, <2>20, FoundIs, s \in Texts
      <4> QED BY ONLY <3>1, <4>1
    <3>3. PICK v \in Nat : /\ v = Amount(s, at, b, end)
                           /\ sub = Converted(v, At(t, 0) = 45, e2, 256 * M)
      BY ONLY <2>15, <2>16, <2>17, <2>18, <2>20 DEF ConvertsTo
    <3>4. f.end = end /\ Magnitude(s, f) = v /\ (Negative(s, f) <=> At(s, n) = 45)
      <4>1. FormIs(s, f, end, v, At(s, n) = 45)
        BY ONLY <1>4, <2>5, <2>20, <3>2, <3>3, FoundDenotes, s \in Texts
      <4> QED BY ONLY <4>1 DEF FormIs
    <3>5. At(s, n) = 45 => SignOff(s, n)
      <4> SUFFICES ASSUME At(s, n) = 45 PROVE isalnum(At(s, n + 1))
        BY DEF SignOff
      <4>1. orig = n + 1
        BY ONLY <2>7, At(s, n) = 45
      <4>2. DigitAt(s, orig) < 36
        <5>1. CASE at = orig
          <6>1. at \in at .. end - 1
            BY ONLY <2>6, <2>20
          <6>2. DigitAt(s, orig) \in Nat
            BY ONLY <2>6, DigitAtIs, s \in Texts
          <6> QED BY ONLY <2>5, <2>7, <5>1, <6>1, <6>2
        <5>2. CASE at = orig + 2
          <6>1. DigitAt(s, orig) = 0
            BY ONLY <2>7, <5>2, PrefixAt
          <6> QED BY ONLY <6>1
        <5> QED BY ONLY <2>7, <5>1, <5>2
      <4> QED BY ONLY <2>6, <4>1, <4>2, AlnumAt, s \in Texts
    <3>6. neg <=> At(s, n) = 45
      BY ONLY <2>8, <3>5, neg <=> SignOff(s, n)
    <3>7. At(t, 0) /= 45
      BY ONLY <2>8, <2>9, <2>14, <3>5
    <3>8. sub = Converted(v, FALSE, e2, 256 * M)
      BY ONLY <3>3, <3>7 DEF Converted
    <3>9. clamped = Clamped(v, neg, M)
      <4>1. PICK N : N = 256 * M
        OBVIOUS
      <4>2. sub = Converted(v, FALSE, e2, N)
        BY ONLY <3>8, <4>1
      <4>3. IsClamped(clamped, v, neg, M)
        BY ONLY <4>1, <4>2, ClampIs, IsWidth(bits, M), neg \in BOOLEAN, v \in Nat,
                clamped = Clamp(sub, neg, bits)
      <4> QED BY ONLY <4>3 DEF IsClamped
    <3>10. out.end = end
      <4>1. sub.end = e2 /\ e2 > 0 /\ m + e2 = end
        <5>1. sub.end = e2
          BY ONLY <3>8 DEF Converted
        <5>2. end - m \in Int /\ end - m > 0 /\ m + (end - m) = end
          BY ONLY <2>6, <2>7, <2>10, <2>16, <2>20
        <5> QED BY ONLY <2>17, <5>1, <5>2
      <4>2. e2 \notin {0, Unset}
        BY ONLY <4>1 DEF Unset
      <4> QED BY ONLY <4>1, <4>2,
                      out = [value |-> clamped.value, errno |-> clamped.errno,
                             end |-> IF sub.end \in {0, Unset} THEN sub.end ELSE m + sub.end]
    <3>11. PICK x \in Int : x = IF neg THEN -v ELSE v
      BY ONLY v \in Nat
    <3>12. Value(s, f) = x
      BY ONLY <3>4, <3>6, <3>11 DEF Value
    <3>13. PICK fits \in BOOLEAN : fits <=> x \in LongMin(bits) .. LongMax(bits)
      OBVIOUS
    <3>14. fits <=> v < 128 * M \/ (neg /\ v = 128 * M)
      BY ONLY <1>1, <3>11, <3>13, v \in Nat
    <3>15. /\ out.value = clamped.value /\ out.errno = clamped.errno
      BY ONLY out = [value |-> clamped.value, errno |-> clamped.errno,
                     end |-> IF sub.end \in {0, Unset} THEN sub.end ELSE m + sub.end]
    <3>16. out.errno = "ERANGE" <=> ~ fits
      BY ONLY <3>9, <3>14, <3>15 DEF Clamped, Kept
    <3>17. out.value = IF fits THEN x ELSE IF x < 0 THEN LongMin(bits) ELSE LongMax(bits)
      <4>1. ~ fits => (x < 0 <=> neg)
        BY ONLY <1>1, <3>11, <3>14, v \in Nat
      <4>2. out.value = IF fits THEN x ELSE IF neg THEN - (128 * M) ELSE 128 * M - 1
        BY ONLY <3>9, <3>11, <3>14, <3>15 DEF Clamped
      <4> QED BY ONLY <1>1, <4>1, <4>2
    <3> QED BY ONLY <1>4, <3>1, <3>2, <3>4, <3>10, <3>12, <3>13, <3>16, <3>17 DEF SignedDenotes
  <2> QED BY ONLY <2>19, <2>20
<1> QED BY ONLY <1>3, <1>4

-----------------------------------------------------------------------------
(* atoi. *)

(* The digits of base 10 at a place, and their values. *)
LEMMA TenAt ==
  ASSUME NEW s \in Texts, NEW x \in Nat
  PROVE  /\ At(s, x) \in Digits10 <=> DigitAt(s, x) < 10
         /\ At(s, x) \in Digits10 => At(s, x) - Ascii.zero = DigitAt(s, x)
<1>1. PICK c \in 0 .. 255 : c = At(s, x)
  BY AtIs
<1>2. c \in Digits10 <=> c \in 48 .. 57
  BY ONLY SpacesAre
<1>3. c \in 48 .. 57 <=> DigitValue[c] < 10
  BY DEF DigitValue
<1>4. c \in 48 .. 57 => c - 48 = DigitValue[c]
  BY DEF DigitValue
<1>5. Ascii.zero = 48
  BY DEF Ascii
<1> QED BY ONLY <1>1, <1>2, <1>3, <1>4, <1>5 DEF DigitAt

(* A run of them is a number of base 10. *)
LEMMA DecimalIs ==
  ASSUME NEW s \in Texts, NEW from \in Nat, NEW n \in Nat,
         \A x \in from .. from + n - 1 : At(s, x) \in Digits10
  PROVE  Decimal(s, from, from + n) = Positional(DigitsAt(s, from, n), 10)
<1>1. (from + n) - from = n
  OBVIOUS
<1>2. \A x \in 1 .. n : At(s, from + x - 1) - Ascii.zero = DigitValue[At(s, from + x - 1)]
  <2> TAKE x \in 1 .. n
  <2>1. PICK y \in Nat : y = from + x - 1 /\ y \in from .. from + n - 1
    <3>1. from + x - 1 \in Nat /\ from + x - 1 \in from .. from + n - 1
      OBVIOUS
    <3> QED BY ONLY <3>1
  <2>2. At(s, y) - Ascii.zero = DigitValue[At(s, y)]
    BY <2>1, TenAt DEF DigitAt
  <2> QED BY ONLY <2>1, <2>2
<1>3. PICK f : f = [x \in 1 .. n |-> At(s, from + x - 1) - Ascii.zero]
  OBVIOUS
<1>4. f = DigitsAt(s, from, n)
  BY ONLY <1>2, <1>3 DEF DigitsAt
<1> QED BY ONLY <1>1, <1>3, <1>4 DEF Decimal

(* It is a natural number, and 0 if there are no digits. *)
LEMMA DigitsValue ==
  ASSUME NEW s \in Texts, NEW from \in Nat, NEW n \in Nat
  PROVE  /\ Positional(DigitsAt(s, from, n), 10) \in Nat
         /\ n = 0 => Positional(DigitsAt(s, from, n), 10) = 0
<1>1. PICK digits : digits = DigitsAt(s, from, n)
  OBVIOUS
<1>2. digits \in [1 .. n -> Nat] /\ Len(digits) = n
  BY <1>1, DigitsAtIs
<1>3. PICK g : IsValue(g, digits, 10, n) /\ Positional(digits, 10) = g[n]
  BY ONLY <1>2, n \in Nat, 10 \in Nat, PositionalIs
<1> QED BY ONLY <1>1, <1>3, n \in Nat DEF IsValue

(* What fits a long is what its bits stand for. *)
LEMMA SignedIs ==
  ASSUME NEW bits, NEW M, IsWidth(bits, M), NEW x \in Int, - (128 * M) <= x, x <= 128 * M - 1
  PROVE  AsSigned(x % Power(2, bits), bits) = x
<1>1. M \in Nat /\ M > 0 /\ LongMax(bits) = 128 * M - 1
  BY DEF IsWidth, LongMax
<1>2. PICK N \in Nat \ {0} : N = 256 * M /\ Power(2, bits) = N
  BY DEF IsWidth
<1>3. CASE 0 <= x
  <2>1. x % N = x
    <3>1. x < N
      BY ONLY <1>1, <1>2, x \in Int, x <= 128 * M - 1
    <3> QED BY ONLY <1>3, <3>1, x \in Int, N \in Nat \ {0}, RemainderIs
  <2>2. ~ (x > LongMax(bits))
    BY <1>1
  <2> QED BY ONLY <1>2, <2>1, <2>2 DEF AsSigned
<1>4. CASE x < 0
  <2>1. x % N = x + N
    <3>1. - N <= x
      BY ONLY <1>1, <1>2, x \in Int, - (128 * M) <= x
    <3> QED BY ONLY <1>4, <3>1, x \in Int, N \in Nat \ {0}, RemainderIs
  <2>2. x + N > LongMax(bits) /\ (x + N) - N = x
    BY <1>1, <1>2
  <2> QED BY ONLY <1>2, <2>1, <2>2 DEF AsSigned
<1> QED BY <1>3, <1>4

(* atoi converts the longest numeral of base 10 if a long holds it. *)
LEMMA IntegerRight ==
  ASSUME NEW s \in Texts, NEW M, IsWidth(LongBits, M), NEW out, out = atoi(s)
  PROVE  IntegerDenotes(s, out)
<1>1. /\ M \in Nat /\ M > 0 /\ LongMax(LongBits) = 128 * M - 1
      /\ LongMin(LongBits) = - (128 * M)
  BY DEF IsWidth, LongMax, LongMin
<1>2. PICK n : n = Skip(s, 0, Spaces)
  OBVIOUS
<1>3. PICK orig : orig = IF At(s, n) \in {Ascii.minus, Ascii.plus} THEN n + 1 ELSE n
  OBVIOUS
<1>4. PICK prefix : prefix = Prefix(s, orig, 10)
  OBVIOUS
<1>5. PICK at, b : at = prefix.at /\ b = prefix.base
  OBVIOUS
<1>6. PICK end : end = Skip(s, at, DigitsOf(b))
  OBVIOUS
<1>7. PICK base \in {0} \cup 2 .. 36 : base = 10
  OBVIOUS
<1>8. Parsed(s, base, n, orig, at, b, end) /\ b \in 2 .. 36
  BY ONLY <1>2, <1>3, <1>4, <1>5, <1>6, <1>7, ParsedIs, s \in Texts
<1>9. /\ Len(s) \in Nat /\ n \in 0 .. Len(s) /\ orig \in 0 .. Len(s) /\ orig \in Nat
      /\ end \in at .. Len(s) /\ end \in Nat
  <2>1. FormPlaces(s, n, orig, at, end)
    BY ONLY <1>8, ParsedFields, s \in Texts
  <2> QED BY ONLY <2>1 DEF FormPlaces
<1>10. /\ at = orig /\ b = 10
       /\ \A x \in at .. end - 1 : DigitAt(s, x) < b
       /\ DigitAt(s, end) >= b
  BY ONLY <1>7, <1>8, <1>9 DEF Parsed
<1>11. PICK m \in Nat : m = end - orig /\ orig + m = end
  BY ONLY <1>9, <1>10
<1>12. \A x \in orig .. orig + m - 1 : At(s, x) \in Digits10
  <2> TAKE x \in orig .. orig + m - 1
  <2>1. x \in Nat /\ DigitAt(s, x) < 10
    BY ONLY <1>9, <1>10, <1>11, x \in orig .. orig + m - 1
  <2> QED BY ONLY <2>1, TenAt, s \in Texts
<1>13. Skip(s, orig, Digits10) = end
  <2>1. SkipsTo(s, orig, Digits10, end)
    <3>1. At(s, end) \notin Digits10
      <4>1. DigitAt(s, end) \in Nat /\ ~ (DigitAt(s, end) < 10)
        BY ONLY <1>9, <1>10, s \in Texts, DigitAtIs
      <4> QED BY ONLY <1>9, <4>1, s \in Texts, TenAt
    <3> QED BY ONLY <1>9, <1>10, <1>11, <1>12, <3>1 DEF SkipsTo
  <2>2. 0 \notin Digits10
    BY ONLY SpacesAre
  <2> QED BY ONLY <1>9, <2>1, <2>2, s \in Texts, StopsOnce
<1>14. PICK v \in Nat : v = Amount(s, at, b, end) /\ v = Decimal(s, orig, end) /\ (m = 0 => v = 0)
  <2>1. Amount(s, at, b, end) = Positional(DigitsAt(s, orig, m), 10)
    BY ONLY <1>10, <1>11 DEF Amount
  <2>2. Decimal(s, orig, end) = Positional(DigitsAt(s, orig, m), 10)
    BY ONLY <1>9, <1>11, <1>12, s \in Texts, DecimalIs
  <2>3. /\ Positional(DigitsAt(s, orig, m), 10) \in Nat
        /\ m = 0 => Positional(DigitsAt(s, orig, m), 10) = 0
    BY ONLY <1>9, s \in Texts, m \in Nat, DigitsValue
  <2> QED BY ONLY <2>1, <2>2, <2>3
<1>15. PICK x \in Int : x = IF At(s, n) = 45 THEN -v ELSE v
  OBVIOUS
<1>16. out = AsSigned(x % Power(2, LongBits), LongBits)
  <2>1. Ascii.minus = 45
    BY DEF Ascii
  <2>2. out = AsSigned((IF At(s, n) = Ascii.minus THEN -v ELSE v) % Power(2, LongBits), LongBits)
    BY ONLY <1>2, <1>3, <1>13, <1>14, out = atoi(s) DEF atoi
  <2> QED BY ONLY <1>15, <2>1, <2>2
<1>17. ASSUME - (128 * M) <= x, x <= 128 * M - 1 PROVE out = x
  BY ONLY <1>16, <1>17, IsWidth(LongBits, M), x \in Int, SignedIs
<1>18. CASE end = orig
  <2>1. 0 <= v /\ v <= 0
    BY ONLY <1>9, <1>11, <1>14, <1>18
  <2>2. -v = 0 /\ v = 0
    BY ONLY <2>1, v \in Nat
  <2>3. x = 0
    BY ONLY <1>15, <2>2
  <2>4. out = 0
    BY ONLY <1>1, <1>17, <2>3
  <2>5. Numerals(s, 10) = {}
    <3>1. Numerals(s, base) = {}
      BY ONLY <1>8, <1>18, FoundIs, s \in Texts, base \in {0} \cup 2 .. 36
    <3> QED BY ONLY <1>7, <3>1
  <2> QED BY ONLY <2>4, <2>5 DEF IntegerDenotes
<1>19. CASE end /= orig
  <2>1. PICK f : f = Longest(Numerals(s, 10))
    OBVIOUS
  <2>2. Numerals(s, 10) /= {} /\ f = Found(n, orig, at, b, end)
    <3>1. Numerals(s, base) /= {} /\ Longest(Numerals(s, base)) = Found(n, orig, at, b, end)
      BY ONLY <1>8, <1>19, FoundIs, s \in Texts, base \in {0} \cup 2 .. 36
    <3> QED BY ONLY <1>7, <2>1, <3>1
  <2>3. Magnitude(s, f) = v /\ (Negative(s, f) <=> At(s, n) = 45)
    <3>1. FormIs(s, f, end, v, At(s, n) = 45)
      <4>1. f = Found(n, orig, at, b, end)
        BY ONLY <2>2
      <4>2. FormIs(s, f, end, Amount(s, at, b, end), At(s, n) = 45)
        BY ONLY <1>8, <1>19, <4>1, FoundDenotes, s \in Texts, base \in {0} \cup 2 .. 36
      <4> QED BY ONLY <1>14, <4>2
    <3> QED BY ONLY <3>1 DEF FormIs
  <2>4. Value(s, f) = x
    BY ONLY <1>15, <2>3 DEF Value
  <2>5. x \in LongMin(LongBits) .. LongMax(LongBits) => out = x
    BY ONLY <1>1, <1>17, x \in Int
  <2> QED BY ONLY <2>1, <2>2, <2>4, <2>5 DEF IntegerDenotes
<1> QED BY <1>18, <1>19

-----------------------------------------------------------------------------
(* strtod: powers of ten, and digits on both sides of the point. *)

(* Multiplying up by squaring adds the exponents to factor * expo. *)
Half(x) ==
  IF x.expo = 0 THEN x
  ELSE [expo |-> x.expo \div 2, factor |-> 2 * x.factor,
        exponent |-> IF x.expo % 2 = 1 THEN x.exponent + x.factor ELSE x.exponent]

Rest(x) == x.exponent + x.factor * x.expo

(* A round of squaring keeps what the rest of them makes. *)
LEMMA HalfIs ==
  ASSUME NEW x \in [expo : Nat, factor : Int, exponent : Int]
  PROVE  /\ Half(x) \in [expo : Nat, factor : Int, exponent : Int]
         /\ Rest(Half(x)) = Rest(x)
         /\ Half(x).expo = 0 \/ Half(x).expo < x.expo
<1>1. PICK e \in Nat, f \in Int, o \in Int :
        x = [expo |-> e, factor |-> f, exponent |-> o] /\ x.expo = e /\ x.factor = f /\ x.exponent = o
  OBVIOUS
<1>2. CASE e = 0
  <2>1. Half(x) = x
    BY ONLY <1>1, <1>2 DEF Half
  <2> QED BY ONLY <1>1, <1>2, <2>1
<1>3. CASE e /= 0
  <2>1. PICK h \in Nat, d \in {0, 1} : h = e \div 2 /\ d = e % 2 /\ e = 2 * h + d /\ h < e
    <3>1. e \div 2 \in Nat /\ e % 2 \in {0, 1} /\ e = 2 * (e \div 2) + (e % 2)
      BY ONLY e \in Nat
    <3> QED BY ONLY <1>3, <3>1, e \in Nat
  <2>2. PICK y : y = Half(x)
    OBVIOUS
  <2>3. y = [expo |-> h, factor |-> 2 * f, exponent |-> IF d = 1 THEN o + f ELSE o]
    BY ONLY <1>1, <1>3, <2>1, <2>2 DEF Half
  <2>4. y.expo = h /\ y.factor = 2 * f /\ y.exponent = IF d = 1 THEN o + f ELSE o
    BY ONLY <2>3
  <2>5. PICK g \in Int : g = f * h
    OBVIOUS
  <2>6. f * e = 2 * g + IF d = 1 THEN f ELSE 0
    <3>1. f * (2 * h + d) = 2 * (f * h) + f * d
      OBVIOUS
    <3>2. f * d = IF d = 1 THEN f ELSE 0
      <4>1. CASE d = 1
        BY ONLY <4>1, f \in Int
      <4>2. CASE d = 0
        BY ONLY <4>2, f \in Int
      <4> QED BY ONLY <4>1, <4>2, d \in {0, 1}
    <3> QED BY ONLY <2>1, <2>5, <3>1, <3>2
  <2>7. (2 * f) * h = 2 * g
    BY <2>5
  <2>8. Rest(y) = Rest(x)
    BY ONLY <1>1, <2>4, <2>6, <2>7, f \in Int, g \in Int, o \in Int DEF Rest
  <2>9. y \in [expo : Nat, factor : Int, exponent : Int]
    BY ONLY <2>3, f \in Int, o \in Int, h \in Nat
  <2> QED BY ONLY <1>1, <2>1, <2>2, <2>4, <2>8, <2>9
<1> QED BY <1>2, <1>3

(* Squaring adds up the exponent, with its sign. *)
LEMMA ScaledIs ==
  ASSUME NEW expo \in Nat, NEW factor \in Int
  PROVE  Scaled(expo, factor) = factor * expo
<1> DEFINE S == [expo : Nat, factor : Int, exponent : Int]
<1>1. PICK first : first = [expo |-> expo, factor |-> factor, exponent |-> 0]
  OBVIOUS
<1>16. first \in S
  BY ONLY <1>1, expo \in Nat, factor \in Int
<1>2. PICK F : F = [z \in S \X (1 .. expo) |-> Half(z[1])]
  OBVIOUS
<1>3. \A z \in S : Half(z) \in S
  BY HalfIs
<1> HIDE DEF S
<1>4. F \in [S \X (1 .. expo) -> S] /\ \A z \in S, x \in 1 .. expo : F[<<z, x>>] = Half(z)
  BY ONLY <1>2, <1>3
<1>5. PICK h : IsRun(h, S, expo, first, F)
  BY ONLY <1>4, <1>16, expo \in Nat, RunExists
<1>6. /\ h \in [0 .. expo -> S] /\ h[0] = first
      /\ \A x \in 1 .. expo : h[x] = Half(h[x - 1]) /\ h[x - 1] \in S
  <2>1. \A x \in 1 .. expo : x - 1 \in 0 .. expo
    OBVIOUS
  <2> QED BY ONLY <1>4, <1>5, <2>1 DEF IsRun
<1> DEFINE Step(acc) == [x \in 0 .. expo |-> IF x = 0 THEN first ELSE Half(acc[x - 1])]
           run == CHOOSE acc : acc = Step(acc)
<1>7. Scaled(expo, factor) = run[expo].exponent
  BY ONLY <1>1 DEF Scaled, Half
<1>8. run = Step(run)
  <2>1. \A x \in 0 .. expo : x = 0 \/ x \in 1 .. expo
    OBVIOUS
  <2>2. h = Step(h)
    BY ONLY <1>6, <2>1
  <2> QED BY ONLY <2>2
<1> HIDE DEF run
<1>9. run[expo] = h[expo]
  <2> DEFINE P == {x \in 0 .. expo : run[x] = h[x]}
  <2>1. \A x \in 1 .. expo : x \in 0 .. expo /\ x - 1 \in 0 .. expo /\ x # 0
    OBVIOUS
  <2>2. 0 \in 0 .. expo /\ expo \in 0 .. expo
    OBVIOUS
  <2>3. 0 \in P /\ \A x \in 1 .. expo : x - 1 \in P => x \in P
    BY ONLY <1>6, <1>8, <2>1, <2>2
  <2> HIDE DEF P
  <2>4. \A x \in 0 .. expo : x \in P
    BY ONLY <2>3, expo \in Nat, UpTo
  <2> QED BY ONLY <2>2, <2>4 DEF P
<1> DEFINE Right == {x \in 0 .. expo : /\ Rest(h[x]) = factor * expo
                                       /\ h[x].expo \in Nat /\ h[x].expo <= expo - x}
<1>10. 0 \in Right
  <2>1. PICK g \in Int : g = factor * expo
    OBVIOUS
  <2>2. Rest(first) = g
    <3>1. first.exponent = 0 /\ first.factor = factor /\ first.expo = expo
      BY ONLY <1>1
    <3> QED BY ONLY <2>1, <3>1 DEF Rest
  <2>3. first.expo = expo /\ 0 \in 0 .. expo /\ expo <= expo - 0
    BY <1>1
  <2> QED BY ONLY <1>6, <2>1, <2>2, <2>3, expo \in Nat
<1>11. ASSUME NEW x \in 1 .. expo, x - 1 \in Right PROVE x \in Right
  <2>1. PICK z \in S : z = h[x - 1] /\ h[x] = Half(z)
    BY <1>6
  <2>2. Rest(z) = factor * expo /\ z.expo \in Nat /\ z.expo <= expo - (x - 1)
    BY ONLY <1>11, <2>1
  <2>3. Half(z) \in S /\ Rest(Half(z)) = Rest(z) /\ (Half(z).expo = 0 \/ Half(z).expo < z.expo)
    BY HalfIs DEF S
  <2>4. Half(z).expo \in Nat
    BY ONLY <2>3 DEF S
  <2>5. Half(z).expo <= expo - x /\ x \in 0 .. expo
    BY ONLY <2>2, <2>3, <2>4, expo \in Nat, x \in 1 .. expo
  <2> QED BY ONLY <2>1, <2>2, <2>3, <2>4, <2>5
<1>12. expo \in Right
  <2> HIDE DEF Right
  <2>1. expo \in 0 .. expo
    OBVIOUS
  <2> QED BY ONLY <1>10, <1>11, <2>1, expo \in Nat, UpTo
<1>13. Rest(h[expo]) = factor * expo /\ h[expo].expo = 0
  <2>1. h[expo].expo \in Nat /\ h[expo].expo <= expo - expo
    BY ONLY <1>12
  <2> QED BY ONLY <1>12, <2>1, expo \in Nat
<1>14. PICK z \in S : z = h[expo]
  BY ONLY <1>6, expo \in Nat
<1>15. Rest(z) = z.exponent
  <2>1. z.factor \in Int /\ z.exponent \in Int /\ z.expo = 0
    BY <1>13, <1>14 DEF S
  <2>2. PICK f \in Int, o \in Int : f = z.factor /\ o = z.exponent
    BY <2>1
  <2>3. o + f * 0 = o
    OBVIOUS
  <2> QED BY ONLY <2>1, <2>2, <2>3 DEF Rest
<1> QED BY ONLY <1>7, <1>9, <1>13, <1>14, <1>15

(* The values of the digits of a text. *)
Values(u) == [n \in 1 .. Len(u) |-> DigitValue[u[n]]]

(* The number of a text is the value of its digits. *)
LEMMA ValuesAre ==
  ASSUME NEW u \in Texts
  PROVE  /\ Len(u) \in Nat /\ Values(u) = DigitsAt(u, 0, Len(u))
         /\ Values(u) \in [1 .. Len(u) -> Nat] /\ Len(Values(u)) = Len(u)
         /\ Number(u) = Positional(Values(u), 10)
<1>1. Len(u) \in Nat
  BY DEF Texts
<1>2. \A x \in 1 .. Len(u) : DigitValue[u[x]] = DigitValue[At(u, 0 + x - 1)]
  <2> TAKE x \in 1 .. Len(u)
  <2>1. PICK y \in Nat : y = x - 1 /\ y = 0 + x - 1 /\ y < Len(u) /\ y + 1 = x
    <3>1. x - 1 \in Nat
      BY <1>1
    <3> QED BY ONLY <1>1, <3>1, x \in 1 .. Len(u)
  <2>2. u[y + 1] = At(u, y)
    BY ONLY <2>1, FormAt, u \in Texts
  <2> QED BY ONLY <2>1, <2>2
<1>3. Values(u) = DigitsAt(u, 0, Len(u))
  BY ONLY <1>2 DEF Values, DigitsAt
<1>4. DigitsAt(u, 0, Len(u)) \in [1 .. Len(u) -> Nat] /\ Len(DigitsAt(u, 0, Len(u))) = Len(u)
  <2>1. 0 \in Nat
    OBVIOUS
  <2> QED BY ONLY <1>1, <2>1, u \in Texts, DigitsAtIs
<1>5. Number(u) = Positional(Values(u), 10)
  BY ONLY DEF Number, Values
<1> QED BY ONLY <1>1, <1>3, <1>4, <1>5

(* The number of two runs of digits. *)
LEMMA NumberOfBoth ==
  ASSUME NEW u \in Texts, NEW v \in Texts, NEW w \in Texts,
         Len(w) = Len(u) + Len(v), \A x \in 1 .. Len(u) : w[x] = u[x],
         \A x \in 1 .. Len(v) : w[Len(u) + x] = v[x]
  PROVE  /\ Number(w) = Number(u) * Power(10, Len(v)) + Number(v)
         /\ Number(u) \in Nat /\ Number(v) \in Nat
<1>1. PICK m \in Nat, n \in Nat : m = Len(u) /\ n = Len(v) /\ m + n = Len(w)
  BY ValuesAre
<1>2. PICK f : IsValue(f, Values(u), 10, m) /\ Number(u) = f[m]
  <2>1. Values(u) \in [1 .. m -> Nat] /\ Len(Values(u)) = m
    BY <1>1, ValuesAre
  <2>2. \E f : IsValue(f, Values(u), 10, m) /\ Positional(Values(u), 10) = f[m]
    BY ONLY <2>1, m \in Nat, 10 \in Nat, PositionalIs
  <2> QED BY <2>2, ValuesAre
<1>3. PICK g : IsValue(g, Values(v), 10, n) /\ Number(v) = g[n]
  <2>1. Values(v) \in [1 .. n -> Nat] /\ Len(Values(v)) = n
    BY <1>1, ValuesAre
  <2>2. \E g : IsValue(g, Values(v), 10, n) /\ Positional(Values(v), 10) = g[n]
    BY ONLY <2>1, n \in Nat, 10 \in Nat, PositionalIs
  <2> QED BY <2>2, ValuesAre
<1>4. PICK h : IsValue(h, Values(w), 10, m + n) /\ Number(w) = h[m + n]
  <2>1. Values(w) \in [1 .. m + n -> Nat] /\ Len(Values(w)) = m + n /\ m + n \in Nat
    BY <1>1, ValuesAre
  <2>2. \E h : IsValue(h, Values(w), 10, m + n) /\ Positional(Values(w), 10) = h[m + n]
    BY ONLY <2>1, 10 \in Nat, PositionalIs
  <2> QED BY <2>2, ValuesAre
<1>5. /\ \A x \in 1 .. m : Values(w)[x] = Values(u)[x]
      /\ \A x \in 1 .. n : Values(w)[m + x] = Values(v)[x]
  <2>1. \A x \in 1 .. m : x \in 1 .. m + n
    OBVIOUS
  <2>2. \A x \in 1 .. n : m + x \in 1 .. m + n
    OBVIOUS
  <2> QED BY ONLY <1>1, <2>1, <2>2, \A x \in 1 .. Len(u) : w[x] = u[x],
                  \A x \in 1 .. Len(v) : w[Len(u) + x] = v[x] DEF Values
<1>6. h[m] = f[m]
  <2>1. \A x \in 1 .. m : x \in 1 .. m + n
    OBVIOUS
  <2>2. h[0] = f[0] /\ \A x \in 1 .. m : h[x - 1] = f[x - 1] => h[x] = f[x]
    BY ONLY <1>2, <1>4, <1>5, <2>1 DEF IsValue
  <2> DEFINE P == {x \in 0 .. m : h[x] = f[x]}
  <2>3. 0 \in P /\ \A x \in 1 .. m : x - 1 \in P => x \in P
    <3>1. 0 \in 0 .. m /\ \A x \in 1 .. m : x \in 0 .. m
      OBVIOUS
    <3> QED BY ONLY <2>2, <3>1
  <2> HIDE DEF P
  <2>4. \A x \in 0 .. m : x \in P
    BY ONLY <2>3, m \in Nat, UpTo
  <2>5. m \in 0 .. m
    OBVIOUS
  <2> QED BY ONLY <2>4, <2>5 DEF P
<1>7. PICK U \in Nat : U = f[m]
  BY <1>2 DEF IsValue
<1> DEFINE Right == {x \in 0 .. n : h[m + x] = U * Power(10, x) + g[x]}
<1>8. 0 \in Right
  <2>1. g[0] = 0 /\ Power(10, 0) = 1 /\ m + 0 = m /\ 0 \in 0 .. n
    BY <1>3, PowerNext DEF IsValue
  <2>2. U * 1 + 0 = U
    OBVIOUS
  <2> QED BY ONLY <1>6, <1>7, <2>1, <2>2
<1>9. ASSUME NEW x \in 1 .. n, x - 1 \in Right PROVE x \in Right
  <2>1. PICK y \in Nat : y = x - 1 /\ y + 1 = x /\ y \in 0 .. n /\ x \in 0 .. n
    OBVIOUS
  <2>2. PICK c \in Nat, z \in Nat : c = g[y] /\ z = Values(v)[x] /\ g[x] = c * 10 + z
    <3>1. Values(v) \in [1 .. n -> Nat]
      BY <1>1, ValuesAre
    <3>2. g[y] \in Nat /\ Values(v)[x] \in Nat
      BY ONLY <1>3, <2>1, <3>1, x \in 1 .. n DEF IsValue
    <3> QED BY ONLY <1>3, <2>1, <3>2, x \in 1 .. n DEF IsValue
  <2>3. PICK o \in Nat : o = Power(10, y) /\ Power(10, x) = o * 10
    <3>1. Power(10, y) \in Nat /\ Power(10, y + 1) = Power(10, y) * 10
      BY ONLY y \in Nat, 10 \in Nat, PowerNext
    <3> QED BY ONLY <2>1, <3>1
  <2>4. PICK t \in Nat : t = U * o
    OBVIOUS
  <2>5. h[m + y] = t + c
    BY ONLY <1>9, <2>1, <2>2, <2>3, <2>4
  <2>6. h[m + x] = h[m + y] * 10 + z
    <3>1. m + x \in 1 .. m + n /\ (m + x) - 1 = m + y
      BY <2>1
    <3> QED BY ONLY <1>4, <1>5, <2>2, <3>1, x \in 1 .. n DEF IsValue
  <2>7. U * (o * 10) = t * 10
    BY <2>4
  <2>8. h[m + x] = U * Power(10, x) + g[x]
    BY ONLY <2>2, <2>3, <2>5, <2>6, <2>7, t \in Nat, c \in Nat, z \in Nat
  <2> QED BY ONLY <2>1, <2>8
<1>10. n \in Right
  <2> HIDE DEF Right
  <2>1. n \in 0 .. n
    OBVIOUS
  <2> QED BY ONLY <1>8, <1>9, <2>1, n \in Nat, UpTo
<1>11. g[n] \in Nat
  BY ONLY <1>3, n \in Nat DEF IsValue
<1> QED BY ONLY <1>1, <1>2, <1>3, <1>4, <1>7, <1>10, <1>11

-----------------------------------------------------------------------------
(* The parts of a decimal. *)

(* A text that stands in another one. *)
Part(t, from, u) ==
  /\ from \in Nat /\ from + Len(u) <= Len(t)
  /\ \A x \in 0 .. Len(u) - 1 : At(t, from + x) = At(u, x)

Joined(t, u, v) ==
  /\ t \in Texts /\ Len(t) = Len(u) + Len(v) /\ Len(u) \in Nat /\ Len(v) \in Nat
  /\ \A x \in 0 .. Len(u) - 1 : At(t, x) = At(u, x)
  /\ \A x \in Nat : At(t, Len(u) + x) = At(v, x)

(* A text behind another one. *)
LEMMA JoinedIs ==
  ASSUME NEW u \in Texts, NEW v \in Texts, NEW t, t = u \o v
  PROVE  Joined(t, u, v)
<1>1. PICK C : C = 1 .. 255
  OBVIOUS
<1>2. u \in Seq(C) /\ v \in Seq(C)
  BY <1>1 DEF Texts
<1>3. Len(u) \in Nat /\ Len(v) \in Nat
  BY ONLY <1>2, LenProperties
<1>4. /\ t \in Seq(C) /\ Len(t) = Len(u) + Len(v)
      /\ \A x \in 1 .. Len(u) + Len(v) : t[x] = IF x <= Len(u) THEN u[x] ELSE v[x - Len(u)]
  BY ONLY <1>2, t = u \o v, ConcatProperties
<1>5. ASSUME NEW x \in 0 .. Len(u) - 1 PROVE At(t, x) = At(u, x)
  <2>1. /\ x + 1 \in 1 .. Len(u) + Len(v) /\ x + 1 <= Len(u) /\ x < Len(u) /\ x < Len(t)
    BY ONLY <1>3, <1>4, x \in 0 .. Len(u) - 1
  <2>2. t[x + 1] = u[x + 1]
    BY ONLY <1>4, <2>1
  <2> QED BY ONLY <2>1, <2>2 DEF At
<1>6. ASSUME NEW x \in Nat PROVE At(t, Len(u) + x) = At(v, x)
  <2>1. CASE x < Len(v)
    <3>1. PICK y \in Nat : /\ y = Len(u) + x /\ y < Len(t) /\ y + 1 \in 1 .. Len(u) + Len(v)
                           /\ ~ (y + 1 <= Len(u)) /\ (y + 1) - Len(u) = x + 1
      <4>1. Len(u) + x \in Nat /\ Len(u) + x < Len(t)
        BY ONLY <1>3, <1>4, <2>1, x \in Nat
      <4>2. Len(u) + x + 1 <= Len(u) + Len(v)
        BY ONLY <1>3, <2>1, x \in Nat
      <4> QED BY ONLY <1>3, <4>1, <4>2, x \in Nat
    <3>2. t[y + 1] = v[x + 1]
      BY ONLY <1>4, <3>1
    <3> QED BY ONLY <2>1, <3>1, <3>2 DEF At
  <2>2. CASE ~ (x < Len(v))
    <3>1. ~ (Len(u) + x < Len(t))
      BY ONLY <1>3, <1>4, <2>2, x \in Nat
    <3> QED BY ONLY <2>2, <3>1 DEF At
  <2> QED BY ONLY <2>1, <2>2
<1>7. t \in Texts
  BY ONLY <1>1, <1>4 DEF Texts
<1> QED BY ONLY <1>3, <1>4, <1>5, <1>6, <1>7 DEF Joined

(* What stands in the first of two texts stands in both, and so does the    *)
(* second, with what is behind the first at its end.                        *)
LEMMA PartOfFirst ==
  ASSUME NEW u \in Texts, NEW v \in Texts, NEW t, t = u \o v,
         NEW w \in Texts, NEW from, Part(u, from, w)
  PROVE  Part(t, from, w)
<1>1. /\ Len(t) = Len(u) + Len(v) /\ Len(u) \in Nat /\ Len(v) \in Nat
      /\ \A x \in 0 .. Len(u) - 1 : At(t, x) = At(u, x)
  <2>1. Joined(t, u, v)
    BY ONLY u \in Texts, v \in Texts, t = u \o v, JoinedIs
  <2> QED BY ONLY <2>1 DEF Joined
<1>2. Len(w) \in Nat
  BY DEF Texts
<1>3. from \in Nat /\ from + Len(w) <= Len(u)
  BY DEF Part
<1>4. ASSUME NEW x \in 0 .. Len(w) - 1 PROVE At(t, from + x) = At(w, x)
  <2>1. from + x \in 0 .. Len(u) - 1
    BY ONLY <1>1, <1>2, <1>3, x \in 0 .. Len(w) - 1
  <2> QED BY ONLY <1>1, <2>1, x \in 0 .. Len(w) - 1, Part(u, from, w) DEF Part
<1> QED BY ONLY <1>1, <1>2, <1>3, <1>4 DEF Part

(* The second of two texts stands behind the first. *)
LEMMA PartSecond ==
  ASSUME NEW u \in Texts, NEW v \in Texts, NEW t, t = u \o v
  PROVE  Part(t, Len(u), v) /\ At(t, Len(u)) = At(v, 0)
<1>1. /\ Len(t) = Len(u) + Len(v) /\ Len(u) \in Nat /\ Len(v) \in Nat
      /\ \A x \in Nat : At(t, Len(u) + x) = At(v, x)
  <2>1. Joined(t, u, v)
    BY ONLY u \in Texts, v \in Texts, t = u \o v, JoinedIs
  <2> QED BY ONLY <2>1 DEF Joined
<1>2. \A x \in 0 .. Len(v) - 1 : x \in Nat
  BY <1>1
<1>3. Part(t, Len(u), v)
  BY ONLY <1>1, <1>2 DEF Part
<1>4. Len(u) + 0 = Len(u) /\ 0 \in Nat
  BY <1>1
<1> QED BY ONLY <1>1, <1>3, <1>4

(* The fields of a decimal. *)
DecimalIn(d) ==
  /\ d.blanks \in Seq(Spaces) /\ d.rest \in Texts
  /\ d.whole \in Seq(Digits10) /\ d.fraction \in Seq(Digits10) /\ d.expo \in Seq(Digits10)
  /\ d.sign \in {<< >>, <<43>>, <<45>>} /\ d.expoSign \in {<< >>, <<43>>, <<45>>}
  /\ d.point \in {<< >>, <<46>>} /\ d.e \in {<< >>, <<69>>, <<101>>}

(* The parts of a decimal, in numbers. *)
LEMMA DecimalFields ==
  ASSUME NEW d, IsDecimal(d)
  PROVE  DecimalIn(d)
<1>1. Ascii.plus = 43 /\ Ascii.minus = 45 /\ Ascii.dot = 46 /\ Ascii.E = 69 /\ Ascii.e = 101
  BY DEF Ascii
<1>2. Signs = {<< >>, <<43>>, <<45>>}
  BY ONLY <1>1 DEF Signs
<1>3. d.point \in {<< >>, <<46>>} /\ d.e \in {<< >>, <<69>>, <<101>>}
  BY ONLY <1>1, IsDecimal(d) DEF IsDecimal
<1>4. /\ d.sign \in Signs /\ d.expoSign \in Signs /\ d.blanks \in Seq(Spaces) /\ d.rest \in Texts
      /\ d.whole \in Seq(Digits10) /\ d.fraction \in Seq(Digits10) /\ d.expo \in Seq(Digits10)
  BY ONLY IsDecimal(d) DEF IsDecimal
<1> QED BY ONLY <1>2, <1>3, <1>4 DEF DecimalIn

(* The parts of a decimal are texts. *)
LEMMA PartsAreTexts ==
  ASSUME NEW d, IsDecimal(d)
  PROVE  {d.blanks, d.sign, d.whole, d.point, d.fraction, d.e, d.expoSign, d.expo, d.rest}
           \subseteq Texts
<1>1. PICK C : C = 1 .. 255
  OBVIOUS
<1>2. Seq(Spaces) \subseteq Seq(C) /\ Seq(Digits10) \subseteq Seq(C)
  <2>1. Spaces \subseteq C /\ Digits10 \subseteq C
    BY <1>1, SpacesAre
  <2>2. ASSUME NEW A, A \subseteq C PROVE Seq(A) \subseteq Seq(C)
    <3> SUFFICES ASSUME NEW w \in Seq(A) PROVE w \in Seq(C)
      OBVIOUS
    <3> QED BY ONLY A \subseteq C, w \in Seq(A)
  <2> QED BY ONLY <2>1, <2>2
<1>3. << >> \in Seq(C)
  OBVIOUS
<1>4. \A c \in C : <<c>> \in Seq(C)
  OBVIOUS
<1>5. \A c \in {43, 45, 46, 69, 101} : <<c>> \in Seq(C)
  BY ONLY <1>1, <1>4
<1>6. /\ d.blanks \in Seq(C) /\ d.rest \in Seq(C)
      /\ d.whole \in Seq(C) /\ d.fraction \in Seq(C) /\ d.expo \in Seq(C)
  BY ONLY <1>1, <1>2, IsDecimal(d) DEF IsDecimal, Texts
<1>7. d.sign \in Seq(C) /\ d.expoSign \in Seq(C) /\ d.point \in Seq(C) /\ d.e \in Seq(C)
  <2>1. /\ d.sign \in {<< >>, <<43>>, <<45>>} /\ d.expoSign \in {<< >>, <<43>>, <<45>>}
        /\ d.point \in {<< >>, <<46>>} /\ d.e \in {<< >>, <<69>>, <<101>>}
    BY DecimalFields DEF DecimalIn
  <2>2. /\ <<43>> \in Seq(C) /\ <<45>> \in Seq(C) /\ <<46>> \in Seq(C) /\ <<69>> \in Seq(C)
        /\ <<101>> \in Seq(C)
    BY ONLY <1>5
  <2>3. PICK S : S = Seq(C)
    OBVIOUS
  <2>4. PICK e, c43, c45, c46, c69, c101 :
          /\ e = << >> /\ c43 = <<43>> /\ c45 = <<45>> /\ c46 = <<46>> /\ c69 = <<69>>
          /\ c101 = <<101>>
    OBVIOUS
  <2>5. {e, c43, c45, c46, c69, c101} \subseteq S
    BY ONLY <1>3, <2>2, <2>3, <2>4
  <2>6. /\ d.sign \in {e, c43, c45} /\ d.expoSign \in {e, c43, c45}
        /\ d.point \in {e, c46} /\ d.e \in {e, c69, c101}
    BY ONLY <2>1, <2>4
  <2> QED BY ONLY <2>3, <2>5, <2>6
<1>8. Texts = Seq(C)
  BY ONLY <1>1 DEF Texts
<1> QED BY ONLY <1>6, <1>7, <1>8

(* Where the parts stand. *)
Parts(d, s, n0, n1, n2, m, n3, n4, n5, n6) ==
  /\ Part(s, 0, d.blanks) /\ n0 = Len(d.blanks)
  /\ Part(s, n0, d.sign) /\ n1 = n0 + Len(d.sign)
  /\ Part(s, n1, d.whole) /\ n2 = n1 + Len(d.whole)
  /\ Part(s, n2, d.point) /\ m = n2 + Len(d.point)
  /\ Part(s, m, d.fraction) /\ n3 = m + Len(d.fraction)
  /\ Part(s, n3, d.e) /\ n4 = n3 + Len(d.e)
  /\ Part(s, n4, d.expoSign) /\ n5 = n4 + Len(d.expoSign)
  /\ Part(s, n5, d.expo) /\ n6 = n5 + Len(d.expo)
  /\ At(s, n6) = At(d.rest, 0) /\ Len(s) = n6 + Len(d.rest)

(* The parts of a decimal stand behind each other in its text. *)
LEMMA PartsAre ==
  ASSUME NEW d, IsDecimal(d), NEW s, s = DecimalText(d)
  PROVE  s \in Texts /\ \E n0, n1, n2, m, n3, n4, n5, n6 : Parts(d, s, n0, n1, n2, m, n3, n4, n5, n6)
<1>1. /\ d.blanks \in Texts /\ d.sign \in Texts /\ d.whole \in Texts /\ d.point \in Texts
      /\ d.fraction \in Texts /\ d.e \in Texts /\ d.expoSign \in Texts /\ d.expo \in Texts
      /\ d.rest \in Texts
  BY PartsAreTexts
<1>2. PICK t1 : t1 = d.blanks \o d.sign
  OBVIOUS
<1>3. PICK t2 : t2 = t1 \o d.whole
  OBVIOUS
<1>4. PICK t3 : t3 = t2 \o d.point
  OBVIOUS
<1>5. PICK t4 : t4 = t3 \o d.fraction
  OBVIOUS
<1>6. PICK t5 : t5 = t4 \o d.e
  OBVIOUS
<1>7. PICK t6 : t6 = t5 \o d.expoSign
  OBVIOUS
<1>8. PICK t7 : t7 = t6 \o d.expo
  OBVIOUS
<1>9. s = t7 \o d.rest
  BY ONLY <1>2, <1>3, <1>4, <1>5, <1>6, <1>7, <1>8, s = DecimalText(d) DEF DecimalText
<1>10. t1 \in Texts /\ Len(t1) = Len(d.blanks) + Len(d.sign)
  BY ONLY <1>1, <1>2, JoinedIs DEF Joined
<1>11. t2 \in Texts /\ Len(t2) = Len(t1) + Len(d.whole)
  BY ONLY <1>1, <1>3, <1>10, JoinedIs DEF Joined
<1>12. t3 \in Texts /\ Len(t3) = Len(t2) + Len(d.point)
  BY ONLY <1>1, <1>4, <1>11, JoinedIs DEF Joined
<1>13. t4 \in Texts /\ Len(t4) = Len(t3) + Len(d.fraction)
  BY ONLY <1>1, <1>5, <1>12, JoinedIs DEF Joined
<1>14. t5 \in Texts /\ Len(t5) = Len(t4) + Len(d.e)
  BY ONLY <1>1, <1>6, <1>13, JoinedIs DEF Joined
<1>15. t6 \in Texts /\ Len(t6) = Len(t5) + Len(d.expoSign)
  BY ONLY <1>1, <1>7, <1>14, JoinedIs DEF Joined
<1>16. t7 \in Texts /\ Len(t7) = Len(t6) + Len(d.expo)
  BY ONLY <1>1, <1>8, <1>15, JoinedIs DEF Joined
<1>17. s \in Texts /\ Len(s) = Len(t7) + Len(d.rest)
  BY ONLY <1>1, <1>9, <1>16, JoinedIs DEF Joined
<1>18. \A w \in Texts, from \in Nat : Part(t7, from, w) => Part(s, from, w)
  BY ONLY <1>1, <1>9, <1>16, PartOfFirst
<1>19. \A w \in Texts, from \in Nat : Part(t6, from, w) => Part(s, from, w)
  BY ONLY <1>1, <1>8, <1>15, <1>18, PartOfFirst
<1>20. \A w \in Texts, from \in Nat : Part(t5, from, w) => Part(s, from, w)
  BY ONLY <1>1, <1>7, <1>14, <1>19, PartOfFirst
<1>21. \A w \in Texts, from \in Nat : Part(t4, from, w) => Part(s, from, w)
  BY ONLY <1>1, <1>6, <1>13, <1>20, PartOfFirst
<1>22. \A w \in Texts, from \in Nat : Part(t3, from, w) => Part(s, from, w)
  BY ONLY <1>1, <1>5, <1>12, <1>21, PartOfFirst
<1>23. \A w \in Texts, from \in Nat : Part(t2, from, w) => Part(s, from, w)
  BY ONLY <1>1, <1>4, <1>11, <1>22, PartOfFirst
<1>24. \A w \in Texts, from \in Nat : Part(t1, from, w) => Part(s, from, w)
  BY ONLY <1>1, <1>3, <1>10, <1>23, PartOfFirst
<1>25. \A u \in Texts : Len(u) \in Nat
  BY ONLY AtIs, 0 \in Nat
<1>26. Part(s, 0, d.blanks)
  <2>1. Part(d.blanks, 0, d.blanks)
    BY ONLY <1>1, <1>25 DEF Part
  <2>2. Part(t1, 0, d.blanks)
    <3>1. PICK w \in Texts, v \in Texts : w = d.blanks /\ v = d.sign
      BY ONLY <1>1
    <3>2. PICK from : from = 0
      OBVIOUS
    <3>4. Part(w, from, w) /\ t1 = w \o v
      BY ONLY <1>2, <2>1, <3>1, <3>2
    <3>5. Part(t1, from, w)
      BY ONLY <3>4, w \in Texts, v \in Texts, PartOfFirst
    <3>3. Part(t1, 0, w)
      BY ONLY <3>2, <3>5
    <3> QED BY ONLY <3>1, <3>3
  <2> QED BY ONLY <1>1, <1>24, <2>2, 0 \in Nat
<1>27. Part(s, Len(d.blanks), d.sign)
  BY ONLY <1>1, <1>2, <1>24, <1>25, PartSecond
<1>28. Part(s, Len(t1), d.whole)
  BY ONLY <1>1, <1>3, <1>10, <1>23, <1>25, PartSecond
<1>29. Part(s, Len(t2), d.point)
  BY ONLY <1>1, <1>4, <1>11, <1>22, <1>25, PartSecond
<1>30. Part(s, Len(t3), d.fraction)
  BY ONLY <1>1, <1>5, <1>12, <1>21, <1>25, PartSecond
<1>31. Part(s, Len(t4), d.e)
  BY ONLY <1>1, <1>6, <1>13, <1>20, <1>25, PartSecond
<1>32. Part(s, Len(t5), d.expoSign)
  BY ONLY <1>1, <1>7, <1>14, <1>19, <1>25, PartSecond
<1>33. Part(s, Len(t6), d.expo)
  BY ONLY <1>1, <1>8, <1>15, <1>18, <1>25, PartSecond
<1>34. At(s, Len(t7)) = At(d.rest, 0)
  BY ONLY <1>1, <1>9, <1>16, PartSecond
<1>35. Parts(d, s, Len(d.blanks), Len(t1), Len(t2), Len(t3), Len(t4), Len(t5), Len(t6), Len(t7))
  BY ONLY <1>10, <1>11, <1>12, <1>13, <1>14, <1>15, <1>16, <1>17, <1>26, <1>27, <1>28, <1>29,
          <1>30, <1>31, <1>32, <1>33, <1>34 DEF Parts
<1> QED BY ONLY <1>17, <1>35

(* The characters at the places of the parts. *)
Sign(s, from, to) ==
  /\ to = from \/ to = from + 1
  /\ to = from + 1 => At(s, from) \in {43, 45}

Places9(s, n0, n1, n2, m, n3, n4, n5, n6) ==
  /\ n0 \in Nat /\ n1 \in Nat /\ n2 \in Nat /\ m \in Nat /\ n3 \in Nat /\ n4 \in Nat
  /\ n5 \in Nat /\ n6 \in Nat /\ Len(s) \in Nat
  /\ n0 <= n1 /\ n1 <= n2 /\ n2 <= m /\ m <= n3 /\ n3 <= n4 /\ n4 <= n5 /\ n5 <= n6
  /\ n6 <= Len(s)

DecimalScanned(s, n0, n1, n2, m, n3, n4, n5, n6) ==
  /\ Places9(s, n0, n1, n2, m, n3, n4, n5, n6)
  /\ \A x \in 0 .. n0 - 1 : At(s, x) \in Spaces
  /\ \A x \in n1 .. n2 - 1 : At(s, x) \in Digits10
  /\ \A x \in m .. n3 - 1 : At(s, x) \in Digits10
  /\ \A x \in n5 .. n6 - 1 : At(s, x) \in Digits10
  /\ Sign(s, n0, n1) /\ Sign(s, n4, n5)
  /\ m = n2 \/ m = n2 + 1
  /\ m = n2 + 1 => At(s, n2) = 46
  /\ m = n2 => n3 = m
  /\ n4 = n3 \/ n4 = n3 + 1
  /\ n4 = n3 + 1 => At(s, n3) \in {69, 101} /\ n5 < n6
  /\ n4 = n3 => n6 = n3
  /\ n1 < n2 \/ m < n3
  /\ At(s, n6) \notin Digits10
  /\ n4 = n3 => At(s, n6) \notin {69, 101}
  /\ n4 = n3 /\ m = n2 => At(s, n6) /= 46

(* The characters of a part are its elements. *)
LEMMA PartChars ==
  ASSUME NEW s \in Texts, NEW A, NEW u \in Seq(A), NEW from, Part(s, from, u)
  PROVE  /\ Len(u) \in Nat /\ from \in Nat /\ from + Len(u) <= Len(s)
         /\ \A x \in from .. from + Len(u) - 1 : At(s, x) \in A
<1>1. Len(u) \in Nat /\ \A x \in 1 .. Len(u) : u[x] \in A
  <2>1. Len(u) \in Nat
    BY ONLY u \in Seq(A), LenProperties
  <2> QED BY ONLY <2>1, u \in Seq(A), ElementOfSeq
<1>2. from \in Nat /\ from + Len(u) <= Len(s)
  BY DEF Part
<1>3. ASSUME NEW x \in from .. from + Len(u) - 1 PROVE At(s, x) \in A
  <2>1. PICK y \in 0 .. Len(u) - 1 : x = from + y /\ y < Len(u) /\ y + 1 \in 1 .. Len(u)
    <3>1. x - from \in 0 .. Len(u) - 1 /\ x = from + (x - from)
      BY ONLY <1>1, <1>2, x \in from .. from + Len(u) - 1
    <3> QED BY ONLY <1>1, <3>1
  <2>2. At(s, x) = At(u, y)
    BY ONLY <2>1, Part(s, from, u) DEF Part
  <2>3. At(u, y) = u[y + 1]
    BY ONLY <2>1 DEF At
  <2> QED BY ONLY <1>1, <2>1, <2>2, <2>3
<1> QED BY ONLY <1>1, <1>2, <1>3

(* A part of at most one character. *)
LEMMA PartOne ==
  ASSUME NEW s, NEW A, NEW u, u = << >> \/ \E c \in A : u = <<c>>, NEW from, Part(s, from, u)
  PROVE  /\ Len(u) = 0 <=> u = << >>
         /\ Len(u) = 0 \/ Len(u) = 1
         /\ Len(u) = 1 => At(s, from) \in A /\ u = <<At(s, from)>>
<1>1. CASE u = << >>
  <2>1. Len(u) = 0
    BY ONLY <1>1
  <2> QED BY ONLY <1>1, <2>1
<1>2. CASE \E c \in A : u = <<c>>
  <2>1. PICK c \in A : u = <<c>>
    BY <1>2
  <2>2. Len(u) = 1 /\ u[1] = c /\ u /= << >>
    BY ONLY <2>1
  <2>3. from \in Nat /\ At(s, from + 0) = At(u, 0)
    <3>1. 0 \in 0 .. Len(u) - 1
      BY ONLY <2>2
    <3> QED BY ONLY <3>1, Part(s, from, u) DEF Part
  <2>4. At(u, 0) = c /\ from + 0 = from
    <3>1. 0 < 1 /\ 0 + 1 = 1
      OBVIOUS
    <3> QED BY ONLY <2>2, <2>3, <3>1 DEF At
  <2>5. At(s, from) = c
    BY ONLY <2>3, <2>4
  <2> QED BY ONLY <2>1, <2>2, <2>5, c \in A
<1> QED BY ONLY <1>1, <1>2, u = << >> \/ \E c \in A : u = <<c>>

(* Two parts are empty together, or one of them is not. *)
LEMMA BothEmpty ==
  ASSUME NEW A, NEW u \in Seq(A), NEW v \in Seq(A)
  PROVE  /\ Len(u) \in Nat /\ Len(v) \in Nat
         /\ u \o v = << >> <=> Len(u) = 0 /\ Len(v) = 0
         /\ u = << >> <=> Len(u) = 0
<1>1. Len(u) \in Nat /\ Len(v) \in Nat
  BY ONLY u \in Seq(A), v \in Seq(A), LenProperties
<1>2. Len(u \o v) = Len(u) + Len(v) /\ u \o v \in Seq(A)
  BY ONLY u \in Seq(A), v \in Seq(A), ConcatProperties
<1>3. \A w \in Seq(A) : w = << >> <=> Len(w) = 0
  BY ONLY EmptySeq
<1>4. PICK w \in Seq(A) : w = u \o v /\ Len(w) = Len(u) + Len(v)
  BY ONLY <1>2
<1>5. Len(u) + Len(v) = 0 <=> Len(u) = 0 /\ Len(v) = 0
  BY ONLY <1>1
<1> QED BY ONLY <1>1, <1>3, <1>4, <1>5, u \in Seq(A)

(* A sign is there or not, and is the character at its place. *)
LEMMA SignIs ==
  ASSUME NEW s, NEW u, u \in {<< >>, << 43 >>, << 45 >>}, NEW from \in Nat, NEW to,
         to = from + Len(u), Part(s, from, u)
  PROVE  /\ Sign(s, from, to)
         /\ u = <<45>> <=> to = from + 1 /\ At(s, from) = 45
         /\ Len(u) = to - from /\ to \in Nat
<1>1. PICK A : A = {43, 45}
  OBVIOUS
<1>2. u = << >> \/ \E c \in A : u = <<c>>
  BY ONLY <1>1, u \in {<< >>, <<43>>, <<45>>}
<1>3. /\ Len(u) = 0 <=> u = << >>
      /\ Len(u) = 0 \/ Len(u) = 1
      /\ Len(u) = 1 => At(s, from) \in A /\ u = <<At(s, from)>>
  BY ONLY <1>2, Part(s, from, u), PartOne
<1>4. CASE Len(u) = 0
  <2>1. u /= <<45>>
    <3>1. PICK w : w = <<45>>
      OBVIOUS
    <3>2. Len(w) = 1
      BY ONLY <3>1
    <3> QED BY ONLY <1>4, <3>1, <3>2
  <2>2. to = from /\ to /= from + 1
    BY ONLY <1>4, from \in Nat, to = from + Len(u)
  <2> QED BY ONLY <1>4, <2>1, <2>2, from \in Nat DEF Sign
<1>5. CASE Len(u) = 1
  <2>1. PICK c : c = At(s, from)
    OBVIOUS
  <2>2. c \in {43, 45} /\ u = <<c>>
    BY ONLY <1>1, <1>3, <1>5, <2>1
  <2>3. u[1] = c /\ <<45>>[1] = 45
    BY ONLY <2>2
  <2>4. u = <<45>> <=> c = 45
    BY ONLY <2>2, <2>3
  <2>5. to = from + 1
    BY ONLY <1>5, to = from + Len(u)
  <2> QED BY ONLY <1>5, <2>1, <2>2, <2>4, <2>5, from \in Nat DEF Sign
<1> QED BY ONLY <1>3, <1>4, <1>5

(* The characters of a well-formed decimal are where they should be. *)
LEMMA ScannedIs ==
  ASSUME NEW d, IsDecimal(d), WellFormed(d), NEW s \in Texts,
         NEW n0, NEW n1, NEW n2, NEW m, NEW n3, NEW n4, NEW n5, NEW n6,
         Parts(d, s, n0, n1, n2, m, n3, n4, n5, n6)
  PROVE  DecimalScanned(s, n0, n1, n2, m, n3, n4, n5, n6)
<1>31. Part(s, 0, d.blanks) /\ n0 = Len(d.blanks)
  BY DEF Parts
<1>32. Part(s, n0, d.sign) /\ n1 = n0 + Len(d.sign)
  BY DEF Parts
<1>33. Part(s, n1, d.whole) /\ n2 = n1 + Len(d.whole)
  BY DEF Parts
<1>34. Part(s, n2, d.point) /\ m = n2 + Len(d.point)
  BY DEF Parts
<1>35. Part(s, m, d.fraction) /\ n3 = m + Len(d.fraction)
  BY DEF Parts
<1>36. Part(s, n3, d.e) /\ n4 = n3 + Len(d.e)
  BY DEF Parts
<1>37. Part(s, n4, d.expoSign) /\ n5 = n4 + Len(d.expoSign)
  BY DEF Parts
<1>38. Part(s, n5, d.expo) /\ n6 = n5 + Len(d.expo)
  BY DEF Parts
<1>39. At(s, n6) = At(d.rest, 0) /\ Len(s) = n6 + Len(d.rest)
  BY DEF Parts
<1>41. /\ d.blanks \in Seq(Spaces) /\ d.whole \in Seq(Digits10)
       /\ d.fraction \in Seq(Digits10) /\ d.expo \in Seq(Digits10)
  BY DecimalFields DEF DecimalIn
<1>42. d.sign \in {<< >>, <<43>>, <<45>>} /\ d.expoSign \in {<< >>, <<43>>, <<45>>}
  BY DecimalFields DEF DecimalIn
<1>43. d.point \in {<< >>, <<46>>}
  BY DecimalFields DEF DecimalIn
<1>44. d.e \in {<< >>, <<69>>, <<101>>}
  BY DecimalFields DEF DecimalIn
<1>3. n0 \in Nat /\ \A x \in 0 .. n0 - 1 : At(s, x) \in Spaces
  <2>1. /\ Len(d.blanks) \in Nat
        /\ \A x \in 0 .. 0 + Len(d.blanks) - 1 : At(s, x) \in Spaces
    BY ONLY <1>31, <1>41, s \in Texts, PartChars
  <2>2. 0 + Len(d.blanks) - 1 = n0 - 1
    BY ONLY <1>31, <2>1
  <2> QED BY ONLY <1>31, <2>1, <2>2
<1>4. Sign(s, n0, n1) /\ n1 \in Nat /\ n0 <= n1
  <2>1. Sign(s, n0, n1)
    BY ONLY <1>3, <1>32, <1>42, SignIs
  <2> QED BY ONLY <1>3, <2>1 DEF Sign
<1>5. Len(d.whole) \in Nat /\ \A x \in n1 .. n2 - 1 : At(s, x) \in Digits10
  BY ONLY <1>33, <1>41, s \in Texts, PartChars
<1>6. n2 \in Nat /\ n1 <= n2 /\ (n1 < n2 <=> Len(d.whole) /= 0)
  BY ONLY <1>33, <1>4, <1>5
<1>7. /\ Len(d.point) = 0 <=> d.point = << >>
      /\ Len(d.point) = 0 \/ Len(d.point) = 1
      /\ Len(d.point) = 1 => At(s, n2) = 46
  <2>1. PICK A : A = {46}
    OBVIOUS
  <2>2. d.point = << >> \/ \E c \in A : d.point = <<c>>
    BY ONLY <1>43, <2>1
  <2>3. /\ Len(d.point) = 0 <=> d.point = << >>
        /\ Len(d.point) = 0 \/ Len(d.point) = 1
        /\ Len(d.point) = 1 => At(s, n2) \in A
    BY ONLY <1>34, <2>2, PartOne
  <2> QED BY ONLY <2>1, <2>3
<1>8. m \in Nat /\ (m = n2 \/ m = n2 + 1) /\ (m = n2 <=> d.point = << >>) /\ (m = n2 + 1 => At(s, n2) = 46)
  <2>1. PICK lp : lp = Len(d.point)
    OBVIOUS
  <2>2. (lp = 0 <=> d.point = << >>) /\ (lp = 0 \/ lp = 1) /\ (lp = 1 => At(s, n2) = 46) /\ m = n2 + lp
    BY ONLY <1>34, <1>7, <2>1
  <2>4. m \in Nat /\ (m = n2 \/ m = n2 + 1) /\ (m = n2 <=> lp = 0) /\ (m = n2 + 1 => lp = 1)
    BY ONLY <1>6, <2>2
  <2> QED BY ONLY <2>1, <2>2, <2>4
<1>9. Len(d.fraction) \in Nat /\ \A x \in m .. n3 - 1 : At(s, x) \in Digits10
  BY ONLY <1>35, <1>41, s \in Texts, PartChars
<1>10. n3 \in Nat /\ m <= n3 /\ (m < n3 <=> Len(d.fraction) /= 0) /\ (n3 = m <=> Len(d.fraction) = 0)
  BY ONLY <1>35, <1>8, <1>9
<1>11. /\ Len(d.e) = 0 <=> d.e = << >>
       /\ Len(d.e) = 0 \/ Len(d.e) = 1
       /\ Len(d.e) = 1 => At(s, n3) \in {69, 101}
  <2>1. PICK A : A = {69, 101}
    OBVIOUS
  <2>2. d.e = << >> \/ \E c \in A : d.e = <<c>>
    BY ONLY <1>44, <2>1
  <2>3. /\ Len(d.e) = 0 <=> d.e = << >>
        /\ Len(d.e) = 0 \/ Len(d.e) = 1
        /\ Len(d.e) = 1 => At(s, n3) \in A
    BY ONLY <1>36, <2>2, PartOne
  <2> QED BY ONLY <2>1, <2>3
<1>12. /\ n4 \in Nat /\ (n4 = n3 \/ n4 = n3 + 1) /\ (n4 = n3 <=> d.e = << >>)
       /\ n4 = n3 + 1 => At(s, n3) \in {69, 101}
  <2>1. PICK lp : lp = Len(d.e)
    OBVIOUS
  <2>2. (lp = 0 <=> d.e = << >>) /\ (lp = 0 \/ lp = 1) /\ (lp = 1 => At(s, n3) \in {69, 101}) /\ n4 = n3 + lp
    BY ONLY <1>36, <1>11, <2>1
  <2>4. n4 \in Nat /\ (n4 = n3 \/ n4 = n3 + 1) /\ (n4 = n3 <=> lp = 0) /\ (n4 = n3 + 1 => lp = 1)
    BY ONLY <1>10, <2>2
  <2> QED BY ONLY <2>1, <2>2, <2>4
<1>13. Sign(s, n4, n5) /\ n5 \in Nat /\ n4 <= n5 /\ Len(d.expoSign) = n5 - n4
  <2>1. Sign(s, n4, n5) /\ Len(d.expoSign) = n5 - n4
    BY ONLY <1>12, <1>37, <1>42, SignIs
  <2> QED BY ONLY <1>12, <2>1 DEF Sign
<1>14. Len(d.expo) \in Nat /\ \A x \in n5 .. n6 - 1 : At(s, x) \in Digits10
  BY ONLY <1>38, <1>41, s \in Texts, PartChars
<1>15. n6 \in Nat /\ n5 <= n6 /\ (n5 < n6 <=> Len(d.expo) /= 0)
  BY ONLY <1>38, <1>13, <1>14
<1>16. Places9(s, n0, n1, n2, m, n3, n4, n5, n6)
  <2>1. Len(s) \in Nat /\ Len(d.rest) \in Nat
    <3>1. d.rest \in Texts
      BY DecimalFields DEF DecimalIn
    <3> QED BY ONLY <3>1, s \in Texts, AtIs, 0 \in Nat
  <2>2. n2 <= m /\ n3 <= n4
    BY ONLY <1>6, <1>8, <1>10, <1>12
  <2>4. n6 <= Len(s)
    BY ONLY <1>39, <1>15, <2>1
  <2> QED BY ONLY <1>3, <1>4, <1>6, <1>8, <1>10, <1>12, <1>13, <1>15, <2>1, <2>2, <2>4 DEF Places9
<1>17. n1 < n2 \/ m < n3
  <2>1. d.whole \o d.fraction /= << >>
    BY DEF WellFormed
  <2>2. d.whole \o d.fraction = << >> <=> Len(d.whole) = 0 /\ Len(d.fraction) = 0
    BY ONLY <1>41, BothEmpty
  <2> QED BY ONLY <1>6, <1>10, <2>1, <2>2
<1>18. m = n2 => n3 = m
  <2>1. d.point = << >> => d.fraction = << >>
    BY DEF WellFormed
  <2>2. d.fraction = << >> <=> Len(d.fraction) = 0
    BY ONLY <1>41, BothEmpty
  <2> QED BY ONLY <1>8, <1>10, <2>1, <2>2
<1>19. n4 = n3 => n6 = n3
  <2>1. d.e = << >> => d.expoSign \o d.expo = << >>
    BY DEF WellFormed
  <2>2. d.expoSign \o d.expo = << >> => Len(d.expoSign) = 0 /\ Len(d.expo) = 0
    <3>1. PICK C : C = 1 .. 255
      OBVIOUS
    <3>2. d.expoSign \in Seq(C) /\ d.expo \in Seq(C)
      BY ONLY <3>1, PartsAreTexts, IsDecimal(d) DEF Texts
    <3> QED BY ONLY <3>2, BothEmpty
  <2>3. n4 = n3 => Len(d.expoSign) = 0 /\ Len(d.expo) = 0
    BY ONLY <1>12, <2>1, <2>2
  <2>4. ASSUME n4 = n3 PROVE n6 = n3
    <3>1. n5 = n4
      BY ONLY <1>12, <1>13, <2>3, <2>4
    <3> QED BY ONLY <1>38, <1>13, <2>3, <2>4, <3>1
  <2> QED BY ONLY <2>4
<1>20. n4 = n3 + 1 => n5 < n6
  <2>1. d.e /= << >> => d.expo /= << >>
    BY DEF WellFormed
  <2>2. d.expo = << >> <=> Len(d.expo) = 0
    BY ONLY <1>41, BothEmpty
  <2>3. n4 = n3 + 1 => d.e /= << >>
    BY ONLY <1>10, <1>12
  <2> QED BY ONLY <1>15, <2>1, <2>2, <2>3
<1>21. /\ At(d.rest, 0) \notin Digits10
       /\ d.e = << >> => At(d.rest, 0) \notin {69, 101}
       /\ d.point \o d.e = << >> => At(d.rest, 0) /= 46
  <2>1. Ascii.E = 69 /\ Ascii.e = 101 /\ Ascii.dot = 46
    BY DEF Ascii
  <2> QED BY <2>1 DEF WellFormed
<1>22. n4 = n3 /\ m = n2 => d.point \o d.e = << >>
  BY ONLY <1>8, <1>12
<1>23. /\ At(s, n6) \notin Digits10
       /\ n4 = n3 => At(s, n6) \notin {69, 101}
       /\ n4 = n3 /\ m = n2 => At(s, n6) /= 46
  BY ONLY <1>39, <1>12, <1>21, <1>22
<1> QED BY ONLY <1>3, <1>4, <1>5, <1>8, <1>9, <1>12, <1>13, <1>14, <1>16, <1>17, <1>18, <1>19,
                <1>20, <1>23 DEF DecimalScanned

(* A loop over a class ends where the class does. *)
LEMMA SkipEnds ==
  ASSUME NEW s \in Texts, NEW n \in Nat, NEW m \in Nat, n <= m, m <= Len(s), NEW class,
         0 \notin class, At(s, m) \notin class, \A x \in n .. m - 1 : At(s, x) \in class
  PROVE  Skip(s, n, class) = m
<1>1. Len(s) \in Nat
  BY ONLY s \in Texts, n \in Nat, AtIs
<1>2. n \in 0 .. Len(s) /\ m \in n .. Len(s)
  BY ONLY <1>1, n \in Nat, m \in Nat, n <= m, m <= Len(s)
<1>3. SkipsTo(s, n, class, m)
  BY ONLY <1>2, At(s, m) \notin class, \A x \in n .. m - 1 : At(s, x) \in class DEF SkipsTo
<1> QED BY ONLY <1>2, <1>3, s \in Texts, 0 \notin class, StopsOnce

(* The characters that end the parts. *)
Ends(s, n0, n1, n2, m, n3, n4, n5, n6) ==
  /\ At(s, n0) \notin Spaces
  /\ At(s, n0) \in {43, 45} <=> n1 = n0 + 1
  /\ At(s, n2) \notin Digits10
  /\ At(s, n2) = 46 <=> m = n2 + 1
  /\ At(s, n3) \notin Digits10
  /\ At(s, n3) \in {69, 101} <=> n4 = n3 + 1
  /\ At(s, n6) \notin Digits10
  /\ n4 = n3 + 1 => /\ At(s, n5) \in Digits10
                    /\ At(s, n4) \in {43, 45} <=> n5 = n4 + 1

(* The character behind a part does not continue it. *)
LEMMA EndsAre ==
  ASSUME NEW s \in Texts,
         NEW n0, NEW n1, NEW n2, NEW m, NEW n3, NEW n4, NEW n5, NEW n6,
         DecimalScanned(s, n0, n1, n2, m, n3, n4, n5, n6)
  PROVE  Ends(s, n0, n1, n2, m, n3, n4, n5, n6)
<1>1. /\ n0 \in Nat /\ n1 \in Nat /\ n2 \in Nat /\ m \in Nat /\ n3 \in Nat /\ n4 \in Nat
      /\ n5 \in Nat /\ n6 \in Nat
      /\ n0 <= n1 /\ n1 <= n2 /\ n2 <= m /\ m <= n3 /\ n3 <= n4 /\ n4 <= n5 /\ n5 <= n6
  BY DEF DecimalScanned, Places9
<1>2. PICK D : D = Digits10
  OBVIOUS
<1>3. D = 48 .. 57 /\ Spaces = {9, 10, 11, 12, 13, 32}
  BY ONLY <1>2, SpacesAre
<1>4. (n4 = n3 \/ n4 = n3 + 1) /\ (n4 = n3 + 1 => At(s, n3) \in {69, 101} /\ n5 < n6)
  BY DEF DecimalScanned
<1>5. /\ n4 = n3 => n6 = n3
      /\ At(s, n6) \notin D
      /\ n4 = n3 => At(s, n6) \notin {69, 101}
      /\ n4 = n3 /\ m = n2 => At(s, n6) /= 46
  BY <1>2 DEF DecimalScanned
<1>6. At(s, n3) \notin D /\ (At(s, n3) \in {69, 101} <=> n4 = n3 + 1)
  <2>1. CASE n4 = n3 + 1
    BY ONLY <1>3, <1>4, <2>1
  <2>2. CASE n4 = n3
    <3>1. n6 = n3 /\ n4 /= n3 + 1
      BY ONLY <1>1, <1>5, <2>2
    <3> QED BY ONLY <1>5, <2>2, <3>1
  <2> QED BY ONLY <1>4, <2>1, <2>2
<1>7. (m = n2 \/ m = n2 + 1) /\ (m = n2 + 1 => At(s, n2) = 46) /\ (m = n2 => n3 = m)
  BY DEF DecimalScanned
<1>8. At(s, n2) \notin D /\ (At(s, n2) = 46 <=> m = n2 + 1)
  <2>1. CASE m = n2 + 1
    BY ONLY <1>3, <1>7, <2>1
  <2>2. CASE m = n2
    <3>1. n3 = n2 /\ m /= n2 + 1
      BY ONLY <1>1, <1>7, <2>2
    <3>2. CASE n4 = n3 + 1
      BY ONLY <1>3, <1>4, <3>1, <3>2
    <3>3. CASE n4 = n3
      BY ONLY <1>5, <2>2, <3>1, <3>3
    <3> QED BY ONLY <1>4, <3>2, <3>3
  <2> QED BY ONLY <1>7, <2>1, <2>2
<1>9. (n1 < n2 \/ m < n3) /\ \A x \in n1 .. n2 - 1 : At(s, x) \in D
  BY <1>2 DEF DecimalScanned
<1>10. At(s, n1) \in D \cup {46}
  <2>1. CASE n1 < n2
    <3>1. n1 \in n1 .. n2 - 1
      BY ONLY <1>1, <2>1
    <3> QED BY ONLY <1>9, <3>1
  <2>2. CASE ~ (n1 < n2)
    <3>1. n1 = n2 /\ m < n3
      BY ONLY <1>1, <1>9, <2>2
    <3>2. m = n2 + 1
      BY ONLY <1>1, <1>7, <3>1
    <3> QED BY ONLY <1>7, <3>1, <3>2
  <2> QED BY ONLY <2>1, <2>2
<1>11. (n1 = n0 \/ n1 = n0 + 1) /\ (n1 = n0 + 1 => At(s, n0) \in {43, 45})
  BY DEF DecimalScanned, Sign
<1>12. At(s, n0) \notin Spaces /\ (At(s, n0) \in {43, 45} <=> n1 = n0 + 1)
  <2>1. CASE n1 = n0 + 1
    BY ONLY <1>3, <1>11, <2>1
  <2>2. CASE n1 = n0
    <3>1. n1 /= n0 + 1
      BY ONLY <1>1, <2>2
    <3>2. At(s, n0) \in (48 .. 57) \cup {46}
      BY ONLY <1>3, <1>10, <2>2
    <3> QED BY ONLY <1>3, <3>1, <3>2
  <2> QED BY ONLY <1>11, <2>1, <2>2
<1>13. (n5 = n4 \/ n5 = n4 + 1) /\ (n5 = n4 + 1 => At(s, n4) \in {43, 45})
  BY DEF DecimalScanned, Sign
<1>14. ASSUME n4 = n3 + 1
       PROVE  At(s, n5) \in D /\ (At(s, n4) \in {43, 45} <=> n5 = n4 + 1)
  <2>1. \A x \in n5 .. n6 - 1 : At(s, x) \in D
    BY <1>2 DEF DecimalScanned
  <2>2. n5 \in n5 .. n6 - 1
    BY ONLY <1>1, <1>4, <1>14
  <2>3. At(s, n5) \in 48 .. 57
    BY ONLY <1>3, <2>1, <2>2
  <2>4. CASE n5 = n4 + 1
    BY ONLY <1>3, <1>13, <2>3, <2>4
  <2>5. CASE n5 = n4
    <3>1. n5 /= n4 + 1
      BY ONLY <1>1, <2>5
    <3> QED BY ONLY <1>3, <2>3, <2>5, <3>1
  <2> QED BY ONLY <1>13, <2>4, <2>5
<1> QED BY ONLY <1>2, <1>5, <1>6, <1>8, <1>12, <1>14 DEF Ends

(* Where the loops of strtod end. *)
Skips(s, n0, n1, n2, m, n3, n4, n5, n6) ==
  /\ Skip(s, 0, Spaces) = n0
  /\ Skip(s, n1, Digits10) = n2
  /\ Skip(s, m, Digits10) = n3
  /\ Skip(s, n5, Digits10) = n6

(* The loops of strtod end at the ends of the parts. *)
LEMMA SkipsAre ==
  ASSUME NEW s \in Texts,
         NEW n0, NEW n1, NEW n2, NEW m, NEW n3, NEW n4, NEW n5, NEW n6,
         DecimalScanned(s, n0, n1, n2, m, n3, n4, n5, n6)
  PROVE  Skips(s, n0, n1, n2, m, n3, n4, n5, n6)
<1>1. /\ n0 \in Nat /\ n1 \in Nat /\ n2 \in Nat /\ m \in Nat /\ n3 \in Nat /\ n4 \in Nat
      /\ n5 \in Nat /\ n6 \in Nat /\ Len(s) \in Nat
      /\ n0 <= n1 /\ n1 <= n2 /\ n2 <= m /\ m <= n3 /\ n3 <= n4 /\ n4 <= n5 /\ n5 <= n6
      /\ n6 <= Len(s)
  BY DEF DecimalScanned, Places9
<1>2. /\ n0 <= Len(s) /\ n2 <= Len(s) /\ n3 <= Len(s) /\ n6 <= Len(s) /\ 0 <= n0
  BY ONLY <1>1
<1>3. /\ At(s, n0) \notin Spaces /\ At(s, n2) \notin Digits10 /\ At(s, n3) \notin Digits10
      /\ At(s, n6) \notin Digits10
  BY EndsAre DEF Ends
<1>4. /\ \A x \in 0 .. n0 - 1 : At(s, x) \in Spaces
      /\ \A x \in n1 .. n2 - 1 : At(s, x) \in Digits10
      /\ \A x \in m .. n3 - 1 : At(s, x) \in Digits10
      /\ \A x \in n5 .. n6 - 1 : At(s, x) \in Digits10
  BY DEF DecimalScanned
<1>5. 0 \notin Spaces /\ 0 \notin Digits10 /\ 0 \in Nat
  <2>1. 0 \notin {9, 10, 11, 12, 13, 32} /\ 0 \notin 48 .. 57 /\ 0 \in Nat
    OBVIOUS
  <2> QED BY ONLY <2>1, SpacesAre
<1>6. Skip(s, 0, Spaces) = n0
  BY ONLY <1>1, <1>2, <1>3, <1>4, <1>5, s \in Texts, SkipEnds
<1>7. Skip(s, n1, Digits10) = n2
  BY ONLY <1>1, <1>2, <1>3, <1>4, <1>5, s \in Texts, SkipEnds
<1>8. Skip(s, m, Digits10) = n3
  BY ONLY <1>1, <1>2, <1>3, <1>4, <1>5, s \in Texts, SkipEnds
<1>9. Skip(s, n5, Digits10) = n6
  BY ONLY <1>1, <1>2, <1>3, <1>4, <1>5, s \in Texts, SkipEnds
<1> QED BY ONLY <1>6, <1>7, <1>8, <1>9 DEF Skips

(* The number of a part is what its place has. *)
LEMMA PartDecimal ==
  ASSUME NEW s \in Texts, NEW u \in Texts, u \in Seq(Digits10), NEW from \in Nat, NEW to,
         to = from + Len(u), Part(s, from, u)
  PROVE  /\ Decimal(s, from, to) = Number(u) /\ Number(u) \in Nat
         /\ Len(u) = 0 => Number(u) = 0
<1>1. PICK n \in Nat : n = Len(u)
  BY ValuesAre
<1>2. Number(u) = Positional(Values(u), 10) /\ Values(u) = DigitsAt(u, 0, n)
  BY ONLY <1>1, u \in Texts, ValuesAre
<1>3. \A x \in 1 .. n : At(s, from + x - 1) = At(u, 0 + x - 1)
  <2> TAKE x \in 1 .. n
  <2>1. PICK y : y = x - 1 /\ y \in 0 .. n - 1 /\ from + y = from + x - 1 /\ 0 + x - 1 = y
    BY ONLY from \in Nat, n \in Nat, x \in 1 .. n
  <2>2. At(s, from + y) = At(u, y)
    BY ONLY <1>1, <2>1, Part(s, from, u) DEF Part
  <2> QED BY ONLY <2>1, <2>2
<1>4. DigitsAt(s, from, n) = DigitsAt(u, 0, n)
  BY ONLY <1>3 DEF DigitsAt
<1>5. \A x \in from .. from + n - 1 : At(s, x) \in Digits10
  BY ONLY <1>1, s \in Texts, u \in Seq(Digits10), Part(s, from, u), PartChars
<1>6. Decimal(s, from, from + n) = Positional(DigitsAt(s, from, n), 10)
  BY ONLY <1>5, s \in Texts, from \in Nat, n \in Nat, DecimalIs
<1>7. /\ Positional(DigitsAt(s, from, n), 10) \in Nat
      /\ n = 0 => Positional(DigitsAt(s, from, n), 10) = 0
  BY ONLY s \in Texts, from \in Nat, n \in Nat, DigitsValue
<1> QED BY ONLY <1>1, <1>2, <1>4, <1>6, <1>7, to = from + Len(u)

(* The number of a text is natural. *)
LEMMA NumberIsNat ==
  ASSUME NEW u \in Texts
  PROVE  Number(u) \in Nat
<1>1. PICK n \in Nat : n = Len(u)
  BY ValuesAre
<1>2. Number(u) = Positional(DigitsAt(u, 0, n), 10)
  BY ONLY <1>1, u \in Texts, ValuesAre
<1>3. 0 \in Nat
  OBVIOUS
<1> QED BY ONLY <1>2, <1>3, u \in Texts, n \in Nat, DigitsValue

(* The mantissa: the digits before the point and those behind it. *)
LEMMA MantissaIs ==
  ASSUME NEW u \in Texts, NEW v \in Texts
  PROVE  /\ Number(u \o v) = Number(u) * Power(10, Len(v)) + Number(v)
         /\ Number(u \o v) \in Nat
<1>1. PICK w : w = u \o v
  OBVIOUS
<1>2. w \in Texts
  BY ONLY <1>1, u \in Texts, v \in Texts, JoinedIs DEF Joined
<1>3. PICK C : C = 1 .. 255
  OBVIOUS
<1>4. u \in Seq(C) /\ v \in Seq(C)
  BY <1>3 DEF Texts
<1>5. Len(u) \in Nat /\ Len(v) \in Nat
  BY ONLY <1>4, LenProperties
<1>6. /\ Len(w) = Len(u) + Len(v)
      /\ \A x \in 1 .. Len(u) + Len(v) : w[x] = IF x <= Len(u) THEN u[x] ELSE v[x - Len(u)]
  BY ONLY <1>1, <1>4, ConcatProperties
<1>7. \A x \in 1 .. Len(u) : w[x] = u[x]
  BY ONLY <1>5, <1>6
<1>8. \A x \in 1 .. Len(v) : w[Len(u) + x] = v[x]
  <2> TAKE x \in 1 .. Len(v)
  <2>1. PICK y : y = Len(u) + x /\ y \in 1 .. Len(u) + Len(v) /\ ~ (y <= Len(u)) /\ y - Len(u) = x
    BY ONLY <1>5, x \in 1 .. Len(v)
  <2> QED BY ONLY <1>6, <2>1
<1>9. /\ Number(w) = Number(u) * Power(10, Len(v)) + Number(v)
      /\ Number(u) \in Nat /\ Number(v) \in Nat
  BY ONLY <1>2, <1>6, <1>7, <1>8, u \in Texts, v \in Texts, NumberOfBoth
<1>10. Number(w) \in Nat
  BY ONLY <1>2, NumberIsNat
<1> QED BY ONLY <1>1, <1>9, <1>10

(* A decimal, its text, and where the parts of it stand. *)
Laid(d, s, n0, n1, n2, m, n3, n4, n5, n6) ==
  /\ IsDecimal(d) /\ WellFormed(d) /\ s = DecimalText(d) /\ s \in Texts
  /\ Parts(d, s, n0, n1, n2, m, n3, n4, n5, n6)
  /\ Places9(s, n0, n1, n2, m, n3, n4, n5, n6)
  /\ DecimalScanned(s, n0, n1, n2, m, n3, n4, n5, n6)
  /\ Ends(s, n0, n1, n2, m, n3, n4, n5, n6)
  /\ Skips(s, n0, n1, n2, m, n3, n4, n5, n6)

(* A decimal is laid out in its text. *)
LEMMA LaidOut ==
  ASSUME NEW d, IsDecimal(d), WellFormed(d), NEW s, s = DecimalText(d)
  PROVE  \E n0, n1, n2, m, n3, n4, n5, n6 : Laid(d, s, n0, n1, n2, m, n3, n4, n5, n6)
<1>1. s \in Texts
  BY ONLY IsDecimal(d), s = DecimalText(d), PartsAre
<1>2. PICK n0, n1, n2, m, n3, n4, n5, n6 : Parts(d, s, n0, n1, n2, m, n3, n4, n5, n6)
  BY ONLY IsDecimal(d), s = DecimalText(d), PartsAre
<1>3. DecimalScanned(s, n0, n1, n2, m, n3, n4, n5, n6)
  BY ONLY <1>1, <1>2, IsDecimal(d), WellFormed(d), ScannedIs
<1>4. Ends(s, n0, n1, n2, m, n3, n4, n5, n6)
  BY ONLY <1>1, <1>3, EndsAre
<1>5. Skips(s, n0, n1, n2, m, n3, n4, n5, n6)
  BY ONLY <1>1, <1>3, SkipsAre
<1>6. Places9(s, n0, n1, n2, m, n3, n4, n5, n6)
  BY ONLY <1>3 DEF DecimalScanned
<1>7. Laid(d, s, n0, n1, n2, m, n3, n4, n5, n6)
  BY ONLY <1>1, <1>2, <1>3, <1>4, <1>5, <1>6, IsDecimal(d), WellFormed(d), s = DecimalText(d)
     DEF Laid
<1> QED BY ONLY <1>7

(* What strtod finds on its way. *)
Way(s, n0, n1, n2, n3, fraction) ==
  /\ n0 \in Nat /\ n1 \in Nat /\ n2 \in Nat /\ n3 \in Nat /\ fraction \in Nat
  /\ Skip(s, 0, Spaces) = n0
  /\ n1 = IF At(s, n0) \in {Ascii.plus, Ascii.minus} THEN n0 + 1 ELSE n0
  /\ Skip(s, n1, Digits10) = n2
  /\ n3 = IF At(s, n2) = Ascii.dot THEN Skip(s, n2 + 1, Digits10) ELSE n2
  /\ fraction = IF n3 > n2 THEN n3 - n2 - 1 ELSE 0

(* strtod goes through the parts before the exponent. *)
LEMMA WayIs ==
  ASSUME NEW d, NEW s, NEW n0, NEW n1, NEW n2, NEW m, NEW n3, NEW n4, NEW n5, NEW n6,
         Laid(d, s, n0, n1, n2, m, n3, n4, n5, n6)
  PROVE  Way(s, n0, n1, n2, n3, Len(d.fraction)) /\ n3 = m + Len(d.fraction)
<1>1. /\ n0 \in Nat /\ n1 \in Nat /\ n2 \in Nat /\ m \in Nat /\ n3 \in Nat
      /\ m <= n3
  BY DEF Laid, Places9
<1>2. n3 = m + Len(d.fraction)
  BY DEF Laid, Parts
<1>3. Len(d.fraction) \in Nat
  <2>1. d.fraction \in Seq(Digits10)
    BY DecimalFields DEF DecimalIn, Laid
  <2> QED BY ONLY <2>1, LenProperties
<1>4. Skip(s, 0, Spaces) = n0 /\ Skip(s, n1, Digits10) = n2 /\ Skip(s, m, Digits10) = n3
  BY DEF Laid, Skips
<1>5. Ascii.plus = 43 /\ Ascii.minus = 45 /\ Ascii.dot = 46
  BY DEF Ascii
<1>6. At(s, n0) \in {43, 45} <=> n1 = n0 + 1
  BY DEF Laid, Ends
<1>7. At(s, n2) = 46 <=> m = n2 + 1
  BY DEF Laid, Ends
<1>8. (n1 = n0 \/ n1 = n0 + 1) /\ (m = n2 \/ m = n2 + 1) /\ (m = n2 => n3 = m)
  BY DEF Laid, DecimalScanned, Sign
<1>9. n1 = IF At(s, n0) \in {Ascii.plus, Ascii.minus} THEN n0 + 1 ELSE n0
  BY ONLY <1>5, <1>6, <1>8
<1>10. n3 = IF At(s, n2) = Ascii.dot THEN Skip(s, n2 + 1, Digits10) ELSE n2
  <2>1. CASE m = n2 + 1
    BY ONLY <1>4, <1>5, <1>7, <2>1
  <2>2. CASE m = n2
    <3>1. m /= n2 + 1
      BY ONLY <1>1, <2>2
    <3> QED BY ONLY <1>5, <1>7, <1>8, <2>2, <3>1
  <2> QED BY ONLY <1>8, <2>1, <2>2
<1>11. Len(d.fraction) = IF n3 > n2 THEN n3 - n2 - 1 ELSE 0
  <2>1. PICK f \in Nat : f = Len(d.fraction)
    BY ONLY <1>3
  <2> QED BY ONLY <1>1, <1>2, <1>8, <2>1
<1> QED BY ONLY <1>1, <1>2, <1>3, <1>4, <1>9, <1>10, <1>11 DEF Way

(* The mantissa, with its sign. *)
LEMMA MantissaRead ==
  ASSUME NEW d, NEW s, NEW n0, NEW n1, NEW n2, NEW m, NEW n3, NEW n4, NEW n5, NEW n6,
         Laid(d, s, n0, n1, n2, m, n3, n4, n5, n6),
         NEW fraction, fraction = Len(d.fraction), NEW value, NEW sign,
         value = (Decimal(s, n1, n2) * Power(10, fraction)) + Decimal(s, n3 - fraction, n3),
         sign = IF At(s, n0) = Ascii.minus THEN -1 ELSE 1
  PROVE  sign * value = IF d.sign = <<45>> THEN - Number(d.whole \o d.fraction)
                        ELSE Number(d.whole \o d.fraction)
<1>1. /\ n0 \in Nat /\ n1 \in Nat /\ n2 \in Nat /\ m \in Nat /\ n3 \in Nat
  BY DEF Laid, Places9
<1>2. IsDecimal(d) /\ s \in Texts
  BY DEF Laid
<1>3. d.whole \in Texts /\ d.fraction \in Texts
  BY ONLY <1>2, PartsAreTexts
<1>4. /\ d.whole \in Seq(Digits10) /\ d.fraction \in Seq(Digits10)
      /\ d.sign \in {<< >>, <<43>>, <<45>>}
  BY ONLY <1>2, DecimalFields DEF DecimalIn
<1>5. Part(s, n1, d.whole) /\ n2 = n1 + Len(d.whole)
  BY DEF Laid, Parts
<1>6. Part(s, m, d.fraction) /\ n3 = m + Len(d.fraction)
  BY DEF Laid, Parts
<1>7. Part(s, n0, d.sign) /\ n1 = n0 + Len(d.sign)
  BY DEF Laid, Parts
<1>8. Decimal(s, n1, n2) = Number(d.whole)
  <2>1. PICK u \in Texts : u = d.whole
    BY ONLY <1>3
  <2>2. u \in Seq(Digits10) /\ Part(s, n1, u) /\ n2 = n1 + Len(u)
    BY ONLY <1>4, <1>5, <2>1
  <2>3. Decimal(s, n1, n2) = Number(u)
    BY ONLY <1>1, <1>2, <2>2, u \in Texts, PartDecimal
  <2> QED BY ONLY <2>1, <2>3
<1>9. Decimal(s, n3 - fraction, n3) = Number(d.fraction)
  <2>1. PICK u \in Texts : u = d.fraction
    BY ONLY <1>3
  <2>2. u \in Seq(Digits10) /\ Part(s, m, u) /\ n3 = m + Len(u)
    BY ONLY <1>4, <1>6, <2>1
  <2>3. Decimal(s, m, n3) = Number(u)
    BY ONLY <1>1, <1>2, <2>2, u \in Texts, PartDecimal
  <2>4. Len(u) \in Nat
    BY ONLY u \in Texts, ValuesAre
  <2>5. n3 - fraction = m
    BY ONLY <1>1, <2>1, <2>2, <2>4, fraction = Len(d.fraction)
  <2> QED BY ONLY <2>1, <2>3, <2>5
<1>10. PICK v \in Nat : v = value /\ v = Number(d.whole \o d.fraction)
  <2>1. PICK u \in Texts, w \in Texts : u = d.whole /\ w = d.fraction
    BY ONLY <1>3
  <2>2. Number(u \o w) = Number(u) * Power(10, Len(w)) + Number(w) /\ Number(u \o w) \in Nat
    BY ONLY u \in Texts, w \in Texts, MantissaIs
  <2>3. value = Number(u) * Power(10, Len(w)) + Number(w)
    BY ONLY <1>8, <1>9, <2>1, fraction = Len(d.fraction),
            value = (Decimal(s, n1, n2) * Power(10, fraction)) + Decimal(s, n3 - fraction, n3)
  <2> QED BY ONLY <2>1, <2>2, <2>3
<1>11. d.sign = <<45>> <=> n1 = n0 + 1 /\ At(s, n0) = 45
  <2>1. PICK u : u = d.sign
    OBVIOUS
  <2>2. u \in {<< >>, <<43>>, <<45>>} /\ Part(s, n0, u) /\ n1 = n0 + Len(u)
    BY ONLY <1>4, <1>7, <2>1
  <2>3. u = <<45>> <=> n1 = n0 + 1 /\ At(s, n0) = 45
    BY ONLY <1>1, <2>2, SignIs
  <2> QED BY ONLY <2>1, <2>3
<1>12. At(s, n0) \in {43, 45} <=> n1 = n0 + 1
  BY DEF Laid, Ends
<1>13. d.sign = <<45>> <=> At(s, n0) = Ascii.minus
  <2>1. Ascii.minus = 45
    BY DEF Ascii
  <2> QED BY ONLY <1>11, <1>12, <2>1
<1>14. CASE d.sign = <<45>>
  <2>1. sign = -1
    BY ONLY <1>13, <1>14, sign = IF At(s, n0) = Ascii.minus THEN -1 ELSE 1
  <2>2. sign * v = - v
    BY ONLY <2>1, v \in Nat
  <2> QED BY ONLY <1>10, <1>14, <2>2
<1>15. CASE d.sign /= <<45>>
  <2>1. sign = 1
    BY ONLY <1>13, <1>15, sign = IF At(s, n0) = Ascii.minus THEN -1 ELSE 1
  <2>2. sign * v = v
    BY ONLY <2>1, v \in Nat
  <2> QED BY ONLY <1>10, <1>15, <2>2
<1> QED BY ONLY <1>14, <1>15

(* Where strtod stops without an exponent. *)
LEMMA NoExponent ==
  ASSUME NEW s, NEW n0, NEW n1, NEW n2, NEW n3, NEW fraction, Way(s, n0, n1, n2, n3, fraction),
         LowerBit(At(s, n3)) /= Ascii.e, NEW value, NEW sign,
         value = (Decimal(s, n1, n2) * Power(10, fraction)) + Decimal(s, n3 - fraction, n3),
         sign = IF At(s, n0) = Ascii.minus THEN -1 ELSE 1
  PROVE  strtod(s) = [mantissa |-> sign * value, exponent |-> - fraction, end |-> n3]
<1>1. Skip(s, 0, Spaces) = n0
  BY DEF Way
<1>2. n1 = IF At(s, n0) \in {Ascii.plus, Ascii.minus} THEN n0 + 1 ELSE n0
  BY DEF Way
<1>3. Skip(s, n1, Digits10) = n2
  BY DEF Way
<1>4. n3 = IF At(s, n2) = Ascii.dot THEN Skip(s, n2 + 1, Digits10) ELSE n2
  BY DEF Way
<1>5. fraction = IF n3 > n2 THEN n3 - n2 - 1 ELSE 0
  BY DEF Way
<1> QED BY ONLY <1>1, <1>2, <1>3, <1>4, <1>5, LowerBit(At(s, n3)) /= Ascii.e,
          value = (Decimal(s, n1, n2) * Power(10, fraction)) + Decimal(s, n3 - fraction, n3),
          sign = IF At(s, n0) = Ascii.minus THEN -1 ELSE 1
       DEF strtod

(* strtod behind the digits and the point. *)
Behind(s, n0, n1, n2, n3, fraction) ==
  LET value == (Decimal(s, n1, n2) * Power(10, fraction)) + Decimal(s, n3 - fraction, n3)
      sign == IF At(s, n0) = Ascii.minus THEN -1 ELSE 1
      n4 == n3 + 1
      factor == IF At(s, n4) = Ascii.minus THEN -1 ELSE 1
      n5 == IF At(s, n4) \in {Ascii.plus, Ascii.minus} THEN n4 + 1 ELSE n4
      n6 == Skip(s, n5, Digits10)
      expo == Decimal(s, n5, n6) % Power(2, LongBits)
  IN IF LowerBit(At(s, n3)) /= Ascii.e
       THEN [mantissa |-> sign * value, exponent |-> -fraction, end |-> n3]
     ELSE IF n5 = n4 /\ ~ isdigit(At(s, n4))
       THEN [mantissa |-> 0, exponent |-> 0, end |-> 0]
       ELSE [mantissa |-> sign * value,
             exponent |-> Scaled(expo, factor) - fraction, end |-> n6]

(* And with one. *)
LEMMA WithExponent ==
  ASSUME NEW s, NEW n0, NEW n1, NEW n2, NEW n3, NEW fraction, Way(s, n0, n1, n2, n3, fraction),
         LowerBit(At(s, n3)) = Ascii.e, NEW value, NEW sign,
         value = (Decimal(s, n1, n2) * Power(10, fraction)) + Decimal(s, n3 - fraction, n3),
         sign = IF At(s, n0) = Ascii.minus THEN -1 ELSE 1,
         NEW n4, n4 = n3 + 1, NEW factor, factor = IF At(s, n4) = Ascii.minus THEN -1 ELSE 1,
         NEW n5, n5 = IF At(s, n4) \in {Ascii.plus, Ascii.minus} THEN n4 + 1 ELSE n4,
         NEW n6, Skip(s, n5, Digits10) = n6,
         NEW expo, expo = Decimal(s, n5, n6) % Power(2, LongBits),
         ~ (n5 = n4 /\ ~ isdigit(At(s, n4)))
  PROVE  strtod(s) = [mantissa |-> sign * value,
                      exponent |-> Scaled(expo, factor) - fraction, end |-> n6]
<1>1. Skip(s, 0, Spaces) = n0
  BY DEF Way
<1>2. n1 = IF At(s, n0) \in {Ascii.plus, Ascii.minus} THEN n0 + 1 ELSE n0
  BY DEF Way
<1>3. Skip(s, n1, Digits10) = n2
  BY DEF Way
<1>4. n3 = IF At(s, n2) = Ascii.dot THEN Skip(s, n2 + 1, Digits10) ELSE n2
  BY DEF Way
<1>5. fraction = IF n3 > n2 THEN n3 - n2 - 1 ELSE 0
  BY DEF Way
<1>6. strtod(s) = LET x0 == Skip(s, 0, Spaces)
                      x1 == IF At(s, x0) \in {Ascii.plus, Ascii.minus} THEN x0 + 1 ELSE x0
                      x2 == Skip(s, x1, Digits10)
                      x3 == IF At(s, x2) = Ascii.dot THEN Skip(s, x2 + 1, Digits10) ELSE x2
                      fractions == IF x3 > x2 THEN x3 - x2 - 1 ELSE 0
                  IN Behind(s, x0, x1, x2, x3, fractions)
  BY ONLY DEF strtod, Behind
<1>7. strtod(s) = Behind(s, n0, n1, n2, n3, fraction)
  BY ONLY <1>1, <1>2, <1>3, <1>4, <1>5, <1>6
<1>8. Behind(s, n0, n1, n2, n3, fraction) =
        IF LowerBit(At(s, n3)) /= Ascii.e
          THEN [mantissa |-> sign * value, exponent |-> -fraction, end |-> n3]
        ELSE IF n5 = n4 /\ ~ isdigit(At(s, n4))
          THEN [mantissa |-> 0, exponent |-> 0, end |-> 0]
          ELSE [mantissa |-> sign * value,
                exponent |-> Scaled(expo, factor) - fraction, end |-> n6]
  BY ONLY value = (Decimal(s, n1, n2) * Power(10, fraction)) + Decimal(s, n3 - fraction, n3),
          sign = IF At(s, n0) = Ascii.minus THEN -1 ELSE 1,
          n4 = n3 + 1, factor = IF At(s, n4) = Ascii.minus THEN -1 ELSE 1,
          n5 = IF At(s, n4) \in {Ascii.plus, Ascii.minus} THEN n4 + 1 ELSE n4,
          Skip(s, n5, Digits10) = n6,
          expo = Decimal(s, n5, n6) % Power(2, LongBits)
       DEF Behind
<1> QED BY ONLY <1>7, <1>8, LowerBit(At(s, n3)) = Ascii.e, ~ (n5 = n4 /\ ~ isdigit(At(s, n4)))

(* A decimal read in. *)
LEMMA DecimalRight ==
  ASSUME NEW d, IsDecimal(d), WellFormed(d), NEW M, IsWidth(LongBits, M),
         NEW out, out = strtod(DecimalText(d))
  PROVE  DecimalDenotes(d, out)
<1>1. PICK s : s = DecimalText(d)
  OBVIOUS
<1>2. PICK n0, n1, n2, m, n3, n4, n5, n6 : Laid(d, s, n0, n1, n2, m, n3, n4, n5, n6)
  BY ONLY <1>1, IsDecimal(d), WellFormed(d), LaidOut
<1>3. PICK fraction : fraction = Len(d.fraction)
  OBVIOUS
<1>4. PICK value : value = (Decimal(s, n1, n2) * Power(10, fraction)) + Decimal(s, n3 - fraction, n3)
  OBVIOUS
<1>5. PICK sign : sign = IF At(s, n0) = Ascii.minus THEN -1 ELSE 1
  OBVIOUS
<1>6. PICK mantissa : /\ mantissa = sign * value
                      /\ mantissa = IF d.sign = <<45>> THEN - Number(d.whole \o d.fraction)
                                    ELSE Number(d.whole \o d.fraction)
  BY ONLY <1>2, <1>3, <1>4, <1>5, MantissaRead
<1>7. Way(s, n0, n1, n2, n3, fraction)
  BY ONLY <1>2, <1>3, WayIs
<1>8. /\ n0 \in Nat /\ n3 \in Nat /\ n4 \in Nat /\ n5 \in Nat /\ n6 \in Nat /\ fraction \in Nat
  <2>1. n0 \in Nat /\ n3 \in Nat /\ n4 \in Nat /\ n5 \in Nat /\ n6 \in Nat
    BY ONLY <1>2 DEF Laid, Places9
  <2> QED BY ONLY <2>1, <1>7 DEF Way
<1>9. s \in Texts /\ (n4 = n3 \/ n4 = n3 + 1) /\ (n4 = n3 => n6 = n3)
  BY ONLY <1>2 DEF Laid, DecimalScanned
<1>10. At(s, n3) \in {69, 101} <=> n4 = n3 + 1
  BY ONLY <1>2 DEF Laid, Ends
<1>11. LowerBit(At(s, n3)) = Ascii.e <=> n4 = n3 + 1
  <2>1. PICK c \in 0 .. 255 : c = At(s, n3)
    BY ONLY <1>8, <1>9, AtIs
  <2>2. LowerBit(c) = IF c \in 0 .. 31 \cup 64 .. 95 \cup 128 .. 159 \cup 192 .. 223
                      THEN c + 32 ELSE c
    <3>1. c \in -1 .. 255
      BY ONLY c \in 0 .. 255
    <3> QED BY ONLY <3>1, LowerBitIs
  <2>3. LowerBit(c) = 101 <=> c \in {69, 101}
    BY ONLY <2>2, c \in 0 .. 255
  <2>4. Ascii.e = 101
    BY DEF Ascii
  <2> QED BY ONLY <1>10, <2>1, <2>3, <2>4
<1>12. Len(DecimalText(d)) - Len(d.rest) = n6
  <2>1. Len(s) = n6 + Len(d.rest)
    BY ONLY <1>2 DEF Laid, Parts
  <2>2. Len(d.rest) \in Nat
    <3>1. d.rest \in Texts
      BY ONLY IsDecimal(d), DecimalFields DEF DecimalIn
    <3> QED BY ONLY <3>1, ValuesAre
  <2>3. (n6 + Len(d.rest)) - Len(d.rest) = n6
    BY ONLY <1>8, <2>2
  <2> QED BY ONLY <1>1, <2>1, <2>3
<1>13. PICK x \in Nat : x = Number(d.expo)
  BY PartsAreTexts, NumberIsNat
<1>14. Part(s, n5, d.expo) /\ n6 = n5 + Len(d.expo)
  BY ONLY <1>2 DEF Laid, Parts
<1>15. Part(s, n4, d.expoSign) /\ n5 = n4 + Len(d.expoSign)
  BY ONLY <1>2 DEF Laid, Parts
<1>16. Decimal(s, n5, n6) = x /\ (Len(d.expo) = 0 => x = 0)
  <2>1. PICK u \in Texts : u = d.expo /\ u \in Seq(Digits10)
    BY ONLY IsDecimal(d), PartsAreTexts, DecimalFields DEF DecimalIn
  <2>2. Part(s, n5, u) /\ n6 = n5 + Len(u)
    BY ONLY <1>14, <2>1
  <2>3. Decimal(s, n5, n6) = Number(u) /\ (Len(u) = 0 => Number(u) = 0)
    <3>1. n5 \in Nat /\ s \in Texts
      BY ONLY <1>8, <1>9
    <3>2. u \in Seq(Digits10)
      BY ONLY <2>1
    <3> QED BY ONLY <2>2, <3>1, <3>2, u \in Texts, PartDecimal
  <2> QED BY ONLY <1>13, <2>1, <2>3
<1>17. d.expoSign = <<45>> <=> n5 = n4 + 1 /\ At(s, n4) = 45
  <2>1. PICK u : u = d.expoSign
    OBVIOUS
  <2>2. u \in {<< >>, <<43>>, <<45>>}
    <3>1. d.expoSign \in {<< >>, <<43>>, <<45>>}
      BY DecimalFields DEF DecimalIn
    <3> QED BY ONLY <2>1, <3>1
  <2>3. Part(s, n4, u) /\ n5 = n4 + Len(u)
    BY ONLY <1>15, <2>1
  <2>4. u = <<45>> <=> n5 = n4 + 1 /\ At(s, n4) = 45
    BY ONLY <1>8, <2>2, <2>3, SignIs
  <2> QED BY ONLY <2>1, <2>4
<1>18. PICK neg \in BOOLEAN : neg <=> d.expoSign = <<45>>
  OBVIOUS
<1>19. PICK y \in Int : y = IF neg THEN - x ELSE x
  OBVIOUS
<1>20. SUFFICES out = [mantissa |-> mantissa, exponent |-> y - fraction, end |-> n6]
  <2>1. y = IF d.expoSign = <<45>> THEN - x ELSE x
    BY ONLY <1>18, <1>19
  <2> QED BY ONLY <1>3, <1>6, <1>12, <1>13, <1>20, <2>1 DEF DecimalDenotes
<1>21. CASE n4 = n3
  <2>1. n6 = n3 /\ n4 /= n3 + 1
    BY ONLY <1>8, <1>9, <1>21
  <2>2. out = [mantissa |-> mantissa, exponent |-> - fraction, end |-> n3]
    <3>1. LowerBit(At(s, n3)) /= Ascii.e
      BY ONLY <1>11, <2>1
    <3>2. strtod(s) = [mantissa |-> sign * value, exponent |-> - fraction, end |-> n3]
      BY ONLY <1>4, <1>5, <1>7, <3>1, NoExponent
    <3> QED BY ONLY <1>1, <1>6, <3>2, out = strtod(DecimalText(d))
  <2>3. y - fraction = - fraction
    <3>1. n5 = n6 /\ n4 <= n5 /\ n5 <= n6
      <4>1. n4 <= n5 /\ n5 <= n6
        BY ONLY <1>2 DEF Laid, Places9
      <4> QED BY ONLY <1>8, <1>21, <2>1, <4>1
    <3>2. Len(d.expo) = 0
      <4>1. Len(d.expo) \in Nat
        BY PartsAreTexts, ValuesAre
      <4> QED BY ONLY <1>8, <1>14, <3>1, <4>1
    <3>3. x = 0
      BY ONLY <1>16, <3>2
    <3>4. y <= 0 /\ 0 <= y
      BY ONLY <1>19, <3>3
    <3> QED BY ONLY <1>8, <3>4, y \in Int
  <2> QED BY ONLY <2>1, <2>2, <2>3
<1>22. CASE n4 = n3 + 1
  <2>1. PICK factor : factor = IF At(s, n4) = Ascii.minus THEN -1 ELSE 1
    OBVIOUS
  <2>2. (At(s, n4) \in {43, 45} <=> n5 = n4 + 1) /\ At(s, n5) \in Digits10
    BY ONLY <1>2, <1>22 DEF Laid, Ends
  <2>3. Ascii.minus = 45 /\ Ascii.plus = 43
    BY DEF Ascii
  <2>4. n5 = n4 \/ n5 = n4 + 1
    BY ONLY <1>2 DEF Laid, DecimalScanned, Sign
  <2>5. n5 = IF At(s, n4) \in {Ascii.plus, Ascii.minus} THEN n4 + 1 ELSE n4
    BY ONLY <2>2, <2>3, <2>4
  <2>6. Skip(s, n5, Digits10) = n6
    BY ONLY <1>2 DEF Laid, Skips
  <2>7. x = Decimal(s, n5, n6) % Power(2, LongBits)
    <3>1. PICK N \in Nat \ {0} : N = Power(2, LongBits)
      BY DEF IsWidth
    <3>2. x < N
      <4>1. d.e /= << >>
        <5>1. n4 = n3 + Len(d.e)
          BY ONLY <1>2 DEF Laid, Parts
        <5>2. n3 + 0 /= n3 + 1
          BY ONLY <1>8
        <5>3. PICK w : w = << >>
          OBVIOUS
        <5>4. Len(w) = 0
          BY ONLY <5>3
        <5> QED BY ONLY <1>22, <5>1, <5>2, <5>3, <5>4
      <4>2. Number(d.expo) < Power(2, LongBits)
        BY <4>1 DEF WellFormed
      <4> QED BY ONLY <1>13, <3>1, <4>2
    <3>3. x % N = x
      BY ONLY <3>2, x \in Nat, N \in Nat \ {0}
    <3> QED BY ONLY <1>16, <3>1, <3>3
  <2>8. ~ (n5 = n4 /\ ~ isdigit(At(s, n4)))
    <3>1. isdigit(At(s, n5))
      BY ONLY <2>2 DEF Digits10
    <3> QED BY ONLY <3>1
  <2>9. LowerBit(At(s, n3)) = Ascii.e
    BY ONLY <1>11, <1>22
  <2>10. strtod(s) = [mantissa |-> sign * value, exponent |-> Scaled(x, factor) - fraction,
                      end |-> n6]
    BY ONLY <1>4, <1>5, <1>7, <1>22, <2>1, <2>5, <2>6, <2>7, <2>8, <2>9, WithExponent
  <2>11. Scaled(x, factor) = y
    <3>1. factor \in Int /\ (neg => factor = -1) /\ (~ neg => factor = 1)
      BY ONLY <1>17, <1>18, <2>1, <2>2, <2>3
    <3>2. Scaled(x, factor) = factor * x
      BY ONLY <3>1, x \in Nat, ScaledIs
    <3>3. factor * x = y
      BY ONLY <3>1, <1>19, x \in Nat, neg \in BOOLEAN
    <3> QED BY ONLY <3>2, <3>3
  <2> QED BY ONLY <1>1, <1>6, <2>10, <2>11, out = strtod(DecimalText(d))
<1> QED BY ONLY <1>9, <1>21, <1>22

(* The widths are those of the conversions. *)
LEMMA Widths ==
  (\E M : IsWidth(LongBits, M)) /\ \E M : IsWidth(LongLongBits, M)
<1>1. LongBits \in Nat /\ LongLongBits \in Nat /\ 8 <= LongBits /\ 8 <= LongLongBits
  BY WidthAssumption
<1> QED BY ONLY <1>1, WidthIs

(* strtol and strtoll, out of strtoul and strtoull. *)
LEMMA SignedCalls ==
  ASSUME NEW s \in Texts, NEW base \in Int
  PROVE  /\ SignedDenotes(s, base, LongBits, strtol(s, base))
         /\ SignedDenotes(s, base, LongLongBits, strtoll(s, base))
<1>1. PICK n : n = Skip(s, 0, Spaces)
  OBVIOUS
<1>2. PICK neg \in BOOLEAN : neg <=> SignOff(s, n)
  OBVIOUS
<1>3. neg <=> At(s, n) = Ascii.minus /\ isalnum(At(s, n + 1))
  <2>1. Ascii.minus = 45
    BY DEF Ascii
  <2> QED BY ONLY <1>2, <2>1 DEF SignOff
<1>4. PICK m : m = IF neg THEN n + 1 ELSE n
  OBVIOUS
<1>5. SignedDenotes(s, base, LongBits, strtol(s, base))
  <2>1. PICK M : IsWidth(LongBits, M)
    BY Widths
  <2>2. PICK sub : sub = Convert(SubSeq(s, m + 1, Len(s)), base, LongBits, FALSE)
    OBVIOUS
  <2>3. PICK clamped : clamped = Clamp(sub, neg, LongBits)
    OBVIOUS
  <2>4. PICK out : out = [value |-> clamped.value, errno |-> clamped.errno,
                          end |-> IF sub.end \in {0, Unset} THEN sub.end ELSE m + sub.end]
    OBVIOUS
  <2>5. PICK signed \in BOOLEAN : signed = FALSE
    OBVIOUS
  <2>6. sub = Convert(SubSeq(s, m + 1, Len(s)), base, LongBits, signed)
    BY ONLY <2>2, <2>5
  <2>7. SignedDenotes(s, base, LongBits, out)
    BY ONLY <1>1, <1>2, <1>4, <2>1, <2>3, <2>4, <2>6, s \in Texts, base \in Int,
            neg \in BOOLEAN, signed \in BOOLEAN, SignedRight
  <2>8. out = strtol(s, base)
    BY ONLY <1>1, <1>3, <1>4, <2>2, <2>3, <2>4 DEF strtol, strtoul, ConvertSigned
  <2> QED BY ONLY <2>7, <2>8
<1>6. SignedDenotes(s, base, LongLongBits, strtoll(s, base))
  <2>1. PICK M : IsWidth(LongLongBits, M)
    BY Widths
  <2>2. PICK sub : sub = Convert(SubSeq(s, m + 1, Len(s)), base, LongLongBits, TRUE)
    OBVIOUS
  <2>3. PICK clamped : clamped = Clamp(sub, neg, LongLongBits)
    OBVIOUS
  <2>4. PICK out : out = [value |-> clamped.value, errno |-> clamped.errno,
                          end |-> IF sub.end \in {0, Unset} THEN sub.end ELSE m + sub.end]
    OBVIOUS
  <2>5. PICK signed \in BOOLEAN : signed = TRUE
    OBVIOUS
  <2>6. sub = Convert(SubSeq(s, m + 1, Len(s)), base, LongLongBits, signed)
    BY ONLY <2>2, <2>5
  <2>7. SignedDenotes(s, base, LongLongBits, out)
    BY ONLY <1>1, <1>2, <1>4, <2>1, <2>3, <2>4, <2>6, s \in Texts, base \in Int,
            neg \in BOOLEAN, signed \in BOOLEAN, SignedRight
  <2>8. out = strtoll(s, base)
    BY ONLY <1>1, <1>3, <1>4, <2>2, <2>3, <2>4 DEF strtoll, strtoull, ConvertSigned
  <2> QED BY ONLY <2>7, <2>8
<1> QED BY ONLY <1>5, <1>6

(* strtoul and strtoull. *)
LEMMA UnsignedCalls ==
  ASSUME NEW s \in Texts, NEW base \in Int
  PROVE  /\ UnsignedDenotes(s, base, LongBits, strtoul(s, base))
         /\ UnsignedDenotes(s, base, LongLongBits, strtoull(s, base))
<1>1. UnsignedDenotes(s, base, LongBits, strtoul(s, base))
  <2>1. PICK M : IsWidth(LongBits, M)
    BY Widths
  <2>2. PICK signed \in BOOLEAN : signed = FALSE
    OBVIOUS
  <2>3. PICK out : out = Convert(s, base, LongBits, signed)
    OBVIOUS
  <2>4. UnsignedDenotes(s, base, LongBits, out)
    BY ONLY <2>1, <2>3, s \in Texts, base \in Int, signed \in BOOLEAN, UnsignedRight
  <2> QED BY ONLY <2>2, <2>3, <2>4 DEF strtoul
<1>2. UnsignedDenotes(s, base, LongLongBits, strtoull(s, base))
  <2>1. PICK M : IsWidth(LongLongBits, M)
    BY Widths
  <2>2. PICK signed \in BOOLEAN : signed = TRUE
    OBVIOUS
  <2>3. PICK out : out = Convert(s, base, LongLongBits, signed)
    OBVIOUS
  <2>4. UnsignedDenotes(s, base, LongLongBits, out)
    BY ONLY <2>1, <2>3, s \in Texts, base \in Int, signed \in BOOLEAN, UnsignedRight
  <2> QED BY ONLY <2>2, <2>3, <2>4 DEF strtoull
<1> QED BY ONLY <1>1, <1>2
=============================================================================
