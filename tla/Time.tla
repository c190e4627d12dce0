-------------------------------- MODULE Time --------------------------------
(***************************************************************************)
(* strftime of lang_c/libc/src/strftime.c: a format is expanded into a     *)
(* buffer of max characters, formats inside formats by a recursive call on *)
(* what is left of the buffer.                                             *)
(*                                                                         *)
(* A format is a sequence of characters.  A character of the result is one *)
(* of those, a digit, or the place of a character in a name: of a name     *)
(* only the length is kept.                                                *)
(***************************************************************************)
EXTENDS Integers, Sequences

NUL == "NUL"
SPACE == " "

(* The lengths of the names in the tables. *)
sweekdays == [n \in 0 .. 6 |-> 3]
weekdays == <<6, 6, 7, 9, 8, 6, 8>>
smonths == [n \in 0 .. 11 |-> 3]
months == <<7, 8, 5, 5, 3, 4, 4, 6, 9, 7, 8, 8>>
timezone == "[unknown timezone]"

Name(table, entry, length) == [n \in 1 .. length |-> <<table, entry, n>>]

(* Two digits: of a number above 99 the first is no digit. *)
i2a(x) == << <<"digit", x \div 10>>, <<"digit", x % 10>> >>
i2a_blank(x) == IF x < 10 THEN << SPACE, <<"digit", x % 10>> >> ELSE i2a(x)

(* mktime is not implemented and gives 0. *)
Seconds == << <<"digit", 0>> >>

WeekOfSundays(tm) == (tm.yday - tm.wday + 7) \div 7
WeekOfMondays(tm) == (tm.yday - ((tm.wday + 6) % 7) + 7) \div 7

(* The characters that a directive stands for.  Years are from 1900 on: for *)
(* earlier ones C truncates where \div rounds down.                         *)
Simple(c, tm) ==
  CASE c = "n" -> <<"\n">>
    [] c = "t" -> <<"\t">>
    [] c = "a" -> Name("sweekdays", tm.wday, sweekdays[tm.wday])
    [] c = "A" -> Name("weekdays", tm.wday, weekdays[tm.wday + 1])
    [] c \in {"h", "b"} -> Name("smonths", tm.mon, smonths[tm.mon])
    [] c = "B" -> Name("months", tm.mon, months[tm.mon + 1])
    [] c = "p" -> Name("AMPM", tm.hour > 12, 2)
    [] c = "P" -> Name("ampm", tm.hour > 12, 2)
    [] c = "C" -> i2a((tm.year \div 100) + 19)
    [] c = "d" -> i2a(tm.mday)
    [] c = "e" -> i2a_blank(tm.mday)
    [] c = "H" -> i2a(tm.hour)
    [] c = "I" -> i2a(tm.hour % 12)
    [] c = "j" -> i2a(tm.yday)
    [] c = "k" -> i2a_blank(tm.hour)
    [] c = "l" -> i2a_blank(tm.hour % 12)
    [] c = "m" -> i2a(tm.mon + 1)
    [] c = "M" -> i2a(tm.min)
    [] c = "S" -> i2a(tm.sec)
    [] c = "u" -> i2a(IF tm.wday = 0 THEN 7 ELSE tm.wday)
    [] c = "w" -> i2a(tm.wday)
    [] c = "U" -> i2a(WeekOfSundays(tm))
    [] c = "W" -> i2a(WeekOfMondays(tm))
    [] c = "s" -> Seconds
    [] c = "Z" -> Name(timezone, 0, 18)
    [] c = "Y" -> i2a((tm.year \div 100) + 19) \o i2a(tm.year % 100)
    [] c = "y" -> i2a(tm.year % 100)
    [] OTHER -> << >>

(* The directives that stand for a format. *)
Composite ==
  [c |-> <<"%", "b", SPACE, "%", "a", SPACE, "%", "d", SPACE, "%", "k", ":", "%", "M", ":",
           "%", "S", SPACE, "%", "Z", SPACE, "%", "Y">>,
   r |-> <<"%", "I", ":", "%", "M", ":", "%", "S", SPACE, "%", "p">>,
   R |-> <<"%", "H", ":", "%", "M">>,
   x |-> <<"%", "b", SPACE, "%", "a", SPACE, "%", "d">>,
   X |-> <<"%", "k", ":", "%", "M", ":", "%", "S">>,
   D |-> <<"%", "m", "/", "%", "d", "/", "%", "y">>,
   F |-> <<"%", "Y", "-", "%", "m", "-", "%", "d">>,
   T |-> <<"%", "H", ":", "%", "M", ":", "%", "S">>]

-----------------------------------------------------------------------------
(* A buffer of max characters: those written, and what is behind them in    *)
(* it, if anything was written there.                                       *)

Put(text, max, piece) ==
  LET room == max - Len(text)
  IN text \o SubSeq(piece, 1, IF Len(piece) < room THEN Len(piece) ELSE room)

(* mode: whether a % was read, and perhaps an O or an E after it; the text   *)
(* is then what the directive c gives.                                      *)
Read(state, c, max, directive) ==
  IF state.full THEN state
  ELSE IF state.mode = "text" /\ c = "%" THEN [state EXCEPT !.mode = "percent"]
  ELSE IF state.mode /= "text" /\ c \in {"O", "E"}
    THEN [state EXCEPT !.mode = "modified"]
  ELSE LET text == IF state.mode = "text" \/ (state.mode = "percent" /\ c = "%")
                     THEN Append(state.text, c)
                     ELSE directive
       IN [text |-> text, mode |-> "text", full |-> Len(text) >= max]

Expand(format, max, Directive(_, _)) ==
  LET state[n \in 0 .. Len(format)] ==
        IF n = 0 THEN [text |-> << >>, mode |-> "text", full |-> FALSE]
        ELSE Read(state[n - 1], format[n], max, Directive(state[n - 1].text, format[n]))
  IN state[Len(format)].text

(* The end is marked on the last character when there is no place for it. *)
Terminate(text, max) ==
  IF Len(text) >= max THEN [text EXCEPT ![Len(text)] = NUL] ELSE Append(text, NUL)

(* A format inside a format has no other inside it. *)
Inner(format, max, tm) ==
  LET Directive(text, c) == Put(text, max, Simple(c, tm))
      text == Expand(format, max, Directive)
  IN [cells |-> Terminate(text, max), length |-> Len(text)]

(* Faulty: the format inside is given the whole buffer. *)
Nested_WholeBuffer(text, max, c, tm) ==
  LET inner == Inner(Composite[c], max, tm)
  IN text \o SubSeq(inner.cells, 1, inner.length)
Nested(text, max, c, tm) ==
  LET inner == Inner(Composite[c], max - Len(text), tm)
  IN text \o SubSeq(inner.cells, 1, inner.length)

Substituted(text, max, c, tm) ==
  IF c \in DOMAIN Composite THEN Nested(text, max, c, tm)
  ELSE Put(text, max, Simple(c, tm))

strftime(max, format, tm) ==
  LET Directive(text, c) == Substituted(text, max, c, tm)
      text == Expand(format, max, Directive)
  IN IF max = 0 THEN [cells |-> << >>, length |-> 0]
     ELSE [cells |-> Terminate(text, max), length |-> Len(text)]
=============================================================================
