----------------------------- MODULE MCLibrary ------------------------------
(* The calls of Library for TLC. *)
EXTENDS Library

UpTo(n, S) == UNION {[1 .. x -> S] : x \in 0 .. n}

(* space - 0 7 8 x and Z; and the limits of 16 and of 20 bits. *)
NumberTexts ==
  UpTo(4, {32, 45, 48, 55, 120})
    \cup UNION {{t, <<45>> \o t, <<43>> \o t, <<32, 45>> \o t, t \o <<90>>} :
         t \in {<<56, 48, 48, 48>>, <<51, 50, 55, 54, 56>>, <<51, 50, 55, 54, 55>>,
                <<54, 53, 53, 51, 54>>, <<54, 53, 53, 51, 53>>, <<70, 70, 70, 70>>,
                <<56, 48, 48, 48, 48>>, <<102, 102, 102, 102, 102>>,
                <<48, 88, 56, 48, 48, 48>>, <<49, 122, 48>>, <<55, 58>>, <<55, 91>>, <<55, 200>>}}

MCNumberCalls ==
  [fn : {"strtoul", "strtoull", "strtol", "strtoll"}, text : NumberTexts,
   base : {0, 1, 8, 10, 16, 36, 37}]
    \cup [fn : {"atoi"}, text : NumberTexts, base : {10}]

MCDecimalCalls ==
  [blanks : {<< >>, <<32, 9>>}, sign : {<< >>, <<43>>, <<45>>},
   whole : {<< >>, <<48>>, <<52, 50>>}, point : {<< >>, <<46>>},
   fraction : {<< >>, <<53>>, <<48, 55>>}, e : {<< >>, <<69>>, <<101>>},
   expoSign : {<< >>, <<43>>, <<45>>}, expo : {<< >>, <<50>>, <<49, 49>>},
   rest : {<< >>, <<120>>}]

Cells == 1 .. 5
Bytes == {0, 1, 200}
MCMemories == [Cells -> Bytes]
Counts == 0 .. 4

MCByteCalls ==
  [fn : {"memcpy", "memmove", "memcmp", "strncpy", "strncmp"}, m : MCMemories,
   d : Cells, s : Cells, n : Counts, c : {0}]
    \cup [fn : {"memccpy"}, m : MCMemories, d : {1, 2}, s : {3}, n : Counts, c : {1, 200, -56}]
    \cup [fn : {"memset", "memchr"}, m : MCMemories, d : {1}, s : Cells, n : Counts,
          c : {1, 200, 257}]
    \cup [fn : {"strcpy", "strcmp", "strstr"}, m : MCMemories, d : Cells, s : Cells,
          n : {0}, c : {0}]
    \cup [fn : {"strchr", "strrchr"}, m : MCMemories, d : {1}, s : Cells, n : {0},
          c : {0, 1, 200, -56}]
    \cup [fn : {"strlen"}, m : MCMemories, d : {1}, s : Cells \cup {NULL}, n : {0}, c : {0}]

Date(first, yday, hour) ==
  [year |-> 105, yday |-> yday, wday |-> (first + yday) % 7, mon |-> 8, mday |-> 9,
   hour |-> hour, min |-> 7, sec |-> 45]

Letters ==
  {"n", "t", "a", "A", "h", "b", "B", "p", "P", "C", "d", "e", "H", "I", "j", "k",
   "l", "m", "M", "S", "u", "w", "s", "Z", "Y", "y", "?"} \cup DOMAIN Composite

Items ==
  {<<"x">>, <<"%", "%">>} \cup {<<"%", c>> : c \in Letters}
    \cup {<<"%", "O", "d">>, <<"%", "E", "D">>}

MCTimeCalls ==
  [items : {<<x>> : x \in Items} \cup {<<x, y>> : x \in Items, y \in {<<"x">>, <<"%", "F">>}}
             \cup {<< <<"x">>, x, <<"%", "r">> >> : x \in Items},
   tm : {Date(0, 60, hour) : hour \in {0, 9, 12, 15}}, max : 0 .. 12 \cup {30, 60}]
  \cup [items : {<< <<"%", "U">> >>, << <<"%", "W">> >>},
        tm : {Date(first, yday, 15) : first \in 0 .. 6, yday \in 0 .. 365}, max : {3}]
=============================================================================
