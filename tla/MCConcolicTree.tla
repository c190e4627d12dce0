--------------------------- MODULE MCConcolicTree ---------------------------
(***************************************************************************)
(* ConcolicTree on every program that is three of a few instructions, one  *)
(* after the other, the last of which may guard a failure.                 *)
(***************************************************************************)
EXTENDS ConcolicTree

MCInputs == 0 .. 2

Condition(holds) == [v \in MCInputs |-> IF v \in holds THEN "true" ELSE "false"]
Number == [v \in MCInputs |-> IF v = 0 THEN "0" ELSE "1"]

Instruction(op, value) == [op |-> op, value |-> value]
EndIn(op) == Instruction(op, Condition(MCInputs))

Line ==
  {Instruction(op, Condition(holds)) :
     op \in {"select", "assume"}, holds \in {{}, {0}, {0, 1}, {1}}}
  \cup {Instruction("assert", Condition(holds)) : holds \in {{0, 1}, {1, 2}, MCInputs}}
  \cup {Instruction("select_i32", Number), EndIn("abort")}

(* The elements an instruction may add. *)
Adds(instr) ==
  IF instr.op \in {"select", "select_i32"}
  THEN Range(instr.value) \cup Branches(instr.op) ELSE {"true"}

(* The last of three instructions a, b, c guards the failure. *)
Program(a, b, c, failure) ==
  LET once == {<<x>> : x \in Adds(a)}
      twice == {<<x, y>> : x \in Adds(a), y \in Adds(b)}
      ends == {<<x, y, z>> : x \in Adds(a), y \in Adds(b), z \in Adds(c)}
  IN  [p \in {<<>>} \cup once \cup twice \cup ends |->
         CASE Len(p) = 0 -> a
           [] Len(p) = 1 -> b
           [] Len(p) = 2 -> c
           [] OTHER -> EndIn(IF p[3] = "true" THEN failure ELSE "normal")]

MCPrograms ==
  {Program(a, b, c, failure) :
     a \in Line, b \in Line, c \in Line, failure \in Leaf}
=============================================================================
