--------------------------- MODULE MCSymbolicChoice ---------------------------
(***************************************************************************)
(* SymbolicChoice with three inputs of two values.  The tests relate one   *)
(* input and two pairs of them, so that slices grow, stay apart and merge. *)
(***************************************************************************)
EXTENDS SymbolicChoice

CONSTANTS x, y, z

MCInputs == {x, y, z}
MCVals == 0 .. 1

MCTests == {"x=0", "x=y", "y<z"}

MCTestSymbols ==
  [t \in MCTests |-> CASE t = "x=0" -> <<x>>
                       [] t = "x=y" -> <<x, y>>
                       [] t = "y<z" -> <<y, z>>]

MCTestHolds(t, a) ==
  CASE t = "x=0" -> a[x] = 0
    [] t = "x=y" -> a[x] = a[y]
    [] t = "y<z" -> a[y] < a[z]

(* Not a set of conditions. *)
MCNoSlice == {[kind |-> "none"]}

(* A symbol, and the sum of two. *)
MCExprs == {z, "x+z"}
MCExprSymbols == [e \in MCExprs |-> IF e = z THEN <<z>> ELSE <<x, z>>]
MCExprValue(e, a) == IF e = z THEN a[z] ELSE (a[x] + a[z]) % 2
=============================================================================
