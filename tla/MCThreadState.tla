---------------------------- MODULE MCThreadState ----------------------------
(***************************************************************************)
(* ThreadState with several choices of what may be symbolic.               *)
(***************************************************************************)
EXTENDS ThreadState, TLC

(* No cell is told from another, but by what was written to it. *)
CellsAlike == Permutations(Cells)

(* Whatever may be symbolic. *)
Everything == Instrs \X {"address", "size"}

SymbolicGrow == {<<"memory_grow", "address">>}   \* test/sym/grow.wat
SymbolicAddress == {<<"store", "address">>}      \* test/sym/store.wat
=============================================================================
