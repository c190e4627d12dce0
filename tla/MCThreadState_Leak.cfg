SPECIFICATION Spec
CONSTANTS
  Cells = {0, 1}
  Instrs = {"store", "global_set"}
  Symbolic <- SymbolicAddress
  MaxPaths = 2
  MaxOps = 2
INVARIANT NothingLeaks
