SPECIFICATION Spec
CONSTANTS
  Cells = {0, 1}
  Instrs = {"store", "memory_grow"}
  Symbolic <- SymbolicGrow
  MaxPaths = 2
  MaxOps = 2
INVARIANT GrowthIsSeen
