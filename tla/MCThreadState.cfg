SPECIFICATION Spec
CONSTANTS
  Cells = {c0, c1}
  Instrs = {"store", "memory_grow", "memory_fill", "table_set"}
  Symbolic <- Everything
  MaxPaths = 2
  MaxOps = 2
SYMMETRY CellsAlike
INVARIANTS OwnEffects HandlesCurrent
