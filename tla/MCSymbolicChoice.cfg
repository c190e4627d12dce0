SPECIFICATION Spec
CONSTANTS
  x = x
  y = y
  z = z
  NoSlice <- MCNoSlice
  Inputs <- MCInputs
  Vals <- MCVals
  Tests <- MCTests
  TestSymbols <- MCTestSymbols
  TestHolds <- MCTestHolds
  Exprs <- MCExprs
  ExprSymbols <- MCExprSymbols
  ExprValue <- MCExprValue
  MaxFresh = 2
  MaxOps = 3
INVARIANTS SliceExact SliceDecides PathsFeasible PathsPartitionInputs
