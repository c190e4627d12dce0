SPECIFICATION Spec
CONSTANTS
  AddressSpace = 64
  HeapBase = 16
  Null = Null
  Sizes = {0, 1, 10}
  Offsets = {0, 2}
  Contracts = {0, 9}
  Values = {{0, 7}}
  MaxCalls = 5
INVARIANTS   FreshIsZero ContractsExact ScopesClosed
CHECK_DEADLOCK FALSE
