SPECIFICATION StructuresSpec
CONSTANTS
  Keys = {k1, k2, k3, k4}
  Data = {d1}
  NoDatum = NoDatum
  e1 = e1
  e2 = e2
  e3 = e3
  e4 = e4
  e5 = e5
  e6 = e6
  e7 = e7
  Elements <- MCElements
  priority <- MCPriority
  NoElement = NoElement
INVARIANTS NodesCanonical AliasesExact Equivalence DatumExact LeastFirst
