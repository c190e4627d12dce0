SPECIFICATION Spec
CONSTANTS
  Inputs <- MCInputs
  Programs <- MCPrograms
INVARIANT NothingLeftToExplore
