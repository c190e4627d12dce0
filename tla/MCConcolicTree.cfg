SPECIFICATION Spec
CONSTANTS
  Inputs <- MCInputs
  Programs <- MCPrograms
INVARIANTS CountsExact NoPathTwice FrontierCoversInputs AllOkSound
PROPERTY Terminates
