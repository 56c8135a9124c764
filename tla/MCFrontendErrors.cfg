SPECIFICATION Spec
CONSTANTS
  OneFile = 3
  TwoFiles = 2
  Modules <- MCModules
INVARIANTS AcceptedIsWellFormed LexFailureEndsTheCompilation ErrorsNameTheirFile
