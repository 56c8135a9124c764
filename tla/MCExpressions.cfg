SPECIFICATION FairSpec
CONSTANTS
  Inputs <- MCInputs
INVARIANTS NeverPanics GroupedByPrecedence
PROPERTIES EndsUnlessIndexed
