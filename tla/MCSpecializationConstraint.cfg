SPECIFICATION Spec
CONSTANTS
 Programs <- MCConstrained
 MaxNesting = 4
 CheckSteps = 12
INVARIANT ConstraintsHold
