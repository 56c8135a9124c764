SPECIFICATION Spec
CONSTANTS
 Programs <- MCPrograms
 MaxNesting = 4
 CheckSteps = 12
INVARIANTS OverflowMeansCycle AcceptedIsWellTyped WellTypedIsAccepted GeneratedIsConcrete
