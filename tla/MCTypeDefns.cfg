SPECIFICATION Spec
CONSTANTS
  Programs <- MCPrograms
  Names <- MCNames
  MaxStack = 4
INVARIANTS NothingLeftPending NoDanglingReference OverflowMeansCycle
  UnqualifiedAsWritten AcceptsWellFormed
