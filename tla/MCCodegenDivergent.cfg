INIT InitDivergent
NEXT Next
CONSTANTS
  Modules <- MCModules
  Scopes <- MCScopes
  MaxAsks = 4
INVARIANT NeverPanics
