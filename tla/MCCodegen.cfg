SPECIFICATION Spec
CONSTANTS
  Modules <- MCModules
  Scopes <- MCScopes
  MaxAsks = 4
INVARIANTS ModulesVerify
PROPERTY RunsLikeTheSource
