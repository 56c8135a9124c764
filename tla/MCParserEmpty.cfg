SPECIFICATION Spec
CONSTANTS
  Sources <- EmptySources
INVARIANTS ReadsBack
