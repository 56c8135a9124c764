SPECIFICATION Spec
CONSTANTS
  Sources <- MCSources
INVARIANTS ReadsBack NothingPassedOver
