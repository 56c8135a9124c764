SPECIFICATION Spec
CONSTANTS
  Scalars = {"literal", "other"}
  Types <- MCTypes
  Patterns <- MCPatterns
  Matches <- MCMatches
INVARIANTS FirstMatchSelected NoGarbageTested AnalysedNeverCrashes RejectionsJustified
  AcceptedArmsReachable
