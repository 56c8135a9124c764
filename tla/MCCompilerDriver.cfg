SPECIFICATION FairDriverSpec
CONSTANTS
  ChannelCap = 1
  MaxClicks = 4
  MaxFunctions = 2
INVARIANTS
  ExecutableIsCurrent
  ChildAtMostOneBehind
PROPERTIES
  CompileRequestsServed
