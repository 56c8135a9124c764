SPECIFICATION FairSpec
CONSTANTS
  OneFile = 5
  TwoFiles = 2
  Modules <- MCModules
INVARIANTS DefinitionsInTheirScope MalformedFilesLeaveATrace
PROPERTIES FrontendEnds
