SPECIFICATION FairSpec
CONSTANTS
  Total = 2
  ExitCodes = {0, 1}
  Expectations <- AnyExpectation
INVARIANTS OkMeansEveryTestMeets
PROPERTIES SuiteEnds
