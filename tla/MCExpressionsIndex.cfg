SPECIFICATION FairSpec
CONSTANTS
  Inputs <- IndexInputs
PROPERTIES ParsingEnds
