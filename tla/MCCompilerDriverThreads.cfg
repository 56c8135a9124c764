SPECIFICATION DriverSpec
CONSTANTS
  ChannelCap = 1
  MaxClicks = 2
  MaxFunctions = 1
INVARIANTS SendSucceeds RunThreadSurvives
