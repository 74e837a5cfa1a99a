SPECIFICATION ClientSpec
CONSTANT Nothing = Nothing
INVARIANT ClientTypeOK
PROPERTIES
  StopLostOnlyByStaleCopy
  BrakesWhileStopped
  DrivesWhenCleared
