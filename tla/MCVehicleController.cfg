SPECIFICATION Spec
CONSTANTS
  Unit = 10
  ProtectiveBrake = 3
  ThrottleLimit = 2
  SurvivalThreshold = 1
  WatchdogTimeout = 3
  DegradedRtt = 1
  CriticalRtt = 2
  StampWindow = 4
  MaxTickGap = 2
  MaxAge = 6
  MaxLead = 1
  MaxSeq = 1
  Sessions = {s1}
  NoSession = NoSession
  Commands <- MCCommands
INVARIANTS
  TypeOK
  SafeStopIsFullBrake
  SilenceStopsVehicle
PROPERTIES
  SurvivalOnlyEases
