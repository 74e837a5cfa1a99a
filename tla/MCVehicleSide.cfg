SPECIFICATION FairSideSpec
CONSTANTS
  Unit = 10
  ProtectiveBrake = 3
  ThrottleLimit = 2
  SurvivalThreshold = 1
  WatchdogTimeout = 2
  DegradedRtt = 1
  CriticalRtt = 2
  StampWindow = 4
  MaxTickGap = 2
  MaxAge = 5
  MaxLead = 1
  MaxSeq = 1
  Sessions = {s1}
  NoSession = NoSession
  Commands <- MCDrive
  Delays = {0, 2, 3}
  Messages <- MCMessages
  LoopGap = 1
  Nothing = Nothing
INVARIANTS
  SideTypeOK
PROPERTIES
  ImplementsDeadMan
  NoThrottleFromStaleRead
  StopsWhenSilent
