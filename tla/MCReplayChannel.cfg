SPECIFICATION ChannelSpec
CONSTANTS
  Threads = {worker, ui}
  NoNumber = NoNumber
  StampWindow = 1
  Lead = 1
  MaxTime = 4
  MaxNumber = 3
  MaxRestarts = 1
INVARIANTS
  ChannelTypeOK
  AtMostOnceUnlessInverted
  RestartedClientIsHeard
PROPERTIES
  InOrderUnlessInverted
