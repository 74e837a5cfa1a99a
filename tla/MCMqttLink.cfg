SPECIFICATION MqttSpec
CONSTANTS
  Vins = {v1, v2}
  MaxReconnectAttempts = 10
  MaxCalls = 4
  None = None
INVARIANTS
  MqttTypeOK
  UpIsKnown
  LostRequestIsForgotten
  BackoffNeverGrows
PROPERTIES
  PendingEnds
