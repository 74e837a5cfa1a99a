SPECIFICATION SessionSpec
CONSTANTS
  Vins = {v1, v2}
  None = None
INVARIANTS
  SessionTypeOK
  OneVehicle
  StopsAtLogout
  PreflightWaits
