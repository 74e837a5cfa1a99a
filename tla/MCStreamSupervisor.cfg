SPECIFICATION FairStreamSpec
CONSTANTS
  Scripts = {p1, p2}
  NoOne = NoOne
  MaxKills = 1
INVARIANTS
  StreamTypeOK
  LockNotAbandoned
PROPERTIES
  ComesBackUnlessLockedOut
