SPECIFICATION VideoSpec
CONSTANTS
  Streams = {front}
  MaxRetries = 1
  MaxReconnects = 2
  MaxPosts = 3
  MaxLate = 1
INVARIANTS
  VideoTypeOK
  UpIsShown
PROPERTIES
  OnlyLateRetryRevives
  DropIsRetried
