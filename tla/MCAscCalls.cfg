CONSTANTS
  Threads = {c1, c2}
  Window = 2
  MinuteCap = 1
  Spacing = 1
  Lifetime = 3
  Margin = 2
  Timeout = 1
  Backoffs = {0}
  MaxRetries = 1
  PageSize = 2
  MaxPages = 2
  Work <- Reading
  NoToken = NoToken
  NoThread = NoThread
  NoLimit = NoLimit
  NoWork = NoWork
SPECIFICATION FairSpec
INVARIANTS TypeOK MinuteCapHolds NoTokenExpiresInFlight FreshTokenAfterRefusal CompleteUnlessCut
PROPERTIES EveryCallEnds
