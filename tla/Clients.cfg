SPECIFICATION BothSpec
CONSTANTS
  MaxSlots = 2
  MaxActive = 1
  Pinned = 0
  PinnedKey <- NoPinned
  Keys = {k1, k2}
  NoKey = NoKey
  Never = Never
  Conns = {c1, c2}
  Configs <- NoneOneTwo
  Timeouts = {1}
  Mixed = TRUE
  MaxAge = 1
  k1 = k1
  k2 = k2
  c1 = c1
  c2 = c2
  d1 = d1
  d2 = d2
  None = None
  Methods = Methods
  Clients = {c1, c2}
  DCs = {d1, d2}
  MaxRetries = 2
  Confs <- TwoConfs
INVARIANTS OneSlotPerSecret PairsHold CountReturns
PROPERTIES RetryFollows PairMoves
CHECK_DEADLOCK FALSE
