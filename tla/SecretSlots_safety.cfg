SPECIFICATION Spec
CONSTANTS
  MaxSlots = 3
  MaxActive = 3
  Pinned = 1
  PinnedKey <- MCPinnedKey
  Keys = {k0, k1, k2}
  NoKey = NoKey
  Never = Never
  Conns = {c1, c2}
  Configs <- MCConfigs
  Timeouts = {0, 1}
  Mixed = FALSE
  MaxAge = 1
  k0 = k0
  k1 = k1
  k2 = k2
  c1 = c1
  c2 = c2
INVARIANTS
  ConnAccounting
  SlotKeepsSecret
  PinnedServed
PROPERTIES
  DrainEnds
CHECK_DEADLOCK FALSE
