SPECIFICATION PartSpec
CONSTANTS
  h1 = h1
  h2 = h2
  h3 = h3
  h4 = h4
  r1 = r1
  r2 = r2
  r3 = r3
  b1 = b1
  b2 = b2
  Hellos = {h1, h2, h3, h4}
  Randoms = {r1, r2, r3}
  Buckets = {b1, b2}
  Prefix <- MCPrefix
  Stamp <- MCStamp
  BucketOf <- MCBucketOf
  CacheTime = 4
  Error = 2
  Skew = 1
  MaxNow = 10
  Fds = {1, 2}
  NConns = 3
  MaxPackets = 2
  MaxQueue = 2
  Msgs = {m1, m2, m3}
  NParts = 9
  MSG_SMALL_BUFFER = 2
  MSG_STD_BUFFER = 3
  RM_PREPEND_RESERVE = 1
  BlockSize = 2
  Lengths = {1, 3}
  MaxText = 4
  MaxOps = 5
  Setups <- MCSetups
  MaxClockSkew = 1
  MaxPings = 1
INVARIANTS NoReplay NoCrossTalk TableKept MessagesKept EndsAgree
PROPERTIES RestartWindow ImplementsPolicy DroppedStaysSilent
SYMMETRY Interchangeable
CHECK_DEADLOCK FALSE
