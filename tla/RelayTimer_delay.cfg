CONSTANTS
  Configs <- Delayed
  Multi = FALSE
  MaxChunks = 3
  Burst = 1
  Phase2End = 3
SPECIFICATION RelaySpec
INVARIANT DelayHasTimer
