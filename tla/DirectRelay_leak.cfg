SPECIFICATION DirectSpec
CONSTANTS
  None = None
  Methods = Methods
  Clients = {c1}
  DCs = {d1, d2}
  MaxRetries = 2
  Confs <- FailsLater
INVARIANTS JobsFreed
