SPECIFICATION FairDirect
CONSTANTS
  None = None
  Methods = Methods
  Clients = {c1}
  DCs = {d1}
  MaxRetries = 2
  Confs <- FailsAtOnce
PROPERTIES RetryAlwaysFollows
