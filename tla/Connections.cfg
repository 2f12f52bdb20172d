CONSTANTS
  Addrs = {1}
  NJobs = 2
  NConns = 2
  Limits <- MCLimits
  MaxEntries = 1
  Listeners = {l1, l2}
  Closers = {k1}
  max_special_connections = 2
  MaxClients = 9
  Fds = {1}
  Socks = {s1, s2}
  Getters = {x1, x2}
  Sweeper = x1
  NoSock = NoSock
  Events = {1, 2, 3, 4, 5, 6, 7}
  priority <- MCpriority
  Reports <- MCReports
  Keys = {1, 2, 3}
  Draws <- MCDraws
  Cells = {1, 2, 3, 4, 5, 6, 7, 8, 9, 10, 11, 12}
  TreeReaders = {r1}
  MaxChanges = 3
SPECIFICATION Spec
INVARIANTS ConnectionsCounted GateKept SlotsSafe EventsKept
PROPERTIES OpensWithinLimit TargetsMove SighupHandled
