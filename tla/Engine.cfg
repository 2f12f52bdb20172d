SPECIFICATION EngineSpec
CONSTANTS
  Processes = {"p1"}
  Ips = {m1, m2}
  Conns = {c1, c2}
  Settings <- MCSettings
  TableSizes = {1, 2}
  Reads = {1}
  MaxDelay = 4
  MaxClock = 1
  MaxReloads = 1
  MaxUsed = 4
  MaxJoins = 3
  Peers = {"a", "b", "c"}
  Links = {1, 2}
  VolumeSize = 2
  Stale = 1
  TopN = 1
  MaxBytes = 2
  MaxTime = 3
  NWorkers = 2
  Prints = {"j1", "j2"}
  Sources = {"s1", "s2"}
  Seen <- MCSeen
  WorkerJa4 = 1
  MasterJa4 = 1
  MasterIps = 1
  MaxHellos = 1
  MaxUpdates = 1
  Tunnels = {1, 2}
  Handovers <- MCHandovers
  Cap = 1
  TargetSends = 1
  Threads = {"p", "q", "x"}
  Plans <- MCPlans
  Tries = 1
  NRings = 4
  SmallSize = 1
  BigSize = 2
  MaxIter = 1
  BufThreads = {m1, m2}
  ChunkBuffers = 2
  TwoPower = 4
  MaxChunks = 2
  BufOps = 3
  WordSize = 256
  SubThreads = {m1, m2, m3}
  SubJobs <- MCSubJobs
  Tokens = 2
  MaxInstant = 3
  MaxSets = 5
  NTimers = 6
  WakeTimes = {1, 2, 3}
  MaxTimers = 6
  MaxOps = 1
  m1 = m1
  m2 = m2
  m3 = m3
  c1 = c1
  c2 = c2
SYMMETRY Interchangeable
CHECK_DEADLOCK FALSE
INVARIANTS  StatsRight TunnelsKept  SublistsRight TimerKept
