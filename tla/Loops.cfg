CONSTANTS
  Configs <- Single
  Multi = FALSE
  MaxChunks = 3
  Burst = 1
  Phase2End = 3
  m = m
  n = n
  o = o
  AnyClass = AnyClass
  Threads = {m, n, o}
  Classes = {"main", "mult", "conn"}
  MainClass = "main"
  Queues = {"qmain", "qconn"}
  QueueOf <- MCQueueOf
  Home <- MCHome
  SigClass <- MCSigClass
  Fast = {"FINISH"}
  MaxRefs = 1
  MaxLeft = 1
SPECIFICATION Spec
INVARIANTS JobsAccounted
PROPERTIES InputMoves OutputMoves SignalHandled LastRefFinishes
