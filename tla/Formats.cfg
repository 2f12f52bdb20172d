SPECIFICATION FormatSpec
CONSTANTS
  Streams <- MCStreams
  MaxPieces = 3
  MaxWord = 4
  MaxHeader = 22
  MaxSize = 10
  ClockTimes = {11647}
  LastDay = 24854
  Clients <- MCClients
  T3Pieces = 3
  ProbeLimit = 12
  HeadLen = 6
  MinMore = 1
  MaxPacket = 5
  Pad = 2
  Banned <- MCBanned
  V4 <- MCV4
  V6 <- MCV6
  MaxV1 = 12
  Writes <- MCWrites
  SmallWrite = 5
  FrameDraws = {16384, 66000}
  PadSizes = {32, 288}
  MaxFlushes = 2
  Hellos <- MCHellos
  Answers <- MCAnswers
  Domains <- MCDomains
  Cuts = 12
  MaxList = 3
  Letters = {"a", ".", "*", "b"}
  MaxName = 5
  Added <- MCAdded
  MaxDomains = 2
  ProbeTries = 3
  Sizes = {2, 3, 9}
  Noise = 2
  MinSize = 4
  Defaults = {6, 7}
  Packets = {"custom", "header", "function", "query"}
  TlQueries <- MCTlQueries
  StatTexts <- MCStatTexts
  TextLength <- MCTextLength
  V4Bits = 2
  ByteBits = 2
  V6Bytes = 2
  Mapped <- MCMapped
  AclFiles <- MCAclFiles
  ConfFiles <- MCConfFiles
  ConfHosts = {"a", "b", "c"}
  MaxTargets = 4
  MaxClusters = 3
  DcLimit = 2
  V4Hosts = {"4a", "4b"}
  V6Hosts = {"6a"}
  BadHosts = {"name"}
  OverriddenDcs = {1, 3}
  MaxAddrs = 2
  MaxGiven = 3
  AskedDcs <- MCAskedDcs
  Probed = 2
  ProbeTimeout = 3
  Bounds <- MCBounds
  Intervals = {2, 5}
  MaxRounds = 2
CHECK_DEADLOCK FALSE
INVARIANTS HttpRight  HellosRight QueriesAnswered 
