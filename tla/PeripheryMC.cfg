SPECIFICATION Spec
CONSTANTS
  Pids = {"a", "b"}
  Processes = {1, 2, 3}
  PidOf <- PidOfProcess
  Protected = {2}
  MaxRequests = 2
  MaxKeys = 1
  NoOne = NoOne
  Monitors = {m1, m2}
  NoRun = NoRun
  Unknown = Unknown
  FanoutThreshold = 2
  AttemptsThreshold = 2
  BurstThreshold = 3
  Programs <- AllPrograms
  Talkers <- Apps
  SocketKinds <- SomeSockets
  MaxSockets = 2
  Sockets = {"tcp", "tcp6", "idle"}
  Autostarts = {"run", "task"}
  Images = {"image1", "image2"}
  Listeners = {"port"}
  Tables = {"TCP/IPV4", "TCP/IPV6"}
  Source <- SourceOf
  ItemOf <- ItemOfKept
  Unreportable = {"idle"}
  Versions = {1, 2}
  MaxPending = 2
  Nothing = Nothing
  Subjects = {p1, p2, p3}
  PidOfSubject <- PidsOfSubjects
  Denied = {p2}
  NoEntry = NoEntry
  Contents = {1, 2, 3}
  Missing = Missing
  Signed <- SignatureOf
  TooLarge = {}
  Packaged = FALSE
  Chunks = 2
  Openers = {o1, o2, o3}
  Statements = 3
  TreePids = {1, 2, 3, 4}
  Times = {0, 1, 2}
  MaxDepth = 2
INVARIANTS
  OnlyConfirmedIsHit ActedIsAudited ListedIsInForce StatusIsTrue
  FiredIsJustified RowsFollowReports CachedDetailsAreTrue CachedIdentityIsTrue SchemaIsWhole EveryProcessIsShown
PROPERTIES ScoreNeverFalls NewIsNew
CHECK_DEADLOCK FALSE
