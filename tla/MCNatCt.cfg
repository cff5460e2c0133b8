SPECIFICATION FairCtSpec
CONSTANTS
  Guest = {g1, g2}
  Vr <- MCVr
  Rif <- MCRif
  Ip <- MCIp
  Port <- MCPort
  Loc = {l1}
  MaxSessions = 2
  TcpIdle = 1
  UdpIdle = 1
  IcmpIdle = 0
  Configs <- MCConfigs
  OutPkts <- MCOutPkts
  InPkts <- MCInPkts
  Free = Free
  NoPolicy = NoPolicy
  NoLoc = NoLoc
  Hop = {h1}
  CtCapacity = 1
  MaxAdjacencies = 2
  Lease = 1
  RetryFirst = 1
  RetryCap = 1
  Faults = TRUE
  AllVrs = AllVrs
  NoConn = NoConn
  NoAdj = NoAdj
INVARIANTS
  ConnectionOwned
  NoStaleTranslation
  ActiveCount
  AdjacencyLive
PROPERTIES
  LeaseEnds
CHECK_DEADLOCK FALSE
