SPECIFICATION NatSpec
CONSTANTS
  Vr <- MCVr
  Rif <- MCRif
  Ip <- MCIp
  Port <- MCPort
  Loc = {l1}
  MaxSessions = 3
  TcpIdle = 1
  UdpIdle = 0
  IcmpIdle = 0
  Configs <- MCConfigs
  OutPkts <- MCOutPkts
  InPkts <- MCInPkts
  Free = Free
  NoPolicy = NoPolicy
  NoLoc = NoLoc
INVARIANTS
  NatTypeOK
  ReverseTupleUnique
  ForwardTupleUnique
  SnatPortExclusive
  SessionsMatchConfig
PROPERTIES
  HardwarePinsSession
