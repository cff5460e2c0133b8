SPECIFICATION FairArmSpec
CONSTANTS
  v1 = v1  p1 = p1  p2 = p2 p3 = p3  g = g  f1 = f1  f2 = f2
  Rif = {1, 2, 3}
  Ip = {g}
  Mac = {m1}
  Port = {p1, p2, p3}
  Zero = p1
  NoMac = NoMac
  NbrCapacity = 2
  Reachable = 2
  RefreshDue = 1
  ProbeEvery = 1
  RefreshEvery = 1
  Free = Free
  Vs = {v1}
  Attachment <- MCAttachment
  Flow = {f1, f2}
  Ingress <- MCIngress
  Configs <- MCConfigs
  NoRoute = NoRoute
  PendingMax = 2
  PerNeighbor = 1
  PendingTimeout = 1
  ArmFaults = {"flush", "prepare", "save"}
  Prompt <- MCPrompt
INVARIANTS
  ArmTypeOK
  PendingIsCurrent
  NeighborOnItsRif
PROPERTIES
  HopStaysReachable
  QueueDrains
