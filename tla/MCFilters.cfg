SPECIFICATION FiltersSpec
CONSTANTS
  PortBits = 3
  IcmpBits = 2
  MaxPriorities = 2
  MaxRanges = 2
  MaxSpecs = 9
  MaxIcmp = 5
  NoPolicy = NoPolicy
  Packet <- MCPacket
  Reply <- MCReply
  Sent <- MCSent
  Place = {h1}
  Peers = {1}
  InputRule <- MCInputRule
  MaxExceptions = 1
  MaxAuthorized = 1
  Lease = 1
  EgressFaults = {"flush", "build", "gate", "select", "save", "add", "remove"}
  None = None
  Unset = Unset
  InPacket <- MCInPacket
  InRule <- MCInRule
  NatRange <- MCNatRange
  MaxInSessions = 1
  DenyFaults = {"flush", "build", "target", "save"}
INVARIANTS
  AclIsChecker
  DropsDenied
PROPERTIES
  DeadEntriesGo
