SPECIFICATION L2Spec
CONSTANTS
  p0 = p0
  vf = vf
  vf2 = vf2
  MaxVlan = 3
  Vs = {1, 2}
  Port = {p0, vf, vf2}
  Parent = p0
  Request <- MCRequest
  Rif = {1, 2}
  RifAt <- MCRifAt
  RifVr <- MCRifVr
  None = None
  MaxRules = 5
  MaxContexts = 3
  L2Faults = {"ingress", "detach", "flood", "unflood", "fdb", "save", "bind", "unbind", "unarm", "route", "flush"}
INVARIANTS
  Restorable
  OneClassifier
  SwitchesMembers
  ContextGateExists
