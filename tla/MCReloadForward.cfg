SPECIFICATION RcSpec
CONSTANTS
  Vr <- MCOneVr
  Link = {}
  Name = {"a", "b"}
  Switch = {"s1"}
  Vf = {"v1"}
  Net = {"n1", "n2"}
  Host = {1, 2}
  Nested = {}
  Dest = {}
  Default = "default"
  Forward <- MCForward
  RuleId = {1}
  MacInput = {}
  Filters = {}
  MaxId = 2
  MaxVrs = 1
  MaxLinks = 0
  MaxInterfaces = 2
  MaxRoutes = 1
  MaxForwards = 1
  MaxPolicies = 1
  MaxRules = 1
  NoAddr = NoAddr
  Rejected = Rejected
INVARIANTS
  Reloads
