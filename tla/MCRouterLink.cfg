SPECIFICATION RcSpec
CONSTANTS
  Vr <- MCTwoVrs
  Link = {"k"}
  Name = {"a", "b"}
  Switch = {"s1"}
  Vf = {"v1"}
  Net = {"n1", "n2"}
  Host = {1, 2}
  Nested <- MCNested
  Dest = {}
  Default = "default"
  Forward = {}
  RuleId = {}
  MacInput = {}
  Filters = {}
  MaxId = 3
  MaxVrs = 2
  MaxLinks = 1
  MaxInterfaces = 3
  MaxRoutes = 2
  MaxForwards = 0
  MaxPolicies = 0
  MaxRules = 0
  NoAddr = NoAddr
  Rejected = Rejected
INVARIANTS
  LinkPointToPoint
  ReloadFaithful
