SPECIFICATION LiveTransactionSpec
CONSTANTS
  RifCount = 3
  Port = {"p1"}
  Vs = {"v1", "v2"}
  Hop = {"h1", "h2"}
  Resolvable <- OneOrNone
  Configs <- MCConfigs
  NoConfig = NoConfig
  Broken = Broken
  None = None
  MaxContexts = 2
  TxFaults = {"flush", "detach", "attach", "meter", "unbind", "half", "bind", "elig", "acl", "build", "deny", "route", "save"}
  MaxFaults = 1
  UndoFaults = 1
INVARIANTS RoutesCommitted
PROPERTIES RefinesPromise RoutesCatchUp
