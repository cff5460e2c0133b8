SPECIFICATION FairFdbSpec
CONSTANTS
  Vs = {1, 2}
  Mac = {m1}
  Port = {p1, p2}
  FdbCapacity = 1
  Aging = 2
  Grace = 1
  RetryMax = 2
  MaxRetries = 3
  FdbFaults = {"learn", "remove", "query"}
  Free = Free
  NoRule = NoRule
INVARIANTS
  EveryRuleListed
  ForwardsToLearned
PROPERTIES
  LiveStationKept
  SilentForgotten
