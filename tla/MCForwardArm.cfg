SPECIFICATION ForwardSpec
CONSTANTS
  Width = 3
  Reserved = {0, 7}
  NoRoute = {7}
  RifCount = 2
  VrOf <- MCVrOf
  Uplinks = {}
  IfAddress <- MCTwoSubnets
  RoutePrefix <- MCCoveringPrefix
  PolicyRifs = {}
  Stations = {2, 4}
  MaxRoutes = 1
  NbrSlots = 1
  HwCapacity = 4
  None = None
INVARIANT HwKeepsLongestPrefix
