SPECIFICATION ForwardSpec
CONSTANTS
  Width = 3
  Reserved = {0, 7}
  NoRoute = {7}
  RifCount = 3
  VrOf <- MCVrOf
  Uplinks = {2}
  IfAddress <- MCIfAddress
  RoutePrefix <- MCRoutePrefix
  PolicyRifs = {2}
  Stations = {2, 6}
  MaxRoutes = 2
  NbrSlots = 2
  HwCapacity = 4
  None = None
INVARIANTS
  LookupIsLongest
  ResolvedLikeArm
