SPECIFICATION FairSpec
CONSTANTS
  Intersections = {1, 2, 3, 4}
  Nodes = {edge_001}
  IntersectionOf <- Where
  Topologies <- AnyTopology
  Emergencies <- Calls
  Timing = zone_default
  Nobody = Nobody
  DefaultSpeed = 2
  PlanInterval = 2
  SyncInterval = 1
  CycleLength = 5
  DesignSpeed = 2
  NumbersPerTick = 3
  MessagesPerTick = 1
  MaxClock = 3
CHECK_DEADLOCK FALSE
INVARIANTS
  GreenWaveHolds
  OverridesFollowRoute
PROPERTIES
  NumbersIncrease
  SignalStops
