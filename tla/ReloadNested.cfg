SPECIFICATION ReloadSpec
CONSTANTS
  Paths = {"a", "b"}
  AutoDiscover = FALSE
  MaxBatches = 0
  MaxRefreshes = 0
  Agents = {"a", "b"}
  SourceOf <- OwnFile
  Sessions = {"s", "t"}
  AgentOf <- BothOfA
  MaxEdits = 2
  Replaces = FALSE
  Handoffs = FALSE
  MaxPins = 2
CHECK_DEADLOCK FALSE
PROPERTIES PinHolds
