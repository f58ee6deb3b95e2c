SPECIFICATION ReloadSpec
CONSTANTS
  Paths = {"a", "b"}
  AutoDiscover = FALSE
  MaxBatches = 0
  MaxRefreshes = 0
  Agents = {"a", "b"}
  SourceOf <- OwnFile
  Sessions = {"s", "t"}
  AgentOf <- BothOfA
  MaxEdits = 2
  Replaces = TRUE
  Handoffs = TRUE
  MaxPins = 1
CHECK_DEADLOCK FALSE
INVARIANTS LaggardsAreExcused SettledIsCurrent
PROPERTIES SwapsAreCalledFor
