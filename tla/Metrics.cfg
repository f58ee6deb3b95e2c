SPECIFICATION MetricsFairSpec
CONSTANTS
  Sessions = {s1, s2}
  Capacity = 2
  HasFile = TRUE
  MaxTicks = 2
  MaxFaults = 1
INVARIANTS EventsAccounted StreamIsWhole SnapshotsReconcile
PROPERTIES StopReturns
