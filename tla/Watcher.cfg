SPECIFICATION FairWatcherSpec
CONSTANTS
  Paths = {p, q}
  AutoDiscover = TRUE
  MaxBatches = 2
  MaxRefreshes = 2
CHECK_DEADLOCK FALSE
INVARIANTS PendingHasFlush
PROPERTIES QuietAfterStop RefreshTakesEffect
