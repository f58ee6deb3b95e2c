SPECIFICATION MCSpec
CONSTANTS
  Sessions = {s1, s2}
  MaxSamples = 2
  MaxReports = 2
  RssReadings <- Units
  Workers = {w1, w2}
  Watched = w1
  MaxReadings = 4
CHECK_DEADLOCK FALSE
INVARIANTS TopRowsAreSound ClosedStackIsGone WarnsOncePerCrossing
