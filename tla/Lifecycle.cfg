SPECIFICATION FairSpec
CONSTANTS
  Sessions = {s1, s2}
  Agents = {a1}
  FakeJobs = {s2}
  Observers = 2
  MaxCancels = 2
INVARIANTS GaugeCountsLiveCalls FinishedExactlyOnce EndReachesEveryObserver
PROPERTIES TaskSteps HangupIsReported
