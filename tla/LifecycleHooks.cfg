SPECIFICATION Spec
CONSTANTS
  Sessions = {s1}
  Agents = {a1}
  FakeJobs = {}
  Observers = 2
  MaxCancels = 1
INVARIANT OwnCancellationIsIsolated
