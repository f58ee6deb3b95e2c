SPECIFICATION PoolSpec
CONSTANTS
  AgentNames = {"sales", "support"}
  Directories <- Files
  Given <- Observer
  Added = {"late"}
  Calls = {c1, c2}
  Threads = {t1, t2}
  Serial = TRUE
SYMMETRY Symmetric
CHECK_DEADLOCK FALSE
INVARIANTS RegistriesFollowCalls HooksArePaired AuditIsWhole
