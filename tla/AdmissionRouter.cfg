SPECIFICATION AdmissionSpec
CONSTANTS
  Jobs = {j1, j2, j3}
  Names = {"a", "b", "c"}
  TenantIds = {"acme"}
  Tenants = {"acme", "default"}
  Offers <- Routed
  Registry <- TwoAgents
  AgentCap <- OneEach
  TenantCap <- NoCaps
  OnlyOwnRooms = FALSE
  FailureLimit = 2
  RatioNum = 1
  RatioDen = 2
  MinSamples = 2
  Window = 1
  Cooldown = 1
  MaxTime = 1
  MaxOutcomes = 3
SYMMETRY Symmetry
CHECK_DEADLOCK FALSE
INVARIANTS SoftCaps
