SPECIFICATION BreakerSpec
CONSTANTS
  Tenants = {t1}
  RatioNum = 1
  RatioDen = 2
  MinSamples = 2
  Window = 2
  Cooldown = 1
  MaxTime = 3
  MaxOutcomes = 4
PROPERTIES FreshAfterRecovery
