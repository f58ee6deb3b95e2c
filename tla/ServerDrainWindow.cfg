SPECIFICATION ServerSpec
CONSTANTS
  Jobs = {j1, j2}
  Terminable = {}
  FailureLimit = 2
  Stray = {}
  MaxAbsorb = 0
PROPERTIES DrainWindowIsBounded
