SPECIFICATION FairSpec
CONSTANTS
  Jobs = {j1}
  Terminable = {}
  FailureLimit = 2
  Stray = {}
  MaxAbsorb = 2
PROPERTIES CloseCompletes
