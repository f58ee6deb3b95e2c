SPECIFICATION FairSpec
CONSTANTS
  Jobs = {j1, j2}
  Terminable = {j1}
  FailureLimit = 1
  Stray = {j2}
  MaxAbsorb = 1
INVARIANTS TypeOK SlotAccounting SessionEndExactlyOnce ReapedIsSettled ClosedPoolIsQuiet SupervisorOncePerRun
PROPERTIES VerdictIsFinal ImplementsSlots CloseCompletes DrainCompletes
