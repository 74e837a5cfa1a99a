SPECIFICATION QueueSpec
CONSTANTS
  Sizes = {1, 2}
  RingSize = 4
  MaxSlotBytes = 4
  MaxGlobalBytes = 5
  MaxOthers = 1
  Batch = 2
INVARIANTS QueueTypeOK BudgetAccounted
PROPERTIES ImplementsFifo GetsOutUnlessStalled
