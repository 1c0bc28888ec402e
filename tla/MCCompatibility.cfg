SPECIFICATION CompatSpec
CONSTANTS
  None = None
  old = old
  new = new
  Participants = {x, y}
  PlanIds = {i1, i2}
  Requests <- KernelAndFeature
  Versions <- OldAndNew
  Epoch <- Epochs
  Capabilities <- Reads
  MaxLifetime = 2
  MaxTime = 1
  MaxGeneration = 2
  MaxReadiness = 2
SYMMETRY Interchangeable
INVARIANTS
  JournalReadable
  GatesAdvance
  ReadyReadersReadOn
PROPERTY ReadyWhenActivated
CHECK_DEADLOCK FALSE
