SPECIFICATION JournalSpec
CONSTANTS
  Processes = {p1, p2}
  MaxRecords = 3
  MaxIds = 5
  None = None
SYMMETRY Symmetry
INVARIANTS
  JournalTypeOK
  OnlyTailDamage
PROPERTIES
  RecoveryConfirmed
  AppendOnly
