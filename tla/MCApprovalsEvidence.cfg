SPECIFICATION ApprovalsSpec
CONSTANTS
  Paths = {x, y}
  Fingerprints = {f, g}
  Contexts = {c, d}
  MaxRecords = 3
  MaxManifests = 2
  MaxIds = 5
  None = None
SYMMETRY Symmetry
INVARIANTS
  EvidenceReconciles
