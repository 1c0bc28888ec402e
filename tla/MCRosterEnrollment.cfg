SPECIFICATION RosterSpec
CONSTANTS
  ParticipantIds <- Three
  Names <- NamesLikeIds
  Vendors <- Codex
  Sessions = {s1, s2}
  Addresses = {}
  Evidence = {}
  ProposalIds = {e1, e2}
  Senders = {t1}
  Values = {v1}
  Details <- NoDetails
  MaxGeneration = 1
  MaxRevision = 3
  None = None
  i1 = i1
  i2 = i2
  i3 = i3
  n1 = n1
  n2 = n2
CONSTRAINT UpdatedAlone
SYMMETRY Interchangeable
INVARIANTS
  SelectorsUnambiguous
  EnrollmentExact
  NoLostUpdate
CHECK_DEADLOCK FALSE
