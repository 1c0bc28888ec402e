SPECIFICATION RosterSpec
CONSTANTS
  ParticipantIds <- Two
  Names <- PlainNames
  Vendors <- Claude
  Sessions = {s1, s2}
  Addresses = {a1, a2}
  Evidence = {v1}
  ProposalIds = {}
  Senders = {t1, t2}
  Values = {}
  Details <- NoDetails
  MaxGeneration = 2
  MaxRevision = 1
  None = None
  i1 = i1
  i2 = i2
  i3 = i3
  n1 = n1
  n2 = n2
SYMMETRY Interchangeable
INVARIANTS
  OneParticipantPerSession
  CorrelationEarned
PROPERTY IntentForCurrentBinding
CHECK_DEADLOCK FALSE
