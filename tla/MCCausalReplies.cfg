SPECIFICATION CausalSpec
CONSTANTS
  None = None
  Ids <- All
  Type <- TypeOf
  From <- Author
  To <- Reader
  InReplyTo <- Target
  Renews <- Renewal
  ByHand <- Nothing
  MaxReferences = 2
  MaxIntents = 2
INVARIANTS
  RepliesInherit
CHECK_DEADLOCK FALSE
