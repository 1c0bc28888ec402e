SPECIFICATION CausalSpec
CONSTANTS
  None = None
  Ids <- All
  Type <- TypeOf
  From <- Author
  To <- Reader
  InReplyTo <- Target
  Renews <- Renewal
  ByHand <- Nothing
  MaxReferences = 2
  MaxIntents = 4
INVARIANTS
  FrontierIsMaximal
CHECK_DEADLOCK FALSE
