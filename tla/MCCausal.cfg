SPECIFICATION CausalSpec
CONSTANTS
  None = None
  Ids <- All
  Type <- TypeOf
  From <- Author
  To <- Reader
  InReplyTo <- Target
  Renews <- Renewal
  ByHand <- RenewalAlone
  MaxReferences = 1
  MaxIntents = 4
CONSTRAINT Alternatives
INVARIANTS
  CausalTypeOK
  ContextsConsistent
  FrontierHonest
  OneVerdict
  ConversationsContinue
PROPERTY NoStaleInstruction
CHECK_DEADLOCK FALSE
