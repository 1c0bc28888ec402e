SPECIFICATION Spec
CONSTANTS
  RootMessages <- MCRoots
  ReplyMessages <- MCReplies
  Times <- MCTimes
  None = None
  MaxTime = 3
  ReplySent = {1, 2}
INVARIANTS
  OneConfirmationPerOperation
  RenewalChain
  SupersededStaysClosed
  CancelAgreement
  ConfirmedBeforeExpiry
PROPERTIES
  OutcomeFinal
  OperationOnce
CHECK_DEADLOCK FALSE
