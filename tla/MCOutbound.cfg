SPECIFICATION FairOutboundSpec
CONSTANTS
  RootMessages <- RequestAndRenewal
  ReplyMessages <- TwoReplies
  Times <- MCTimes
  None = None
  MaxTime = 2
  Sends = {s1, s2}
INVARIANTS
  TruthfulOutcomes
  RegisteredBeforeDispatch
  RetryChain
  RepliesInTurn
PROPERTY SendsEnd
PROPERTY AtMostOnce
CHECK_DEADLOCK FALSE
