SPECIFICATION FairSpec
CONSTANTS
  Groups = 3
  Stream = {s1, s2}
  MaxExchanges = 4
INVARIANTS
  SessionsInStep
PROPERTIES
  AnswersAligned
  OwnersExit
  CallReturns
CHECK_DEADLOCK FALSE
