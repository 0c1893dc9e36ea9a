SPECIFICATION Spec
CONSTANTS
  IssueName <- MCIssueName
  CallIds = {c1, c2, c3, c4}
  Calls <- MCCalls
  Configs <- MCConfigs
SYMMETRY Symmetry
INVARIANTS
  ChaosCountersMatchLedger
  BooksBalance
  LostResponsesAreKept
  ReadsTellTheWorld
  NoWriteAfterRevocation
  OneAnswerPerCall
