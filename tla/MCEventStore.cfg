SPECIFICATION StoreSpec
CONSTANTS
  Ev <- MCEv
  RecPages = {1, 2, 3, 4, 5}
  PageSize = 6
  HeaderSize = 1
  EntrySize = 1
  OvSpace = 5
  Word = 16
  MaxRecord = 14
  FailAt = {0, 1, 2, 3, 4, 5, 6, 7}
  MaxFailures = 1
  Queries <- MCQueries
  Fold <- MCFold
  DefaultLimit = 5
  Word32 = 32
INVARIANTS
  SpaceSound
  ReadBack
  IndexesAgree
  AnswersSound
  AnswersComplete
PROPERTIES
  ImplementsArchive
CHECK_DEADLOCK FALSE
