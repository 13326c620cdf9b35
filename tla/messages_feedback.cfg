SPECIFICATION MessageSpec
CONSTANTS
  Messages <- MCMessages
  BinarySize = 100
  MaxMessages = 2
INVARIANTS
  ReturnedArticles
CHECK_DEADLOCK FALSE
