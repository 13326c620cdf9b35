SPECIFICATION MessageSpec
CONSTANTS
  Messages <- MCMessages
  BinarySize = 100
  MaxMessages = 2
INVARIANTS
  MessageTypeOK
  AcceptsWhatFits
  ReadsAreFields
CHECK_DEADLOCK FALSE
