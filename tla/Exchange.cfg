SPECIFICATION Spec
CONSTANTS
  U32Max = 9
  TokenCap = 40
  AnswerWires <- AllWires
  MaxBlocks = 3
  Limits <- MCLimits
  MaxTools = 3
INVARIANTS FieldCarriedOrReported MessagesAccepted AnswerKept
\* An exchange ends.
CHECK_DEADLOCK FALSE
