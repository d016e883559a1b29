CONSTANTS
  Clients = {"chat", "messages", "responses", "gemini", "converse"}
  Vendors = {"chat", "messages", "responses", "gemini", "converse"}
  MaxWeight = 4
SPECIFICATION Spec
CHECK_DEADLOCK FALSE
INVARIANTS ContentCarriedOrReported MarksCarriedOrReported OrderKept RoleKept TurnsAcceptable ResultsAnswerTheirCalls CallIdsDistinct
