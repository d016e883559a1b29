CONSTANTS
  Wires = {"chat", "messages", "responses", "gemini", "converse"}
  Clients = {"chat"}
  Upstreams = {"responses"}
  MaxIndex = 2
  MaxWeight = 6
  Core = {"text", "start", "args"}
  Reasons = {"stop", "length"}
  Breaks = {"error", "gone"}
SPECIFICATION Spec
INVARIANTS ChatIndexesDistinct
