CONSTANTS
  Wires = {"chat", "messages", "responses", "gemini", "converse"}
  Clients = {"chat", "messages", "responses", "gemini", "converse"}
  Upstreams = {"chat", "messages", "responses", "gemini", "converse"}
  MaxIndex = 2
  MaxWeight = 4
  Core = {"text", "start", "args", "cargs"}
  Reasons = {"stop", "length"}
  Breaks = {"error", "gone"}
SPECIFICATION Spec
INVARIANTS AssemblerHolds BlocksNest ArgsOnOwnCall TextKept ArgsKept ItemRepeatsDeltas EndsOnce CutOffNotExecuted
