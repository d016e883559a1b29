CONSTANTS
  p1 = p1
  p2 = p2
  c1 = c1
  c2 = c2
  c3 = c3
  NoCaller = NoCaller
  Proc = {p1, p2}
  Caller = {c1, c3}
  ProcOf <- OneOne
  MaxGrant = 3
  Faults = {"savefail", "answerlost", "unreadable", "crash", "login", "logout"}
  Rotation = {"rotate"}
  Formats = {"oauth"}
SPECIFICATION Spec
INVARIANTS TypeOK OneWriter AnswerDurable ForcedIsFresh SessionKept MarkKept
CHECK_DEADLOCK FALSE
