CONSTANTS
  MaxInterval = 4
  MaxTimeout = 6
  SlowDown = 2
  MaxRequest = 1
  Intervals = {0, 1, 3, 9}
  Lifetimes = {0, 2, 6, 20}
  Keys <- MCKeys
  Refreshers = {"refresh"}
  MaxInode = 4
SPECIFICATION Spec
INVARIANTS TornOnlyByOverlap SiblingsKept ToldOkIsSaved PollDeadline
PROPERTIES PollingEnds
CHECK_DEADLOCK FALSE
