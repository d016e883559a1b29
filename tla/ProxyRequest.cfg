CONSTANTS
  Requests = {"r1", "r2"}
  MaxFrames = 3
SPECIFICATION Spec
INVARIANTS OneRetry LoginPickedUp ErrorsLookLikeErrors BytesKept TruncationReported NoDoneAfterError
PROPERTIES EveryRequestAnswered
