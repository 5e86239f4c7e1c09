\* A client that pipelines, leaves in either way, and a limit that a reply can pass.
CONSTANTS
  Kinds = {"cmd", "big", "noop", "quit", "bad"}
  MaxRequests = 4
  ReadChunk = 3
  SendSpace = 1
  MaxOutput = 2
  Closings = {"shut", "gone"}
  MayStop = TRUE
SPECIFICATION Spec
CHECK_DEADLOCK FALSE
INVARIANTS TypeOK RepliesInOrder NoStrandedInput WriteInterestExact OutputBounded
