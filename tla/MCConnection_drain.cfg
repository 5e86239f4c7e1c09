\* Expected to fail: a half-close cuts off the last reply.
CONSTANTS
  Kinds = {"big", "quit"}
  MaxRequests = 2
  ReadChunk = 3
  SendSpace = 1
  MaxOutput = 9
  Closings = {"shut"}
  MayStop = FALSE
SPECIFICATION Spec
CHECK_DEADLOCK FALSE
PROPERTY DrainsBeforeClosing
