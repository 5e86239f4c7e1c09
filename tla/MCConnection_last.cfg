\* Expected to fail: commands after QUIT are still executed while output is pending.
CONSTANTS
  Kinds = {"big", "cmd", "quit"}
  MaxRequests = 3
  ReadChunk = 3
  SendSpace = 1
  MaxOutput = 9
  Closings = {}
  MayStop = FALSE
SPECIFICATION Spec
CHECK_DEADLOCK FALSE
PROPERTY LastReplyIsLast
