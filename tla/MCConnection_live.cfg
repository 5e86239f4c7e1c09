\* No limit is passed and no shutdown comes: what a client that reads can rely on, and
\* that may send for ever after a QUIT or broken framing.
CONSTANTS
  Kinds = {"cmd", "big", "quit", "bad"}
  MaxRequests = 3
  ReadChunk = 3
  SendSpace = 1
  MaxOutput = 9
  Closings = {"shut"}
  MayStop = FALSE
SPECIFICATION EndlessSpec
CHECK_DEADLOCK FALSE
PROPERTIES LastReplyCloses EveryCommandAnswered
