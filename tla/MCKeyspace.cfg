\* Two keys; a word, and counters that reach zero and the end of the integer range.
CONSTANTS
  k1 = k1
  k2 = k2
  word = word
  Missing = Missing
  Keys = {k1, k2}
  Words = {word}
  Numbers <- TopCounters
  IntMax = 6
  MaxTime = 3
  UnitMs = 4
  Amounts <- PastAndFuture
  MaxArgs = 2
  SampleSize = 1
  MaxRounds = 2
  StepBack = FALSE
SPECIFICATION Spec
SYMMETRY KeySymmetry
INVARIANTS TypeOK VolatileIndexExact
PROPERTIES OnlyExpiredVanish DeadlineSticks ImplementsLiveStore
