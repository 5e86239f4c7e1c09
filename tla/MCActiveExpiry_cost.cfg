\* A table that has shrunk to fewer keys than it has buckets.
CONSTANTS
  k1 = k1
  k2 = k2
  k3 = k3
  k4 = k4
  Keys = {k1, k2, k3, k4}
  Hash <- SpreadHashes
  SampleSize = 1
  MaxRounds = 2
  MaxBuckets = 4
  WorkPerKey = 3
SPECIFICATION Spec
INVARIANT CostIsChosen
