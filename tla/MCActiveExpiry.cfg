\* Four keys, two to a sample, two rounds to a cycle.
CONSTANTS
  k1 = k1
  k2 = k2
  k3 = k3
  k4 = k4
  Keys = {k1, k2, k3, k4}
  Hash <- Hashes
  SampleSize = 2
  MaxRounds = 2
  MaxBuckets = 4
  WorkPerKey = 0
SPECIFICATION FairSpec
INVARIANTS TypeOK WalkIsASample
PROPERTIES MassExpiryDrains DueIsCollected
