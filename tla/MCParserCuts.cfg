\* Ten-bit integers, arguments of at most two bytes, two to a command.
CONSTANTS
  IntMax = 511
  MaxDigits = 4
  MaxInline = 15
  MaxHeader = 7
  MaxArgs = 2
  MaxBulk = 2
  Sent <- Everything
SPECIFICATION CutsSpec
CHECK_DEADLOCK FALSE
INVARIANTS TypeOK HeldBounded CutsAgree IntegersExact AsMeant
PROPERTY CutsDoNotShow
