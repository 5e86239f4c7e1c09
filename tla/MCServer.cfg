\* Descriptors, open files and faults; the server may stop for good.
CONSTANTS
  c1 = c1
  c2 = c2
  c3 = c3
  None = None
  Clients = {c1, c2, c3}
  Limit = 4
  SystemFiles = 5
  MaxTakes = 4
  MaxAccepts = 2
  InitialEvents = 2
  MaxEvents = 4
  Faults <- AnyFault
SPECIFICATION Spec
CHECK_DEADLOCK FALSE
SYMMETRY ClientSymmetry
INVARIANTS TypeOK EventsReachTheirClient CallbackAlive DescriptorsAccounted PausedMeansUnwatched
PROPERTIES ReserveOrPause
