\* The machine runs out of open files for a while.
CONSTANTS
  c1 = c1
  c2 = c2
  None = None
  Clients = {c1, c2}
  Limit = 3
  SystemFiles = 3
  MaxTakes = 2
  MaxAccepts = 2
  InitialEvents = 4
  MaxEvents = 4
  Faults <- NoFaults
SPECIFICATION RelievedSpec
CHECK_DEADLOCK FALSE
PROPERTIES PausedListenerResumes
