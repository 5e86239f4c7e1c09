\* The process limit is the only shortage, startup gets its spare, and the event array
\* starts with room for one.
CONSTANTS
  c1 = c1
  c2 = c2
  c3 = c3
  None = None
  Clients = {c1, c2, c3}
  Limit = 4
  SystemFiles = 9
  MaxTakes = 0
  MaxAccepts = 2
  InitialEvents = 1
  MaxEvents = 8
  Faults <- NoFaults
SPECIFICATION ServedSpec
CHECK_DEADLOCK FALSE
PROPERTIES QueuedIsServed InputIsServed ShutdownStops
