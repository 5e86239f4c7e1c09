\* Calls of up to two bytes, four unread at most; sizes 1, 2, 4, 6.
CONSTANTS
  Bytes = {"a", "b"}
  Zero = "0"
  InitialSize = 1
  DoublingLimit = 2
  MaxCall = 2
  MaxHeld = 4
SPECIFICATION FairSpec
INVARIANTS TypeOK
PROPERTIES ImplementsQueue GrowsOnlyWhenFull ReservationCovers CallsEnd
