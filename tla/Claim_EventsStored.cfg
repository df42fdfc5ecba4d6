SPECIFICATION EventSpec
CONSTANT
  MaxEvents = 5
INVARIANT
  EventsStored
CHECK_DEADLOCK FALSE
