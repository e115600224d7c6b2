\* Two UPFs, two requests at once.
SPECIFICATION LifeFairSpec
CONSTANTS
  Upfs = {"x", "y"}
  MaxRequests = 2
CHECK_DEADLOCK FALSE
INVARIANTS LifeTypeOK ServingIsReady AmfClosedIsQuiet EndsInOrder
PROPERTIES ProgramEnds
