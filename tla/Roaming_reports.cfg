SPECIFICATION FairSpec
CONSTANTS
  Clients = {c1}
  Bss = {b1, b2}
  None = None
  Ring = 3
  MaxArrivals = 2
  MaxRekeys = 1
  MaxRestarts = 1
CHECK_DEADLOCK FALSE
INVARIANTS ReportsHappened AnnouncedReported AwayIsNotHere
PROPERTIES StayerIsKnown GoneIsForgotten
