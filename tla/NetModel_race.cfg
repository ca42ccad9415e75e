SPECIFICATION FairSpec
CONSTANTS
  Plans = {good, bad}
  Addresses = {}
  Lease = lease
  Board = board
  Torn = torn
  None = None
  Reaches = {board, good, lease}
  Timeout = 1
  MaxUptime = 1
  MaxRestarts = 1
  EventsPerTick = 0
  CrashAt <- AllSteps
  Failing = {}
  Ops = {"touch", "retry", "restore", "reset"}
  Race = TRUE
INVARIANTS AppliedNeverFailed
PROPERTIES WindowCloses
