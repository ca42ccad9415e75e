SPECIFICATION Spec
CONSTANTS
  Plans = {good, bad}
  Addresses = {}
  Lease = lease
  Board = board
  Torn = torn
  None = None
  Reaches = {board, good, lease}
  Timeout = 2
  MaxUptime = 2
  MaxRestarts = 1
  EventsPerTick = 1
  CrashAt <- UnsavedSteps
  Failing = {}
  Ops = {}
  Race = FALSE
INVARIANTS WindowSurvivesRestart
