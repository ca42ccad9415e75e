SPECIFICATION FairSpec
CONSTANTS
  Plans = {bad}
  Addresses = {addr}
  Lease = lease
  Board = board
  Torn = torn
  None = None
  Reaches = {board, lease}
  Timeout = 1
  MaxUptime = 1
  MaxRestarts = 2
  EventsPerTick = 1
  CrashAt <- RecordedSteps
  Failing = {"save", "copy"}
  Ops = {"touch", "retry"}
  Race = FALSE
CONSTRAINT NotAmiss
INVARIANTS TypeOK UnprovenIsCovered
PROPERTIES ConfirmsWhatAnswered NoSecondTry StrandedRecovers KeepsThePromise
