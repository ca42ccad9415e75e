SPECIFICATION FairSpec
CONSTANTS
  Ports = {"lan1", "lan2"}
  Vids = {1, 2}
  Typed <- MCTyped
  Stored <- MCStored
  Keep = Keep
  Patient = TRUE
  MaxEdits = 2
  MaxFaults = 1
CHECK_DEADLOCK FALSE
INVARIANTS StagedWhenQuiet NeverLocksItselfOut RowsAreVlans
PROPERTIES TableRefined EditsReachTheSession
