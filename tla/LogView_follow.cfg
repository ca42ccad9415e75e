SPECIFICATION FairSpec
CONSTANTS
  Lines = {"e", "w", "c"}
  Parsed = {"e", "w"}
  Level <- MCLevel
  Filters = {{}, {"w"}, {"e", "c"}}
  None = None
  CHUNK = 1
  Log <- MCLog
  RingSize = 3
  MaxLogged = 2
  MaxViews = 2
CHECK_DEADLOCK FALSE
INVARIANTS RowsAreTheLog CountsAreTheRows ChunksFit
PROPERTIES PollTouchesOnlyTheNew NoRowForgotten
