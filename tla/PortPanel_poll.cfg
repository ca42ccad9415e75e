SPECIFICATION FairSpec
CONSTANTS
  None = None
  Dotted <- DottedNames
  Wan <- WanNets
  Boards <- MCBoards
  MaxChanges = 1
  MaxFailures = 1
INVARIANTS PanelTellsTheWire PollKeepsTheUser
PROPERTIES PollsLeaveTheTip CatchesUp
