SPECIFICATION FairSpec
CONSTANTS
  None = None
  MaxDraws = 3
  MaxChanges = 2
CHECK_DEADLOCK FALSE
INVARIANTS TagTellsTheRow FadesIfTooLong
PROPERTIES SlidesUndisturbed Quiesces
