SPECIFICATION FairSpec
CONSTANTS
  v1 = v1
  v2 = v2
  v3 = v3
  v4 = v4
  v5 = v5
  first = first
  held = held
  stray = stray
  Versions <- MCVersions
  NetOf <- MCNetOf
  None = None
  Blank = Blank
  First = first
  Addressing = {}
  Stranding = {stray}
  MgmtOnly = {v5}
  Failing = {v4}
  Raising = {}
  Retries = 2
  StaEvents = TRUE
  MaxCuts = 2
INVARIANTS EffectiveIsLastClean ReportsOnlySettled PushesBounded
PROPERTIES StopsCycling
