SPECIFICATION Spec
CONSTANTS
  Keys = {k1, k2}
  DefaultKey = default
  URLs = {byhost, byaddr}
  DefaultURL = byhost
  BuiltinURL = byhost
  Here = {byhost, byaddr}
  None = None
  Ops = {"set-adopt", "set-inform", "other"}
  CommandAt <- Between
  CrashAt <- SettledSteps
  MaxCommands = 3
  MaxPushes = 2
  MaxRestarts = 2
  Overlay = FALSE
  StaEvents = FALSE
  L3 = FALSE
INVARIANTS LockedWhileAdopted ForgottenStays
PROPERTIES InformsAsCommanded
