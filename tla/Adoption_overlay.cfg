SPECIFICATION FairSpec
CONSTANTS
  Keys = {k1, k2}
  DefaultKey = default
  URLs = {byhost, byaddr}
  DefaultURL = byhost
  BuiltinURL = byhost
  Here = {byhost, byaddr}
  None = None
  Ops = {"set-inform", "reset-inform", "other"}
  CommandAt <- Always
  CrashAt <- AllSteps
  MaxCommands = 2
  MaxPushes = 1
  MaxRestarts = 1
  Overlay = TRUE
  StaEvents = TRUE
  L3 = TRUE
PROPERTIES KeyArrives
