SPECIFICATION Spec
CONSTANTS
  Keys = {k1, k2}
  DefaultKey = default
  URLs = {byhost, byaddr}
  DefaultURL = byhost
  BuiltinURL = byhost
  Here = {byhost, byaddr}
  None = None
  Ops = {"set-adopt", "reset-inform"}
  CommandAt <- Between
  CrashAt <- NotedSteps
  MaxCommands = 2
  MaxPushes = 2
  MaxRestarts = 2
  Overlay = FALSE
  StaEvents = FALSE
  L3 = FALSE
INVARIANTS ForgottenIsBare
