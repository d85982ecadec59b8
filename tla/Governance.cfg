SPECIFICATION FairSpec
CONSTANTS
  Sessions = {s1}
  Hooks = {h1, h2}
  Clients = {u1}
  Commands <- MCReadTool
  Kinds = {"PostToolUse", "SessionEnd"}
  HookPhases = {"starting", "running", "ended"}
  PillLevels = {"Manual"}
  Absent = Absent
  NoHook = NoHook
  NoCall = NoCall
  NoCommand = NoCommand
  NoVerdict = NoVerdict
  NoRequest = NoRequest
INVARIANT TypeOK TrustInvariant PendingIsParked LevelIsTheHumans
PROPERTY VerdictIsFinal ClickUnparks ImplementsGate
CHECK_DEADLOCK FALSE
