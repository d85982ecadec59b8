SPECIFICATION FairSpec
CONSTANTS
  Sessions = {s1}
  Hooks = {h1}
  Clients = {u1}
  Commands <- MCTwoRisks
  Kinds = {"SessionEnd"}
  HookPhases = {"running"}
  PillLevels = {}
  Absent = Absent
  NoHook = NoHook
  NoCall = NoCall
  NoCommand = NoCommand
  NoVerdict = NoVerdict
  NoRequest = NoRequest
PROPERTY ClosedHookIsDenied
CHECK_DEADLOCK FALSE
