SPECIFICATION Spec
CONSTANTS
  Sessions = {s1}
  Hooks = {h1, h2}
  Clients = {u1}
  Commands <- MCTwoRisks
  Kinds = {}
  HookPhases = {"running"}
  PillLevels = {}
  Absent = Absent
  NoHook = NoHook
  NoCall = NoCall
  NoCommand = NoCommand
  NoVerdict = NoVerdict
  NoRequest = NoRequest
INVARIANT AllowsWhatWasShown
CHECK_DEADLOCK FALSE
