SPECIFICATION AttentiveSpec
CONSTANTS
  Sessions = {s1}
  Hooks = {h1}
  Clients = {u1}
  Commands <- MCTwoRisks
  Kinds = {}
  HookPhases = {"running"}
  PillLevels = {}
  Absent = Absent
  NoHook = NoHook
  NoCall = NoCall
  NoCommand = NoCommand
  NoVerdict = NoVerdict
  NoRequest = NoRequest
PROPERTY ParkedGetsAnswered
CHECK_DEADLOCK FALSE
