SPECIFICATION MCSpec
CONSTANTS
  Sessions = {a, s}
  Agents = {a}
  Calls = {1, 2}
  Nobody = Nobody
  Forsaken = Forsaken
  WorktreeFrom = {TRUE}
  Requests = {"decide"}
  Specs = {p1}
  NoSession = NoSession
  InboxBound = 1
  MaxTurns = 1
INVARIANT AgentTypeOK CardsMatchTerminals
PROPERTY StopStartsPipeline
CHECK_DEADLOCK FALSE
