SPECIFICATION MCSpec
CONSTANTS
  Sessions = {s1, s2}
  Followed = {s1}
  WorktreeFrom = {TRUE, FALSE}
  Requests = {"pause", "resume", "stop", "decide"}
  Specs = {p1}
  NoSession = NoSession
  InboxBound = 2
INVARIANT TypeOK PipelineTypeOK LiveChildIsReachable TreesAreOwned DoneMeansExited
PROPERTY ClosedStaysClosed FiresOnceDone ExitIsAnnounced ExitStartsPipeline
CHECK_DEADLOCK FALSE
