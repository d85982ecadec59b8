SPECIFICATION FairSpec
CONSTANTS
  Sessions = {s1, s2}
  Writers = {w1, w2}
  Clients = {u1}
  Capacity = 2
  MaxEvents = 4
  NoEvent = NoEvent
INVARIANT TypeOK QuietViewIsFleet
PROPERTY ViewMovesForward SubscriberCatchesUp
CHECK_DEADLOCK FALSE
