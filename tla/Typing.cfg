SPECIFICATION FairSpec
CONSTANTS
    Sessions = {a, b}
    Agents = {a}
    Cockpits = {c1, c2}
    None = None
    Workers = 2
    QueueBound = 1
    MaxPolls = 2
    MaxActs = 2
INVARIANTS TypeOK LinesStayWhole TypedInOrder OpeningIsTaken
 
CHECK_DEADLOCK FALSE
