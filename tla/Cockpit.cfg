SPECIFICATION FairSpec
CONSTANTS
    Sessions = {1, 2}
    MaxActs = 3
INVARIANT TypeOK FocusIsListed PaneIsWatched
PROPERTY GridsCatchUp
CHECK_DEADLOCK FALSE
