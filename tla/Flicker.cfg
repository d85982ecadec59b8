SPECIFICATION FairSpec
CONSTANTS
    Sessions = {1, 2}
    MaxActs = 1
PROPERTY FocusSettles
CHECK_DEADLOCK FALSE
