SPECIFICATION Spec
CONSTANTS
    Sessions = {s1, s2}
    Cockpits = {c1, c2}
    None = None
    MaxActs = 4
    SidebarCols = 40
    Windows <- MCWindows
    DefaultSize <- MCDefaultSize
INVARIANTS TypeOK ScreenFitsGrid PaneFits
SYMMETRY MCSymmetry
CHECK_DEADLOCK FALSE
