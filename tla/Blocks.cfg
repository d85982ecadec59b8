SPECIFICATION MCSpec
CONSTANTS
  Shells = {"bash", "zsh"}
  MaxParam = 2
  MaxPrompts = 3
  MaxUnread = 20
  MaxNoise = 8
  MaxCuts = 2
  MaxLag = 1
  MaxBoth = 4
INVARIANT TypeOK MarkersArrive LastExitIsShown
CHECK_DEADLOCK FALSE
