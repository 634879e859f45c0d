SPECIFICATION Spec
CONSTANTS
  Games <- MCGames
  MaxStarts = 2
  Chunks = 2
INVARIANTS SavedIsWhole
PROPERTIES StagesEnd
CHECK_DEADLOCK FALSE
