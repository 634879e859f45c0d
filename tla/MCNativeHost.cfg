SPECIFICATION Spec
CONSTANTS
  c1 = c1
  c2 = c2
  c3 = c3
  p = p
  q = q
  None = None
  Commands <- MCCommands
  Projects <- MCProjects
  MaxStarts = 5
  MaxRequests = 2
INVARIANTS OneProject CancellationIsTruthful
PROPERTIES CommandsEnd
CHECK_DEADLOCK FALSE
