SPECIFICATION SessionSpec
CONSTANTS
  l1 = l1
  r1 = r1
  s1 = s1
  o1 = o1
  o2 = o2
  NoTask = NoTask
  Loops <- MCLoops
  Responses <- MCResponses
  Skips <- MCNone
  Clients <- MCOneOperation
  MaxPumps = 2
INVARIANT HandlerNeverWaits
