SPECIFICATION Spec
CONSTANTS
  None = None
  Waits <- MCWaits
  Hosts <- MCHosts
  Kindings <- MCKindings
  Failing <- MCFailing
  MaxPresses = 2
  MaxRevision = 2
  MaxActivity = 3
INVARIANTS CurrentIsCanonical NoStrandedFrame PlayerCanAnswer
PROPERTIES TakenOnce TransitionIsAtomic
CHECK_DEADLOCK FALSE
