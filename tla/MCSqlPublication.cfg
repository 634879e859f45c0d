SPECIFICATION Spec
CONSTANTS
  q1 = q1
  q2 = q2
  c1 = c1
  seed = seed
  a = a
  None = None
  Requests <- MCRequests
  Connections <- MCOneConnection
  Revisions <- MCFewRevisions
  Seed = seed
  Epochs <- MCEpochs
  Hosts <- MCHosts
  SharedOn <- MCNative
INVARIANTS
  PointerNamesBlob
  LiveIsDurable
  OwnWorkerOnly
PROPERTIES
  RepliesTruthfully
  PublishesOnBase
  RequestSettles
