SPECIFICATION Spec
CONSTANTS
  N = 4
  Workers = 2
  Readers = 3
  Androids <- MCHosts
INVARIANTS OutcomeTruthful PoolReleased
PROPERTIES ScanSettles
CHECK_DEADLOCK FALSE
