SPECIFICATION Spec
CONSTANTS
  Games <- DownloadFirst
  MaxStarts = 2
  Chunks = 2
PROPERTIES DiagnosisEnds
CHECK_DEADLOCK FALSE
