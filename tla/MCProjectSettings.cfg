SPECIFICATION Spec
CONSTANTS
  Hosts <- Both
  Writables <- Both
  MaxUpdates = 2
  MaxDisturbances = 1
INVARIANTS RuntimeOnStored
PROPERTIES SavedIsCommitted SettingsSettle
CHECK_DEADLOCK FALSE
