SPECIFICATION Spec
CONSTANTS
  Dummy = DUMMY
  NewEntry = NewEntry
  NoRow = NoRow
  Retries = 3
  Attempts = 2
  MaxSerial = 1
  MaxFaults = 1
  FaultKinds = {"pull"}
PROPERTIES SavedMeansSaved
