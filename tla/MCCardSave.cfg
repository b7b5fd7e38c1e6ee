SPECIFICATION Spec
CONSTANTS
  Dummy = DUMMY
  NewEntry = NewEntry
  NoRow = NoRow
  Retries = 3
  Attempts = 2
  MaxSerial = 2
  MaxFaults = 3
  FaultKinds = {"pull", "reset", "glitch"}
INVARIANTS
  TypeOK
  SaveSurvives
  NamedFileWhole
PROPERTIES
  OldKept
  SavedUnlessLate
  SaveEnds
