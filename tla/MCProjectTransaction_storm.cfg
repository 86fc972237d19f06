CONSTANTS
  f1 = f1  f2 = f2
  c1 = c1  c2 = c2  c3 = c3
  Files <- MCFiles
  Contents <- MCContents
  Absent = Absent
  Unstated = Unstated
  NoFile = NoFile
  i1 = i1  i2 = i2
  Ids <- MCIds
  Inputs <- MCInputs
  Kinds = {"commit", "recover", "resolve"}
  Faults = {"crash", "ioError", "syncError", "powerLoss", "edit", "revert", "race", "lateEdit"}
  MaxEdits = 2
  MaxFaults = 1
SPECIFICATION MCSpec
SYMMETRY IdSymmetry
INVARIANTS
  TornHasJournal
  CommittedIsWhole
