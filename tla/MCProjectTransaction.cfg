CONSTANTS
  f1 = f1  f2 = f2
  c1 = c1  c2 = c2  c3 = c3
  Files <- MCFiles
  Contents <- MCContents
  Absent = Absent
  Unstated = Unstated
  NoFile = NoFile
  i1 = i1  i2 = i2
  Ids <- MCIds
  Inputs <- MCInputs
  Kinds = {"commit", "recover", "resolve"}
  Faults = {"crash", "ioError", "edit", "lateEdit"}
  MaxEdits = 1
  MaxFaults = 2
SPECIFICATION MCFairSpec
INVARIANTS
  TypeOK
  RollForwardPossible
  TornHasJournal
  CommittedIsWhole
PROPERTIES
  EditsSurvive
  Settles
