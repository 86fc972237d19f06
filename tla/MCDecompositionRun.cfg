CONSTANTS
  r = r  c = c  m = m  a = a  v = v  p = p  q = q
  Nil = Nil
  Units = {r, c, m, a, v}
  Places = {p, q}
  StageOf <- MCStageOf
  DependsOn <- MCDependsOn
  PlacesOf <- MCPlacesOf
  Chunks = {c}
  Merge = m
  AutoContinue = FALSE
  MaxAttempts = 1
  MaxPackages = 14
  MaxStarts = 3
  MaxRevisions = 2
  MaxEdits = 1
  Faults = {"crash", "edit"}
SPECIFICATION RunSpec
INVARIANTS
  DoneIsSaved
  LaterStagesWait
  WorkGoesOn
PROPERTIES
  RunReturns
  RunEndsForAReason
CHECK_DEADLOCK FALSE
