CONSTANTS
  r = r  c = c  m = m  a = a  b = b  v = v  p = p  q = q
  Nil = Nil
  Units = {c, m, a, b}
  Places = {p, q}
  StageOf <- MCStageOf
  DependsOn <- MCDependsOn
  PlacesOf <- SharedPlacesOf
  Chunks = {c}
  Merge = m
  AutoContinue = FALSE
  MaxAttempts = 1
  MaxPackages = 3
  MaxRevisions = 1
  MaxEdits = 1
  Faults = {"crash", "edit", "keepCrash", "writeError"}
SPECIFICATION MergeSpec
INVARIANTS
  TypeOK
  RunningAgrees
  DoneIsSaved
PROPERTIES
  EditsSurvive
  WorkIsKept
CHECK_DEADLOCK FALSE
